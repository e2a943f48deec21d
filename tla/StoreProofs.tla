---------------------------- MODULE StoreProofs ----------------------------
(***************************************************************************)
(* Theorems about what bubblers share on disk: the control socket, the     *)
(* instance directories, the shims and the run log, each on its own, for   *)
(* any number of processes.                                                *)
(***************************************************************************)
EXTENDS RunLog, FiniteSetTheorems, TLAPS

----------------------------------------------------------------------------
(* The control socket.                                                      *)

SocketInv == TypeOK /\ SocketPhases /\ ClaimIsThePath /\ GuardCleans

(* No process has touched the path yet.                                    *)
LEMMA InitSocketInv == Init => SocketInv
<1> SUFFICES ASSUME Init PROVE SocketInv
    OBVIOUS
<1>1. TypeOK
  BY SocketAssumption DEF Init, TypeOK, RunLocations, Procs
<1>2. SocketPhases
  BY SocketAssumption DEF Init, SocketPhases, Procs
<1>3. ClaimIsThePath /\ GuardCleans
  BY SocketAssumption DEF Init, ClaimIsThePath, GuardCleans, Holds, Open, Procs
<1> QED BY <1>1, <1>2, <1>3 DEF SocketInv

(* The types, action by action.                                            *)
LEMMA NextSocketTypeOK == TypeOK /\ [Next]_vars => TypeOK'
<1> SUFFICES ASSUME TypeOK, [Next]_vars PROVE TypeOK'
    OBVIOUS
<1> USE SocketAssumption DEF TypeOK, RunLocations, Go, Procs
<1>1. ASSUME NEW p \in Procs, Connect(p) PROVE TypeOK'
  BY <1>1 DEF Connect, AfterNone
<1>2. ASSUME NEW p \in Procs, Unlink(p) PROVE TypeOK'
  BY <1>2 DEF Unlink, AfterNone, RemovePath
<1>3. ASSUME NEW p \in Procs, Executed(p) PROVE TypeOK'
  BY <1>3 DEF Executed
<1>4. ASSUME NEW r \in Runs, RunStep(r) \/ SandboxEnds(r) \/ Crash(r) PROVE TypeOK'
  BY <1>4 DEF RunStep, Bind, Listen, StartSandbox, Reap, StopSidecars, Unguard, FailStart,
              Unwind, CloseListener, SandboxEnds, Crash, RemovePath
<1>5. CASE Ended \/ UNCHANGED vars
  BY <1>5 DEF Ended, vars
<1> QED BY <1>1, <1>2, <1>3, <1>4, <1>5 DEF Next, Step

(* A step keeps the phases, the claim and the clean exit.                  *)
LEMMA NextSocketInv == SocketInv /\ [Next]_vars => SocketInv'
<1> SUFFICES ASSUME SocketInv, [Next]_vars PROVE SocketInv'
    OBVIOUS
<1>t. TypeOK'
  BY NextSocketTypeOK DEF SocketInv
<1> USE SocketAssumption, <1>t
    DEF SocketInv, TypeOK, SocketPhases, ClaimIsThePath, GuardCleans, Holds, Open, Go, Procs
<1>1. ASSUME NEW p \in Procs, Connect(p) PROVE SocketInv'
  BY <1>1 DEF Connect, AfterNone
<1>2. ASSUME NEW p \in Procs, Unlink(p) PROVE SocketInv'
  BY <1>2 DEF Unlink, AfterNone, RemovePath
<1>3. ASSUME NEW p \in Procs, Executed(p) PROVE SocketInv'
  BY <1>3 DEF Executed
<1>4. ASSUME NEW r \in Runs, RunStep(r) PROVE SocketInv'
  <2>1. CASE Bind(r)
    BY <2>1 DEF Bind
  <2>2. CASE Listen(r) \/ StartSandbox(r) \/ Reap(r) \/ StopSidecars(r) \/ FailStart(r)
    BY <2>2 DEF Listen, StartSandbox, Reap, StopSidecars, FailStart
  <2>3. CASE Unguard(r)
    BY <2>3 DEF Unguard, RemovePath
  <2>4. CASE Unwind(r)
    BY <2>4 DEF Unwind, RemovePath
  <2>5. CASE CloseListener(r)
    BY <2>5 DEF CloseListener
  <2> QED BY <1>4, <2>1, <2>2, <2>3, <2>4, <2>5 DEF RunStep
<1>5. ASSUME NEW r \in Runs, SandboxEnds(r) PROVE SocketInv'
  BY <1>5 DEF SandboxEnds
<1>6. ASSUME NEW r \in Runs, Crash(r) PROVE SocketInv'
  BY <1>6 DEF Crash
<1>7. CASE Ended \/ UNCHANGED vars
  BY <1>7 DEF Ended, vars
<1> QED BY <1>1, <1>2, <1>3, <1>4, <1>5, <1>6, <1>7 DEF Next, Step

(* The invariant, from its first state and its steps.                      *)
LEMMA SocketInvariant == Spec => []SocketInv
BY InitSocketInv, NextSocketInv, PTL DEF Spec

(* A run that bound the control socket stays the one it leads to unless    *)
(* another process removes the path of an open socket.                     *)
THEOREM ClaimIsThePathHolds == Spec => []ClaimIsThePath
<1>1. SocketInv => ClaimIsThePath
  BY DEF SocketInv
<1> QED BY <1>1, SocketInvariant, PTL

(* Every run that ends by itself has removed its socket.                   *)
THEOREM GuardCleansHolds == Spec => []GuardCleans
<1>1. SocketInv => GuardCleans
  BY DEF SocketInv
<1> QED BY <1>1, SocketInvariant, PTL

----------------------------------------------------------------------------
(* The instance directories.                                                *)

StoreTypes ==
  /\ StoreTypeOK
  /\ DOMAIN step = Pids /\ DOMAIN op = Pids /\ DOMAIN doomed = Pids
  /\ texts >= Seed

Replacing == {"bak new", "bak rename", "config new", "config rename"}

\* What a command that replaces a file will put there is a text of its own.
Texts == \A p \in Pids : step[p] \in Replacing => mine[p] > Seed

\* Until the backup is renamed the text that was read is the config; from then
\* on it is the backup.
Backed ==
  \A p \in Pids :
    op[p] \in {"save", "reseed"} /\ clean[p] /\ inst # NoDir =>
      /\ step[p] \in {"bak new", "bak rename"} => held[p] = inst.config
      /\ step[p] \in {"config new", "config rename", "done"} => held[p] = inst.bak

StoreInv == StoreTypes /\ Texts /\ Backed

(* No command runs and the instance, if it is there, is whole.             *)
LEMMA InitStoreInv == StoreInit => StoreInv
<1> SUFFICES ASSUME StoreInit PROVE StoreInv
    OBVIOUS
<1>1. inst \in Dirs \cup {NoDir}
  <2>1. [id |-> 0, home |-> TRUE, config |-> Seed, bak |-> Absent] \in Dirs
    BY DEF Dirs, Seed, Absent
  <2> QED BY <2>1 DEF StoreInit
<1>2. StoreTypes
  BY <1>1 DEF StoreInit, StoreTypes, StoreTypeOK, Seed, Absent
<1>3. Texts /\ Backed
  BY DEF StoreInit, Texts, Backed, Replacing
<1> QED BY <1>2, <1>3 DEF StoreInv

\* Everything a process has of its own, for every process but p.
OthersStay(p) ==
  \A q \in Pids \ {p} :
    step'[q] = step[q] /\ op'[q] = op[q] /\ held'[q] = held[q] /\ mine'[q] = mine[q]

(* A step of one process does nothing to what another one has of its own.  *)
LEMMA StepsAlone ==
  ASSUME StoreTypes, NEW p \in Pids, Proceeds(p)
  PROVE  OthersStay(p)
<1> USE DEF StoreTypes, StoreTypeOK, OthersStay, Goto, Exit, Keeps
<1>1. CASE Commands(p)
  BY <1>1 DEF Commands, Start
<1>2. CASE MakeDir(p)
  BY <1>2 DEF MakeDir
<1>3. CASE MakeHome(p) \/ OpenConfig(p)
  BY <1>3 DEF MakeHome, OpenConfig, Fill
<1>4. CASE WriteConfig(p)
  BY <1>4 DEF WriteConfig
<1>5. CASE Probe(p) \/ Read(p)
  BY <1>5 DEF Probe, Read
<1>6. CASE WriteAtomic(p, "bak") \/ WriteAtomic(p, "config")
  BY <1>6 DEF WriteAtomic, Sibling, Rename
<1>7. CASE Done(p) \/ Delete(p) \/ Run(p)
  BY <1>7 DEF Done, Delete, Run
<1>8. CASE Sweep(p)
  BY <1>8 DEF Sweep
<1>9. CASE Try(p)
  BY <1>9 DEF Try
<1>10. CASE Drop(p) \/ Killed(p)
  BY <1>10 DEF Drop, Killed
<1> QED BY <1>1, <1>2, <1>3, <1>4, <1>5, <1>6, <1>7, <1>8, <1>9, <1>10 DEF Proceeds

(* The directory that make_dir() fills, and what it puts back.             *)
LEMMA PutTypes ==
  ASSUME StoreTypes, NEW p \in Pids, NEW d \in Dirs, Put(p, d)
  PROVE  inst' \in Dirs \cup {NoDir} /\ try' \in [Pids -> Dirs \cup {NoDir}]
BY DEF StoreTypes, StoreTypeOK, Put

LEMMA TargetTypes ==
  ASSUME StoreTypes, NEW p \in Pids
  PROVE  Target(p) \in Dirs \cup {NoDir}
BY DEF StoreTypes, StoreTypeOK, Target

DiskTypes == inst \in Dirs \cup {NoDir} /\ try \in [Pids -> Dirs \cup {NoDir}]

(* Every step leaves directories where directories were.                   *)
LEMMA NextDiskTypes ==
  ASSUME StoreTypes, NEW p \in Pids, Proceeds(p)
  PROVE  DiskTypes'
<1>d. DiskTypes
  BY DEF StoreTypes, StoreTypeOK, DiskTypes
<1>1. CASE UNCHANGED <<inst, try>>
  BY <1>d, <1>1 DEF DiskTypes
<1>2. CASE MakeDir(p)
  <2>1. [id |-> starts * 8 + p, home |-> FALSE, config |-> Absent, bak |-> Absent] \in Dirs
    BY PidsAssumption DEF StoreTypes, StoreTypeOK, Dirs, Absent
  <2> QED BY <1>1, <1>2, <2>1, PutTypes DEF MakeDir, DiskTypes
<1>3. CASE MakeHome(p) \/ OpenConfig(p)
  <2>1. CASE Target(p) \in Dirs
    <3>1. [Target(p) EXCEPT !["home"] = TRUE] \in Dirs
      BY <2>1 DEF Dirs
    <3>2. [Target(p) EXCEPT !["config"] = Empty] \in Dirs
      BY <2>1 DEF Dirs, Empty
    <3> QED BY <1>1, <1>3, <3>1, <3>2, PutTypes DEF MakeHome, OpenConfig, Fill, DiskTypes
  <2>2. CASE Target(p) = NoDir
    BY <1>1, <1>3, <2>2 DEF MakeHome, OpenConfig, Fill
  <2> QED BY <2>1, <2>2, TargetTypes
<1>4. CASE WriteConfig(p)
  <2>1. CASE Target(p) \in Dirs
    <3>1. [Target(p) EXCEPT !.config = Seed] \in Dirs
      BY <2>1 DEF Dirs, Seed
    <3> QED BY <1>1, <1>4, <3>1, PutTypes DEF WriteConfig, DiskTypes
  <2>2. CASE Target(p) = NoDir
    BY <1>1, <1>4, <2>2 DEF WriteConfig
  <2> QED BY <2>1, <2>2, TargetTypes
<1>5. CASE \E f \in {"bak", "config"} : Rename(p, f)
  <2>1. PICK f \in {"bak", "config"} : Rename(p, f)
    BY <1>5
  <2>2. ASSUME inst # NoDir PROVE Replaced(p, f) \in Dirs
    BY <1>d, <2>2 DEF DiskTypes, Replaced, Dirs, StoreTypes, StoreTypeOK
  <2> QED BY <1>1, <1>d, <2>1, <2>2 DEF Rename, DiskTypes
<1>6. CASE Delete(p)
  <2>1. ASSUME inst # NoDir
        PROVE  [inst EXCEPT !.home = FALSE, !.config = Absent, !.bak = Absent] \in Dirs
    BY <1>d, <2>1 DEF DiskTypes, Dirs, Absent
  <2> QED BY <1>d, <1>6, <2>1 DEF Delete, DiskTypes
<1>7. CASE Sweep(p)
  BY <1>d, <1>7 DEF Sweep, disk, DiskTypes
<1>8. CASE Drop(p)
  BY <1>d, <1>8 DEF Drop, DiskTypes
<1> QED BY <1>1, <1>2, <1>3, <1>4, <1>5, <1>6, <1>7, <1>8
    DEF Proceeds, Commands, Start, Probe, Read, WriteAtomic, Sibling, Done, Run, Try, Killed, disk

LocalTypes ==
  /\ live \in Nat /\ texts \in Nat /\ starts \in Nat /\ texts >= Seed
  /\ held \in [Pids -> Nat] /\ mine \in [Pids -> Nat]
  /\ DOMAIN step = Pids /\ DOMAIN op = Pids /\ DOMAIN doomed = Pids

(* Every step keeps the types of what the processes have of their own.     *)
LEMMA NextLocalTypes ==
  ASSUME StoreTypes, NEW p \in Pids, Proceeds(p)
  PROVE  LocalTypes'
<1>l. LocalTypes
  BY DEF StoreTypes, StoreTypeOK, LocalTypes
<1>c. inst # NoDir => inst.config \in Nat
  BY DEF StoreTypes, StoreTypeOK, Dirs
<1> USE <1>l, PidsAssumption DEF LocalTypes, Goto, Exit, Keeps, Absent, Seed
<1>1. CASE Commands(p)
  BY <1>1 DEF Commands, Start
<1>2. CASE MakeDir(p)
  BY <1>2 DEF MakeDir
<1>3. CASE MakeHome(p) \/ OpenConfig(p)
  BY <1>3 DEF MakeHome, OpenConfig, Fill
<1>4. CASE WriteConfig(p)
  BY <1>4 DEF WriteConfig
<1>5. CASE Probe(p)
  BY <1>5 DEF Probe
<1>6. CASE Read(p)
  BY <1>6, <1>c DEF Read, HasConfig
<1>7. CASE WriteAtomic(p, "bak") \/ WriteAtomic(p, "config")
  BY <1>7 DEF WriteAtomic, Sibling, Rename
<1>8. CASE Done(p) \/ Delete(p)
  BY <1>8 DEF Done, Delete
<1>9. CASE Run(p)
  BY <1>9, <1>c DEF Run, HasConfig
<1>10. CASE Sweep(p)
  BY <1>10 DEF Sweep
<1>11. CASE Try(p)
  BY <1>11 DEF Try
<1>12. CASE Drop(p) \/ Killed(p)
  BY <1>12 DEF Drop, Killed
<1> QED BY <1>1, <1>2, <1>3, <1>4, <1>5, <1>6, <1>7, <1>8, <1>9, <1>10, <1>11, <1>12 DEF Proceeds

(* A text is numbered above the seed, and what a command that replaces a    *)
(* file has read is the config until its backup is renamed.                 *)
Own(p) ==
  /\ step[p] \in Replacing => mine[p] > Seed
  /\ op[p] \in {"save", "reseed"} /\ clean[p] /\ inst # NoDir =>
      /\ step[p] \in {"bak new", "bak rename"} => held[p] = inst.config
      /\ step[p] \in {"config new", "config rename", "done"} => held[p] = inst.bak

(* What a process knows of its own replacement outlives its own steps.      *)
LEMMA NextOwn ==
  ASSUME StoreInv, NEW p \in Pids, Proceeds(p), Watch(p)
  PROVE  Own(p)'
<1>l. LocalTypes /\ (inst # NoDir => inst \in Dirs)
  BY DEF StoreInv, StoreTypes, StoreTypeOK, LocalTypes
<1>o. Own(p)
  BY DEF StoreInv, Texts, Backed, Own
<1>w. step[p] # "read" => clean'[p] = clean[p]
  BY DEF Watch, StoreInv, StoreTypes, StoreTypeOK
<1>1. CASE step'[p] \notin Replacing \cup {"done"}
  BY <1>1 DEF Own, Replacing
<1>2. CASE Read(p)
  <2>1. CASE Exit(p)
    BY <1>1, <1>l, <2>1 DEF Exit, Goto, LocalTypes, Replacing
  <2>2. CASE /\ held' = [held EXCEPT ![p] = inst.config]
             /\ mine' = [mine EXCEPT ![p] = texts + 1]
             /\ Goto(p, FirstWrite(p)) /\ UNCHANGED op
    <3>1. mine'[p] > Seed /\ held'[p] = inst.config /\ inst' = inst
      BY <1>2, <1>l, <2>2 DEF Read, disk, LocalTypes, Seed
    <3>2. step'[p] = (IF op[p] = "mark" THEN "config new" ELSE "bak new")
      BY <1>l, <2>2 DEF Goto, LocalTypes, FirstWrite, NewOf
    <3>3. op'[p] = op[p]
      BY <2>2
    <3> QED BY <3>1, <3>2, <3>3 DEF Own
  <2> QED BY <1>2, <2>1, <2>2 DEF Read
<1>3. ASSUME NEW f \in {"bak", "config"}, Sibling(p, f) PROVE Own(p)'
  <2>1. CASE Exit(p)
    BY <1>1, <1>l, <2>1 DEF Exit, Goto, LocalTypes, Replacing
  <2>2. CASE Goto(p, RenameOf(f)) /\ Keeps
    BY <1>3, <1>l, <1>o, <1>w, <2>2
       DEF Sibling, Own, Goto, Keeps, LocalTypes, Replacing, NewOf, RenameOf
  <2> QED BY <1>3, <2>1, <2>2 DEF Sibling
<1>4. ASSUME NEW f \in {"bak", "config"}, Rename(p, f) PROVE Own(p)'
  <2>1. CASE Exit(p)
    BY <1>1, <1>l, <2>1 DEF Exit, Goto, LocalTypes, Replacing
  <2>2. CASE /\ inst # NoDir /\ inst' = Replaced(p, f) /\ Goto(p, After(f))
             /\ UNCHANGED <<op, held, mine>>
    BY <1>4, <1>l, <1>o, <1>w, <2>2
       DEF Rename, Own, Goto, Replaced, LocalTypes, Replacing, NewOf, RenameOf, After, Dirs
  <2> QED BY <1>4, <2>1, <2>2 DEF Rename
<1>5. CASE Commands(p)
  BY <1>1, <1>5, <1>l DEF Commands, Start, Goto, LocalTypes, Replacing
<1>6. CASE MakeDir(p) \/ MakeHome(p) \/ OpenConfig(p) \/ WriteConfig(p)
  BY <1>1, <1>6, <1>l
     DEF MakeDir, MakeHome, OpenConfig, Fill, WriteConfig, Exit, Goto, LocalTypes, Replacing
<1>7. CASE Probe(p) \/ Done(p) \/ Delete(p) \/ Run(p)
  BY <1>1, <1>7, <1>l DEF Probe, Done, Delete, Run, Exit, Goto, LocalTypes, Replacing
<1>8. CASE Sweep(p) \/ Try(p) \/ Drop(p) \/ Killed(p)
  BY <1>1, <1>8, <1>l DEF Sweep, Try, Drop, Killed, Exit, Goto, LocalTypes, Replacing
<1> QED BY <1>2, <1>3, <1>4, <1>5, <1>6, <1>7, <1>8 DEF Proceeds, WriteAtomic

(* A step keeps the types and what every command knows of its replacement: *)
(* the one that takes it by NextOwn, another while the instance is the one *)
(* it read.                                                                *)
LEMMA NextStoreInv == StoreInv /\ [StoreNext]_ivars => StoreInv'
<1> SUFFICES ASSUME StoreInv, [StoreNext]_ivars PROVE StoreInv'
    OBVIOUS
<1>1. ASSUME NEW p \in Pids, Proceeds(p), Watch(p) PROVE StoreInv'
  <2>t. StoreTypes
    BY DEF StoreInv
  <2>1. StoreTypes'
    <3>1. DiskTypes' /\ LocalTypes'
      BY <1>1, <2>t, NextDiskTypes, NextLocalTypes
    <3>2. clean' \in [Pids -> BOOLEAN]
      BY <1>1, <2>t DEF Watch, StoreTypes, StoreTypeOK
    <3> QED BY <3>1, <3>2 DEF DiskTypes, LocalTypes, StoreTypes, StoreTypeOK
  <2>2. ASSUME NEW q \in Pids PROVE Own(q)'
    <3>1. CASE q = p
      BY <1>1, <3>1, NextOwn
    <3>2. CASE q # p
      <4>1. OthersStay(p)
        BY <1>1, <2>t, StepsAlone
      <4>2. clean'[q] => clean[q] /\ inst' = inst
        BY <1>1, <3>2 DEF Watch
      <4>3. Own(q)
        BY DEF StoreInv, Texts, Backed, Own
      <4> QED BY <3>2, <4>1, <4>2, <4>3 DEF OthersStay, Own
    <3> QED BY <3>1, <3>2
  <2> QED BY <2>1, <2>2 DEF StoreInv, Texts, Backed, Own
<1>2. CASE UNCHANGED ivars
  BY <1>2 DEF ivars, StoreInv, StoreTypes, StoreTypeOK, Texts, Backed
<1> QED BY <1>1, <1>2 DEF StoreNext

Whole == HasConfig /\ inst.config # Empty
MayTear == \/ \E p \in Pids : step[p] = "unlink"
           \/ \E p \in Pids : step[p] = "config" /\ op[p] = "create"

(* One step of one command tears no config.                                *)
LEMMA StepNeverTorn ==
  ASSUME StoreInv, NEW p \in Pids, Proceeds(p), Whole
  PROVE  (inst' # NoDir /\ inst'.config \notin {Empty, Absent}) \/ MayTear
<1>l. inst \in Dirs /\ inst # NoDir /\ inst.config \notin {Empty, Absent}
  BY DEF Whole, HasConfig, StoreInv, StoreTypes, StoreTypeOK
<1>1. CASE inst' = inst
  BY <1>1, <1>l
<1>2. CASE MakeDir(p)
  BY <1>1, <1>2, <1>l DEF MakeDir, Target, Put
<1>3. CASE MakeHome(p)
  <2>1. [inst EXCEPT !["home"] = TRUE] \in Dirs /\ [inst EXCEPT !["home"] = TRUE].config = inst.config
    BY <1>l DEF Dirs
  <2> QED BY <1>1, <1>3, <1>l, <2>1, PidsAssumption DEF MakeHome, Fill, Target, Put
<1>4. CASE OpenConfig(p)
  BY <1>1, <1>4 DEF OpenConfig, Fill, Put, MayTear
<1>5. CASE WriteConfig(p)
  BY <1>1, <1>5, <1>l DEF WriteConfig, Target, Put
<1>6. ASSUME NEW f \in {"bak", "config"}, Rename(p, f)
      PROVE  inst' # NoDir /\ inst'.config \notin {Empty, Absent}
  <2>1. mine[p] \in Nat /\ mine[p] > Seed /\ held[p] \in Nat
    BY <1>6 DEF Rename, RenameOf, StoreInv, StoreTypes, StoreTypeOK, Texts, Replacing
  <2>2. Replaced(p, f) \in Dirs /\ Replaced(p, f).config \in {inst.config, mine[p]}
    BY <1>l, <2>1 DEF Replaced, Dirs
  <2> QED BY <1>1, <1>6, <1>l, <2>1, <2>2, PidsAssumption DEF Rename, Seed, Empty, Absent
<1>7. CASE Delete(p)
  BY <1>1, <1>7, <1>l DEF Delete, MayTear, Bare
<1>8. CASE Sweep(p) \/ Drop(p)
  BY <1>1, <1>8, <1>l DEF Sweep, Drop, Renames, Bare, disk
<1> QED BY <1>1, <1>2, <1>3, <1>4, <1>5, <1>6, <1>7, <1>8
    DEF Proceeds, Commands, Start, Probe, Read, WriteAtomic, Sibling, Done, Run, Try, Killed, disk

(* One step of one command puts no other directory where there is a home.  *)
LEMMA StepUnclobbered ==
  ASSUME StoreInv, NEW p \in Pids, Proceeds(p), inst # NoDir, inst.home, inst' # NoDir
  PROVE  inst'.id = inst.id
<1>l. inst \in Dirs /\ inst # NoDir
  BY DEF StoreInv, StoreTypes, StoreTypeOK
<1>1. CASE inst' = inst
  BY <1>1
<1>2. CASE MakeDir(p)
  BY <1>1, <1>2, <1>l DEF MakeDir, Target, Put
<1>3. CASE MakeHome(p) \/ OpenConfig(p)
  <2>1. /\ [inst EXCEPT !["home"] = TRUE].id = inst.id
        /\ [inst EXCEPT !["config"] = Empty].id = inst.id
    BY <1>l DEF Dirs
  <2> QED BY <1>1, <1>3, <1>l, <2>1 DEF MakeHome, OpenConfig, Fill, Target, Put
<1>5. CASE WriteConfig(p)
  BY <1>1, <1>5, <1>l DEF WriteConfig, Target, Put, Dirs
<1>6. ASSUME NEW f \in {"bak", "config"}, Rename(p, f) PROVE inst'.id = inst.id
  BY <1>1, <1>6, <1>l DEF Rename, Replaced, Dirs
<1>7. CASE Delete(p)
  BY <1>1, <1>7, <1>l DEF Delete, Dirs
<1>8. CASE Sweep(p) \/ Drop(p)
  BY <1>1, <1>8 DEF Sweep, Drop, Renames, Bare, disk
<1> QED BY <1>1, <1>2, <1>3, <1>5, <1>6, <1>7, <1>8
    DEF Proceeds, Commands, Start, Probe, Read, WriteAtomic, Sibling, Done, Run, Try, Killed, disk

(* For any number of commands at once, each of them dying anywhere: a       *)
(* config that was whole is never half-written again, what save() and       *)
(* reseed() replace is on disk as long as nobody else wrote, and --keep     *)
(* takes no other instance's place.                                         *)
THEOREM StoreKeptHolds == StoreSpec => StoreKept
<1>1. StoreSpec => []StoreInv
  BY InitStoreInv, NextStoreInv, PTL DEF StoreSpec
<1>2. StoreInv => ReplacedKept
  BY DEF StoreInv, Backed, ReplacedKept, HasConfig
<1>3. StoreInv /\ [StoreNext]_ivars =>
        [HasConfig /\ inst.config # Empty =>
           \/ inst' # NoDir /\ inst'.config \notin {Empty, Absent}
           \/ \E p \in Pids : step[p] = "unlink"
           \/ \E p \in Pids : step[p] = "config" /\ op[p] = "create"]_ivars
  BY StepNeverTorn DEF StoreNext, Whole, MayTear
<1>4. StoreInv /\ [StoreNext]_ivars =>
        [inst # NoDir /\ inst.home /\ inst' # NoDir => inst'.id = inst.id]_ivars
  BY StepUnclobbered DEF StoreNext
<1> QED BY <1>1, <1>2, <1>3, <1>4, PTL DEF StoreSpec, StoreKept, NeverTorn, Unclobbered

----------------------------------------------------------------------------
(* The shims.  The lock makes the registry a bubbler loaded the one on disk *)
(* until it saves; from then on they differ in the line of its own name.    *)

Jobs == [op : {"add", "remove"}, name : Names, instance : Owners]
Places == {"idle", "lock", "load", "stat", "save", "link", "rollback", "unlink", "removing", "forget"}

ShimsTypes ==
  /\ ShimsTypeOK
  /\ at \in [Shells -> Places]
  /\ loaded \in [Shells -> [Names -> Owners \cup {Nobody}]]
  /\ DOMAIN job = Shells
  /\ \A s \in Shells : at[s] # "idle" => job[s] \in Jobs

\* Whoever is past the lock has it.
Locked == \A s \in Shells : at[s] \notin {"idle", "lock"} => holder = s

\* What was read is what is there, the own line apart once it is saved.
Current ==
  \A s \in Shells :
    /\ at[s] \in {"stat", "save", "unlink", "removing", "forget"} => loaded[s] = registry
    /\ at[s] \in {"link", "rollback"} =>
         /\ \A n \in Names \ {Name(s)} : loaded[s][n] = registry[n]
         /\ registry[Name(s)] = job[s].instance

\* A link that is there has its line in what would be written back, and the
\* one remove() took away is not there when its line goes.
Undoable ==
  \A s \in Shells :
    /\ at[s] \in {"link", "rollback"} =>
         \A n \in Names : shims[n] = "ours" => loaded[s][n] # Nobody
    /\ at[s] = "forget" => shims[Name(s)] # "ours"

ShimsInv == ShimsTypes /\ Locked /\ Current /\ Undoable /\ LinkRegistered

(* Nothing is wrapped and nobody is at work.                               *)
LEMMA InitShimsInv == ShimsInit => ShimsInv
BY NobodyAssumption
   DEF ShimsInit, ShimsInv, ShimsTypes, ShimsTypeOK, Locked, Current, Undoable, LinkRegistered,
       NoEntries, Places

(* Ending, however it happens, leaves the disk and the others alone.       *)
LEMMA LeaveKeeps ==
  ASSUME ShimsInv, NEW s \in Shells, Leave(s), UNCHANGED <<registry, shims>>
  PROVE  ShimsInv'
BY NobodyAssumption
   DEF ShimsInv, ShimsTypes, ShimsTypeOK, Locked, Current, Undoable, LinkRegistered, Name,
       NoEntries, Places, Leave, Move

(* One step of one bubbler, or of the user, keeps the lock, what was read   *)
(* and a line behind every link.                                            *)
LEMMA NextShimsInv == ShimsInv /\ [ShimsNext]_hvars => ShimsInv'
<1> SUFFICES ASSUME ShimsInv, [ShimsNext]_hvars PROVE ShimsInv'
    OBVIOUS
<1> USE NobodyAssumption
<1>1. ASSUME NEW s \in Shells, NEW n \in Names, NEW i \in Owners, NEW o \in {"add", "remove"},
             Begin(s, [op |-> o, name |-> n, instance |-> i])
      PROVE  ShimsInv'
  BY <1>1 DEF ShimsInv, ShimsTypes, ShimsTypeOK, Locked, Current, Undoable, LinkRegistered, Name,
              Places, Jobs, Begin, Move
<1>2. ASSUME NEW s \in Shells, Lock(s) PROVE ShimsInv'
  BY <1>2 DEF ShimsInv, ShimsTypes, ShimsTypeOK, Locked, Current, Undoable, LinkRegistered, Name,
              Places, Lock, Move
<1>3. ASSUME NEW s \in Shells, Load(s) PROVE ShimsInv'
  <2>1. CASE Refused(s)
    BY <1>3, <2>1, LeaveKeeps DEF Load
  <2>2. CASE ~Refused(s)
    BY <1>3, <2>2 DEF ShimsInv, ShimsTypes, ShimsTypeOK, Locked, Current, Undoable,
                      LinkRegistered, Name, Places, Load, Move
  <2> QED BY <2>1, <2>2
<1>4. ASSUME NEW s \in Shells, Stat(s) PROVE ShimsInv'
  <2>1. CASE Leave(s)
    BY <1>4, <2>1, LeaveKeeps DEF Stat
  <2>2. CASE Move(s, "save") /\ UNCHANGED <<holder, job, loaded>>
    BY <1>4, <2>2 DEF ShimsInv, ShimsTypes, ShimsTypeOK, Locked, Current, Undoable,
                      LinkRegistered, Name, Places, Stat, Move
  <2> QED BY <1>4, <2>1, <2>2 DEF Stat
<1>5. ASSUME NEW s \in Shells, SaveAdd(s) PROVE ShimsInv'
  <2>1. CASE Leave(s) /\ UNCHANGED registry
    BY <1>5, <2>1, LeaveKeeps DEF SaveAdd
  <2>2. CASE /\ registry' = [loaded[s] EXCEPT ![Name(s)] = job[s].instance]
             /\ Move(s, "link") /\ UNCHANGED <<holder, job, loaded>>
    BY <1>5, <2>2 DEF ShimsInv, ShimsTypes, ShimsTypeOK, Locked, Current, Undoable,
                      LinkRegistered, Name, Places, Jobs, SaveAdd, Move
  <2> QED BY <1>5, <2>1, <2>2 DEF SaveAdd
<1>6. ASSUME NEW s \in Shells, Link(s) PROVE ShimsInv'
  <2>1. CASE shims' = [shims EXCEPT ![Name(s)] = "ours"] /\ Leave(s)
    BY <1>6, <2>1 DEF ShimsInv, ShimsTypes, ShimsTypeOK, Locked, Current, Undoable,
                      LinkRegistered, Name, Places, Jobs, Link, Move, Leave, NoEntries
  <2>2. CASE Move(s, "rollback") /\ UNCHANGED <<shims, holder, job, loaded>>
    BY <1>6, <2>2 DEF ShimsInv, ShimsTypes, ShimsTypeOK, Locked, Current, Undoable,
                      LinkRegistered, Name, Places, Link, Move
  <2> QED BY <1>6, <2>1, <2>2 DEF Link
<1>7. ASSUME NEW s \in Shells, Rollback(s) PROVE ShimsInv'
  BY <1>7 DEF ShimsInv, ShimsTypes, ShimsTypeOK, Locked, Current, Undoable, LinkRegistered, Name,
              Places, Jobs, Rollback, Move, Leave, NoEntries
<1>8. ASSUME NEW s \in Shells, IsOurs(s) \/ RemoveFile(s) PROVE ShimsInv'
  <2>1. CASE IsOurs(s)
    BY <2>1 DEF ShimsInv, ShimsTypes, ShimsTypeOK, Locked, Current, Undoable,
                LinkRegistered, Name, Places, IsOurs, Move
  <2>2. CASE /\ at[s] = "removing" /\ shims' = [shims EXCEPT ![Name(s)] = "absent"]
             /\ Move(s, "forget") /\ UNCHANGED <<holder, job, loaded, registry>>
    BY <2>2 DEF ShimsInv, ShimsTypes, ShimsTypeOK, Locked, Current, Undoable,
                LinkRegistered, Name, Places, Jobs, Move
  <2>3. CASE Leave(s) /\ UNCHANGED <<registry, shims>>
    BY <2>3, LeaveKeeps
  <2> QED BY <1>8, <2>1, <2>2, <2>3 DEF RemoveFile
<1>9. ASSUME NEW s \in Shells, SaveRemove(s) PROVE ShimsInv'
  <2>1. CASE registry' = registry
    BY <1>9, <2>1, LeaveKeeps DEF SaveRemove
  <2>2. CASE registry' = [loaded[s] EXCEPT ![Name(s)] = Nobody]
    <3>1. registry' = [registry EXCEPT ![Name(s)] = Nobody] /\ shims[Name(s)] # "ours"
      BY <1>9, <2>2 DEF SaveRemove, ShimsInv, Current, Undoable
    <3>2. \A t \in Shells \ {s} : at[t] \in {"idle", "lock"} /\ at'[t] = at[t]
                                  /\ job'[t] = job[t] /\ loaded'[t] = loaded[t]
      BY <1>9 DEF SaveRemove, Leave, Move, ShimsInv, ShimsTypes, Locked, Places
    <3>3. at'[s] = "idle" /\ shims' = shims
      BY <1>9 DEF SaveRemove, Leave, Move, ShimsInv, ShimsTypes
    <3>4. ShimsTypes'
      BY <1>9, <3>1 DEF SaveRemove, Leave, Move, ShimsInv, ShimsTypes, ShimsTypeOK, Places, NoEntries
    <3>5. Locked' /\ Current' /\ Undoable'
      BY <3>2, <3>3 DEF Locked, Current, Undoable, Name
    <3>6. LinkRegistered'
      BY <3>1, <3>3 DEF LinkRegistered, ShimsInv, ShimsTypes, ShimsTypeOK
    <3> QED BY <3>4, <3>5, <3>6 DEF ShimsInv
  <2> QED BY <1>9, <2>1, <2>2 DEF SaveRemove
<1>10. ASSUME NEW s \in Shells, Kill(s) PROVE ShimsInv'
  BY <1>10, LeaveKeeps DEF Kill
<1>11. ASSUME NEW n \in Names, UserEdits(n) PROVE ShimsInv'
  BY <1>11 DEF ShimsInv, ShimsTypes, ShimsTypeOK, Locked, Current, Undoable, LinkRegistered, Name,
              Places, Jobs, UserEdits
<1>12. CASE UNCHANGED hvars
  BY <1>12 DEF ShimsInv, ShimsTypes, ShimsTypeOK, Locked, Current, Undoable, LinkRegistered, Name,
              hvars
<1> QED BY <1>1, <1>2, <1>3, <1>4, <1>5, <1>6, <1>7, <1>8, <1>9, <1>10, <1>11, <1>12
    DEF ShimsNext

(* A step changes no registry line but that of the bubbler's own name.     *)
LEMMA StepEntriesKept ==
  ASSUME ShimsInv, ShimsNext, NEW n \in Names, registry'[n] # registry[n]
  PROVE  \E s \in Shells : Name(s) = n /\ at[s] # at'[s]
<1> USE DEF ShimsInv, ShimsTypes, ShimsTypeOK, Current, Name, Move, Leave, Jobs
<1>1. ASSUME NEW s \in Shells, SaveAdd(s) PROVE Name(s) = n /\ at[s] # at'[s]
  BY <1>1 DEF SaveAdd
<1>2. ASSUME NEW s \in Shells, Rollback(s) PROVE Name(s) = n /\ at[s] # at'[s]
  BY <1>2 DEF Rollback
<1>3. ASSUME NEW s \in Shells, SaveRemove(s) PROVE Name(s) = n /\ at[s] # at'[s]
  BY <1>3 DEF SaveRemove
<1> QED BY <1>1, <1>2, <1>3 DEF ShimsNext, Begin, Lock, Load, Stat, Link, IsOurs, RemoveFile, Kill,
                                UserEdits

(* Two wraps at once, one of them rolling back or killed, lose nobody's     *)
(* entry, and every link of bubbler's has a line behind it at every moment, *)
(* whoever dies where.                                                      *)
THEOREM ShimsKeptHolds == ShimsSpec => ShimsKept
<1>1. ShimsSpec => []ShimsInv
  BY InitShimsInv, NextShimsInv, PTL DEF ShimsSpec
<1>2. ShimsInv => LinkRegistered
  BY DEF ShimsInv
<1>3. ShimsInv /\ [ShimsNext]_hvars =>
        [\A n \in Names : registry'[n] # registry[n] =>
           \E s \in Shells : Name(s) = n /\ at[s] # at'[s]]_hvars
  BY StepEntriesKept
<1> QED BY <1>1, <1>2, <1>3, PTL DEF ShimsSpec, ShimsKept, EntriesKept

----------------------------------------------------------------------------
(* The run log.  A writer that has asked for the size owes the file what it *)
(* will write by that answer, which fitted under the cap when it asked.     *)

Owes(w) ==
  IF copy[w] = "append"
  THEN Takes(w) + (IF Takes(w) < got[w] /\ ~noted[w] /\ room[w] >= NoteLen
                   THEN NoteLen ELSE 0)
  ELSE IF copy[w] = "note" THEN NoteLen
  ELSE IF copy[w] = "tell" THEN StoppedLen ELSE 0

owed == [w \in Writers |-> Owes(w)]
Bursting == {w \in Writers : copy[w] \in {"append", "tell"} /\ owed[w] > 0}
Noting == {w \in Writers : copy[w] = "note"}

Cap == MaxLog + (Cardinality(Writers) - 1) * Burst

\* The file has room for what somebody owes and for a whole burst of every
\* other writer that owes one.
RoomFor(s, A, N, o, w) ==
  s + o[w] + Burst * Cardinality(A \ {w}) + NoteLen * Cardinality(N \ {w}) <= Cap
Budget(s, A, N, o) ==
  IF A \cup N = {} THEN s <= Cap ELSE \E w \in A \cup N : RoomFor(s, A, N, o, w)

LogTypes ==
  /\ size \in Nat /\ got \in [Writers -> 0 .. Chunk] /\ room \in [Writers -> Nat]
  /\ pipe \in [Writers -> Nat] /\ DOMAIN copy = Writers /\ DOMAIN noted = Writers

LogInv == LogTypes /\ Budget(size, Bursting, Noting, owed)

(* A burst is at least the note.                                           *)
LEMMA BurstFits == Burst \in Nat /\ NoteLen <= Burst /\ StoppedLen <= Burst
                   /\ Chunk + NoteLen <= Burst + 1 /\ Cap \in Int
BY LogAssumption, FS_CardinalityType DEF Burst, Cap

(* What is appended leaves room for the note.                              *)
LEMMA TakesFits ==
  ASSUME LogTypes, NEW w \in Writers
  PROVE  /\ Takes(w) \in Nat /\ Takes(w) <= room[w] /\ Takes(w) <= got[w]
         /\ room[w] >= NoteLen => Takes(w) + NoteLen <= room[w]
BY LogAssumption DEF LogTypes, Takes, Smaller, Monus

(* What a writer owes is at most a burst.                                  *)
LEMMA OwedFits == LogTypes => owed \in [Writers -> 0 .. Burst]
<1> SUFFICES ASSUME LogTypes, NEW w \in Writers PROVE Owes(w) \in 0 .. Burst
    BY DEF owed
<1> QED BY LogAssumption, BurstFits, TakesFits DEF Owes, LogTypes

(* The same after a step.                                                  *)
LEMMA OwedFitsNext == (LogTypes => owed \in [Writers -> 0 .. Burst])'
BY OwedFits, PTL

(* Two disjoint sets of writers are no more than the writers.              *)
LEMMA Counted ==
  ASSUME NEW A \in SUBSET Writers, NEW N \in SUBSET Writers, A \cap N = {}
  PROVE  /\ IsFiniteSet(A) /\ IsFiniteSet(N)
         /\ Cardinality(A) \in Nat /\ Cardinality(N) \in Nat
         /\ Cardinality(A) + Cardinality(N) <= Cardinality(Writers)
         /\ Cardinality(Writers) \in Nat
<1>1. IsFiniteSet(A) /\ IsFiniteSet(N) /\ Cardinality(Writers) \in Nat
  BY LogAssumption, FS_Subset, FS_CardinalityType
<1>2. IsFiniteSet(A \cup N) /\ Cardinality(A \cup N) <= Cardinality(Writers)
  BY <1>1, LogAssumption, FS_Subset
<1>3. Cardinality(A \cup N) = Cardinality(A) + Cardinality(N) - Cardinality(A \cap N)
  BY <1>1, FS_Union
<1>4. Cardinality(A \cap N) = 0
  BY FS_EmptySet
<1>5. Cardinality(A) \in Nat /\ Cardinality(N) \in Nat /\ Cardinality(A \cup N) \in Nat
  BY <1>1, <1>2, FS_CardinalityType
<1>6. Cardinality(A \cup N) = Cardinality(A) + Cardinality(N)
  BY <1>3, <1>4, <1>5
<1> QED BY <1>1, <1>2, <1>5, <1>6

(* Dropping a member counts one less.                                      *)
LEMMA OneLess ==
  ASSUME NEW S, IsFiniteSet(S), NEW v
  PROVE  /\ IsFiniteSet(S \ {v}) /\ Cardinality(S \ {v}) \in Nat /\ Cardinality(S) \in Nat
         /\ v \in S => Cardinality(S) = Cardinality(S \ {v}) + 1
         /\ v \notin S => S \ {v} = S
BY FS_RemoveElement, FS_CardinalityType

(* A writer that asks and owes what then fits makes room for the others.   *)
LEMMA BudgetAsked ==
  ASSUME NEW s \in Nat, NEW A \in SUBSET Writers, NEW N \in SUBSET Writers, A \cap N = {},
         NEW w \in Writers, w \notin A \cup N, NEW o, o[w] \in Nat, s + o[w] <= MaxLog
  PROVE  Budget(s, A \cup {w}, N, o)
<1> DEFINE a == Cardinality(A)
           n == Cardinality(N)
           all == Cardinality(Writers)
<1>1. /\ (A \cup {w}) \ {w} = A /\ N \ {w} = N
  OBVIOUS
<1>2. a \in Nat /\ n \in Nat /\ all \in Nat /\ a + 1 + n <= all
  <2>1. A \cup {w} \in SUBSET Writers /\ (A \cup {w}) \cap N = {}
    OBVIOUS
  <2>2. Cardinality(A \cup {w}) = a + 1
    BY Counted, FS_AddElement
  <2> HIDE DEF a, n, all
  <2>3. a \in Nat /\ n \in Nat /\ all \in Nat
    BY Counted DEF a, n, all
  <2> QED BY Counted, <2>1, <2>2, <2>3 DEF n, all
<1> HIDE DEF a, n, all
<1>3. NoteLen * n <= Burst * n
  BY <1>2, BurstFits, LogAssumption
<1>4. Burst * (a + n) <= Burst * (all - 1)
  BY <1>2, BurstFits
<1>5. Burst * a + NoteLen * n <= (all - 1) * Burst
  BY <1>2, <1>3, <1>4, BurstFits, LogAssumption
<1>6. RoomFor(s, A \cup {w}, N, o, w)
  <2>1. s + o[w] + Burst * a + NoteLen * n <= MaxLog + (all - 1) * Burst
    BY <1>2, <1>5, BurstFits, LogAssumption
  <2> QED BY <1>1, <2>1 DEF RoomFor, Cap, a, n, all
<1> QED BY <1>6 DEF Budget

(* A writer that wrote no more than it owed, and owes nothing more or the  *)
(* note: the room of the others is still there.                            *)
LEMMA BudgetPaid ==
  ASSUME NEW s \in Nat, NEW t \in Nat, NEW A \in SUBSET Writers, NEW N \in SUBSET Writers,
         A \cap N = {}, NEW o \in [Writers -> 0 .. Burst], NEW p \in [Writers -> 0 .. Burst],
         NEW v \in A \cup N, \A u \in N : o[u] = NoteLen,
         \A u \in Writers \ {v} : p[u] = o[u],
         NEW B, NEW M, B = A \ {v},
         \/ M = N \ {v} /\ t <= s + o[v]
         \/ v \in A /\ M = N \cup {v} /\ p[v] = NoteLen /\ t + NoteLen <= s + o[v],
         Budget(s, A, N, o)
  PROVE  Budget(t, B, M, p)
<1>1. PICK w \in A \cup N : RoomFor(s, A, N, o, w)
  BY DEF Budget
<1> DEFINE a == Cardinality(A \ {w})
           n == Cardinality(N \ {w})
<1>2. /\ IsFiniteSet(A) /\ IsFiniteSet(N) /\ IsFiniteSet(B) /\ IsFiniteSet(M)
      /\ a \in Nat /\ n \in Nat /\ IsFiniteSet(A \ {w}) /\ IsFiniteSet(N \ {w})
  <2>1. IsFiniteSet(A) /\ IsFiniteSet(N)
    BY Counted
  <2>2. IsFiniteSet(A \ {w}) /\ IsFiniteSet(N \ {w}) /\ a \in Nat /\ n \in Nat
    BY <2>1, OneLess
  <2>3. IsFiniteSet(A \ {v}) /\ IsFiniteSet(N \ {v}) /\ IsFiniteSet(N \cup {v})
    BY <2>1, OneLess, FS_AddElement
  <2> QED BY <2>1, <2>2, <2>3
<1> HIDE DEF a, n
<1>3. s + o[w] + Burst * a + NoteLen * n <= Cap
  BY <1>1 DEF RoomFor, a, n
<1>o. o[w] \in Nat /\ o[v] \in Nat /\ o[v] <= Burst /\ o[w] <= Burst /\ Burst \in Nat
      /\ NoteLen \in Nat /\ Cap \in Int
  BY BurstFits, LogAssumption
<1>4. CASE w # v
  <2>1. w \in B \cup M /\ p[w] = o[w]
    BY <1>4
  <2>2. CASE v \in A /\ M = N \ {v}
    <3>1. B \ {w} = (A \ {w}) \ {v} /\ v \in A \ {w} /\ M \ {w} = N \ {w}
      BY <1>4, <2>2
    <3>2. Cardinality(B \ {w}) = a - 1 /\ Cardinality(M \ {w}) = n
      <4>1. a = Cardinality((A \ {w}) \ {v}) + 1 /\ Cardinality((A \ {w}) \ {v}) \in Nat
        BY <1>2, <3>1, OneLess DEF a
      <4>2. Cardinality(B \ {w}) = Cardinality((A \ {w}) \ {v}) /\ Cardinality(M \ {w}) = n
        BY <3>1, Zenon DEF n
      <4> QED BY <4>1, <4>2
    <3>3. t + o[w] + Burst * (a - 1) + NoteLen * n <= Cap
      BY <1>2, <1>3, <1>o, <2>2
    <3>4. RoomFor(t, B, M, p, w)
      BY <2>1, <3>2, <3>3 DEF RoomFor
    <3> QED BY <2>1, <3>4 DEF Budget
  <2>3. CASE v \in N
    <3>1. M \ {w} = (N \ {w}) \ {v} /\ v \in N \ {w} /\ B \ {w} = A \ {w} /\ t <= s + NoteLen
      BY <1>4, <2>3
    <3>2. Cardinality(M \ {w}) = n - 1 /\ Cardinality(B \ {w}) = a
      <4>1. n = Cardinality((N \ {w}) \ {v}) + 1 /\ Cardinality((N \ {w}) \ {v}) \in Nat
        BY <1>2, <3>1, OneLess DEF n
      <4>2. Cardinality(M \ {w}) = Cardinality((N \ {w}) \ {v}) /\ Cardinality(B \ {w}) = a
        BY <3>1, Zenon DEF a
      <4> QED BY <4>1, <4>2
    <3>3. t + o[w] + Burst * a + NoteLen * (n - 1) <= Cap
      BY <1>2, <1>3, <1>o, <3>1
    <3>4. RoomFor(t, B, M, p, w)
      BY <2>1, <3>2, <3>3 DEF RoomFor
    <3> QED BY <2>1, <3>4 DEF Budget
  <2>4. CASE v \in A /\ M = N \cup {v} /\ t + NoteLen <= s + o[v]
    <3>1. /\ B \ {w} = (A \ {w}) \ {v} /\ v \in A \ {w}
          /\ M \ {w} = (N \ {w}) \cup {v} /\ v \notin N \ {w}
      BY <1>4, <2>4
    <3>2. Cardinality(B \ {w}) = a - 1 /\ Cardinality(M \ {w}) = n + 1
      <4>1. a = Cardinality((A \ {w}) \ {v}) + 1 /\ Cardinality((A \ {w}) \ {v}) \in Nat
        BY <1>2, <3>1, OneLess DEF a
      <4>2. Cardinality((N \ {w}) \cup {v}) = n + 1
        BY <1>2, <3>1, FS_AddElement DEF n
      <4>3. /\ Cardinality(B \ {w}) = Cardinality((A \ {w}) \ {v})
            /\ Cardinality(M \ {w}) = Cardinality((N \ {w}) \cup {v})
        BY <3>1, Zenon
      <4> QED BY <4>1, <4>2, <4>3
    <3>3. t + o[w] + Burst * (a - 1) + NoteLen * (n + 1) <= Cap
      BY <1>2, <1>3, <1>o, <2>4
    <3>4. RoomFor(t, B, M, p, w)
      BY <2>1, <3>2, <3>3 DEF RoomFor
    <3> QED BY <2>1, <3>4 DEF Budget
  <2> QED BY <2>2, <2>3, <2>4
<1>5. CASE w = v /\ v \in A /\ M = N \cup {v} /\ p[v] = NoteLen /\ t + NoteLen <= s + o[v]
  <2>1. B \ {v} = A \ {w} /\ M \ {v} = N \ {w} /\ v \in B \cup M
    BY <1>5
  <2>2. t + p[v] + Burst * a + NoteLen * n <= Cap
    BY <1>2, <1>3, <1>o, <1>5
  <2>3. RoomFor(t, B, M, p, v)
    BY <2>1, <2>2 DEF RoomFor, a, n
  <2> QED BY <2>1, <2>3 DEF Budget
<1>6. CASE w = v /\ M = N \ {v} /\ t <= s + o[v]
  <2>1. t + Burst * a + NoteLen * n <= Cap /\ a = Cardinality(B) /\ n = Cardinality(M)
    BY <1>2, <1>3, <1>o, <1>6 DEF a, n
  <2>2. CASE B \cup M = {}
    <3>1. a = 0 /\ n = 0
      BY <2>1, <2>2, FS_EmptySet
    <3>2. t <= Cap
      BY <2>1, <3>1, <1>o
    <3> QED BY <2>2, <3>2 DEF Budget
  <2>3. ASSUME NEW u \in B PROVE Budget(t, B, M, p)
    <3>1. M \ {u} = M /\ p[u] \in Nat /\ p[u] <= Burst
      BY <1>6, <1>o
    <3>2. Cardinality(B \ {u}) = a - 1
      <4>1. Cardinality(B) = Cardinality(B \ {u}) + 1 /\ Cardinality(B \ {u}) \in Nat
        BY <1>2, OneLess
      <4> QED BY <2>1, <4>1
    <3>3. t + p[u] + Burst * (a - 1) + NoteLen * n <= Cap
      BY <1>2, <1>o, <2>1, <3>1
    <3>4. RoomFor(t, B, M, p, u)
      BY <2>1, <3>1, <3>2, <3>3 DEF RoomFor
    <3> QED BY <3>4 DEF Budget
  <2>4. ASSUME NEW u \in M PROVE Budget(t, B, M, p)
    <3>1. B \ {u} = B /\ p[u] = NoteLen
      BY <1>6
    <3>2. Cardinality(M \ {u}) = n - 1
      <4>1. Cardinality(M) = Cardinality(M \ {u}) + 1 /\ Cardinality(M \ {u}) \in Nat
        BY <1>2, OneLess
      <4> QED BY <2>1, <4>1
    <3>3. t + p[u] + Burst * a + NoteLen * (n - 1) <= Cap
      BY <1>2, <1>o, <2>1, <3>1
    <3>4. RoomFor(t, B, M, p, u)
      BY <2>1, <3>1, <3>2, <3>3 DEF RoomFor
    <3> QED BY <3>4 DEF Budget
  <2> QED BY <2>2, <2>3, <2>4
<1> QED BY <1>4, <1>5, <1>6

(* The state of the log changes at one writer, so what the others owe does *)
(* not.                                                                    *)
LEMMA OthersOwe ==
  ASSUME NEW w \in Writers,
         \A v \in Writers \ {w} : /\ copy'[v] = copy[v] /\ got'[v] = got[v]
                                  /\ room'[v] = room[v] /\ noted'[v] = noted[v]
  PROVE  /\ \A v \in Writers \ {w} : owed'[v] = owed[v]
         /\ Bursting' \ {w} = Bursting \ {w} /\ Noting' \ {w} = Noting \ {w}
<1>1. ASSUME NEW v \in Writers \ {w} PROVE owed'[v] = owed[v]
  BY <1>1 DEF owed, Owes, Takes
<1> QED BY <1>1 DEF Bursting, Noting

(* A smaller file has the room that the larger one had.                    *)
LEMMA BudgetSmaller ==
  ASSUME NEW s \in Nat, NEW t \in Nat, t <= s, NEW A \in SUBSET Writers,
         NEW N \in SUBSET Writers, A \cap N = {}, NEW o \in [Writers -> 0 .. Burst],
         Budget(s, A, N, o)
  PROVE  Budget(t, A, N, o)
<1>1. CASE A \cup N = {}
  BY <1>1, BurstFits DEF Budget
<1>2. ASSUME NEW w \in A \cup N, RoomFor(s, A, N, o, w) PROVE Budget(t, A, N, o)
  <2>1. Cardinality(A \ {w}) \in Nat /\ Cardinality(N \ {w}) \in Nat
    BY Counted, OneLess
  <2>2. RoomFor(t, A, N, o, w)
    BY <1>2, <2>1, BurstFits, LogAssumption DEF RoomFor
  <2> QED BY <2>2 DEF Budget
<1> QED BY <1>1, <1>2 DEF Budget

(* The writers that owe a burst and those that owe the note.               *)
LEMMA OwingTypes ==
  LogTypes => /\ Bursting \in SUBSET Writers /\ Noting \in SUBSET Writers
              /\ Bursting \cap Noting = {} /\ \A u \in Noting : owed[u] = NoteLen
              /\ \A u \in Writers : u \notin Bursting \cup Noting => owed[u] = 0
BY OwedFits DEF Bursting, Noting, owed, Owes

(* A step in which nobody begins or ends to owe.                           *)
LEMMA BudgetKept ==
  ASSUME LogInv, LogTypes', size' = size \/ size' = 0, NEW w \in Writers,
         \A v \in Writers \ {w} : /\ copy'[v] = copy[v] /\ got'[v] = got[v]
                                  /\ room'[v] = room[v] /\ noted'[v] = noted[v],
         copy[w] \notin {"append", "note", "tell"}, copy'[w] \notin {"append", "note", "tell"}
  PROVE  LogInv'
<1>1. w \notin Bursting /\ w \notin Noting /\ w \notin Bursting' /\ w \notin Noting'
  BY DEF Bursting, Noting
<1>2. owed'[w] = 0 /\ owed[w] = 0
  BY DEF owed, Owes
<1>3. owed \in [Writers -> 0 .. Burst] /\ owed' \in [Writers -> 0 .. Burst]
  BY OwedFits, OwedFitsNext DEF LogInv
<1>4. owed' = owed /\ Bursting' = Bursting /\ Noting' = Noting
  BY <1>1, <1>2, <1>3, OthersOwe
<1>5. size \in Nat /\ size' \in Nat /\ size' <= size
  BY DEF LogInv, LogTypes
<1>6. Budget(size', Bursting, Noting, owed)
  BY <1>3, <1>5, BudgetSmaller, OwingTypes DEF LogInv
<1> QED BY <1>4, <1>6 DEF LogInv

(* The log is empty and no thread copies.                                  *)
LEMMA InitLogInv == LogInit /\ Writers # {} => LogInv
<1> SUFFICES ASSUME LogInit, Writers # {} PROVE LogInv
    OBVIOUS
<1>1. LogTypes
  BY LogAssumption DEF LogInit, LogTypes
<1>2. Bursting = {} /\ Noting = {}
  BY DEF LogInit, Bursting, Noting
<1>3. Cardinality(Writers) \in Nat /\ Cardinality(Writers) > 0
  BY LogAssumption, FS_CardinalityType, FS_EmptySet
<1>4. (Cardinality(Writers) - 1) * Burst >= 0
  BY <1>3, BurstFits
<1>5. 0 <= Cap
  BY <1>3, <1>4, BurstFits, LogAssumption DEF Cap
<1> QED BY <1>1, <1>2, <1>5 DEF LogInv, Budget, LogInit

(* A writer that owes writes no more than that.                            *)
LEMMA Pays ==
  ASSUME LogInv, LogTypes', NEW w \in Bursting \cup Noting,
         \A v \in Writers \ {w} : /\ copy'[v] = copy[v] /\ got'[v] = got[v]
                                  /\ room'[v] = room[v] /\ noted'[v] = noted[v],
         \/ copy'[w] \notin {"append", "note", "tell"} /\ size' <= size + owed[w]
         \/ copy[w] = "append" /\ copy'[w] = "note" /\ size' + NoteLen <= size + owed[w]
  PROVE  LogInv'
<1>1. w \in Writers /\ owed \in [Writers -> 0 .. Burst] /\ owed' \in [Writers -> 0 .. Burst]
  BY OwedFits, OwedFitsNext, OwingTypes DEF LogInv
<1>2. /\ \A v \in Writers \ {w} : owed'[v] = owed[v]
      /\ Bursting' \ {w} = Bursting \ {w} /\ Noting' \ {w} = Noting \ {w}
  BY <1>1, OthersOwe
<1>3. w \notin Bursting' /\ Bursting' = Bursting \ {w}
  BY <1>2 DEF Bursting
<1>4. \/ Noting' = Noting \ {w} /\ size' <= size + owed[w]
      \/ /\ w \in Bursting /\ Noting' = Noting \cup {w} /\ owed'[w] = NoteLen
         /\ size' + NoteLen <= size + owed[w]
  BY <1>1, <1>2 DEF Noting, Bursting, owed, Owes
<1>5. size \in Nat /\ size' \in Nat
  BY DEF LogInv, LogTypes
<1>6. Budget(size', Bursting', Noting', owed')
  BY <1>1, <1>2, <1>3, <1>4, <1>5, OwingTypes, BudgetPaid DEF LogInv
<1> QED BY <1>6 DEF LogInv

(* A writer that asks owes nothing, or what then fits under the cap.       *)
LEMMA Asks ==
  ASSUME LogInv, LogTypes', size' = size, NEW w \in Writers, owed[w] = 0,
         \A v \in Writers \ {w} : /\ copy'[v] = copy[v] /\ got'[v] = got[v]
                                  /\ room'[v] = room[v] /\ noted'[v] = noted[v],
         copy[w] # "note", copy'[w] # "note",
         owed'[w] = 0 \/ (copy'[w] \in {"append", "tell"} /\ size + owed'[w] <= MaxLog)
  PROVE  LogInv'
<1>1. owed \in [Writers -> 0 .. Burst] /\ owed' \in [Writers -> 0 .. Burst]
  BY OwedFits, OwedFitsNext DEF LogInv
<1>2. /\ \A v \in Writers \ {w} : owed'[v] = owed[v]
      /\ Bursting' \ {w} = Bursting \ {w} /\ Noting' \ {w} = Noting \ {w}
  BY OthersOwe
<1>3. w \notin Bursting /\ w \notin Noting /\ w \notin Noting'
  BY DEF Bursting, Noting
<1>4. CASE owed'[w] = 0
  <2>1. owed' = owed /\ Bursting' = Bursting /\ Noting' = Noting
    BY <1>1, <1>2, <1>3, <1>4 DEF Bursting
  <2> QED BY <2>1 DEF LogInv
<1>5. CASE owed'[w] # 0
  <2>1. Bursting' = Bursting \cup {w} /\ Noting' = Noting
    <3>1. w \in Bursting'
      BY <1>1, <1>5 DEF Bursting
    <3> QED BY <1>2, <1>3, <3>1
  <2>2. owed'[w] \in Nat /\ size \in Nat /\ size + owed'[w] <= MaxLog
    BY <1>1, <1>5 DEF LogInv, LogTypes
  <2>3. Budget(size, Bursting \cup {w}, Noting, owed')
    BY <1>3, <2>2, OwingTypes, BudgetAsked DEF LogInv
  <2> QED BY <2>1, <2>3 DEF LogInv
<1> QED BY <1>4, <1>5

(* A step keeps the types.                                                 *)
LEMMA NextLogTypes == LogTypes /\ [LogNext]_lvars => LogTypes'
<1> SUFFICES ASSUME LogTypes, [LogNext]_lvars PROVE LogTypes'
    OBVIOUS
<1> USE LogAssumption DEF LogTypes, Set
<1>1. ASSUME NEW w \in Writers, NEW t \in BOOLEAN, Redirect(w, t) PROVE LogTypes'
  BY <1>1 DEF Redirect, outside
<1>2. ASSUME NEW w \in Writers, NEW n \in 1 .. PipeSize, Says(w, n) PROVE LogTypes'
  BY <1>2 DEF Says
<1>3. ASSUME NEW w \in Writers, Closes(w) \/ Abandons(w) \/ Shows(w) \/ NoStderr(w)
      PROVE LogTypes'
  BY <1>3 DEF Closes, Abandons, Shows, NoStderr, outside
<1>4. ASSUME NEW w \in Writers, ReadPipe(w) PROVE LogTypes'
  BY <1>4 DEF ReadPipe, AfterRead, Smaller
<1>5. ASSUME NEW w \in Writers, AskSize(w) \/ AskStopped(w) PROVE LogTypes'
  BY <1>5 DEF AskSize, AskStopped, Monus, outside
<1>6. ASSUME NEW w \in Writers, AppendCapped(w) \/ Note(w) \/ Stopped(w) PROVE LogTypes'
  BY <1>6, TakesFits DEF AppendCapped, Note, Stopped, outside
<1>7. ASSUME NEW w \in Writers, Fails(w) PROVE LogTypes'
  BY <1>7, TakesFits DEF Fails, outside
<1>8. CASE UNCHANGED lvars
  BY <1>8 DEF lvars
<1> QED BY <1>1, <1>2, <1>3, <1>4, <1>5, <1>6, <1>7, <1>8 DEF LogNext, Copies

(* A step keeps the budget.                                                *)
LEMMA NextLogInv == LogInv /\ [LogNext]_lvars => LogInv'
<1> SUFFICES ASSUME LogInv, [LogNext]_lvars PROVE LogInv'
    OBVIOUS
<1>t. LogTypes /\ LogTypes'
  BY NextLogTypes DEF LogInv
<1> DEFINE Only(w) == \A v \in Writers \ {w} : /\ copy'[v] = copy[v] /\ got'[v] = got[v]
                                               /\ room'[v] = room[v] /\ noted'[v] = noted[v]
<1>1. ASSUME NEW w \in Writers, NEW t \in BOOLEAN, Redirect(w, t) PROVE LogInv'
  BY <1>1, <1>t, BudgetKept DEF Redirect, Set, LogTypes
<1>2. ASSUME UNCHANGED <<size, copy, got, room, noted>> PROVE LogInv'
  BY <1>2, <1>t DEF LogInv, Bursting, Noting, owed, Owes, Takes
<1>3. ASSUME NEW w \in Writers, NEW n \in 1 .. PipeSize, Says(w, n) PROVE LogInv'
  BY <1>2, <1>3 DEF Says
<1>4. ASSUME NEW w \in Writers, ReadPipe(w) \/ Shows(w) \/ NoStderr(w) PROVE LogInv'
  BY <1>4, <1>t, BudgetKept DEF ReadPipe, AfterRead, Shows, NoStderr, Set, LogTypes
<1>5. ASSUME NEW w \in Writers, Abandons(w) PROVE LogInv'
  <2>1. Only(w) /\ copy'[w] = "ended" /\ size' = size
    BY <1>5, <1>t DEF Abandons, Set, LogTypes
  <2>2. CASE w \in Bursting \cup Noting
    BY <2>1, <2>2, <1>t, OwedFits, Pays DEF LogTypes
  <2>3. CASE w \notin Bursting \cup Noting
    <3>1. owed[w] = 0 /\ owed'[w] = 0 /\ copy[w] # "note"
      BY <2>1, <2>3, <1>t, OwingTypes DEF owed, Owes, Noting
    <3> QED BY <2>1, <3>1, <1>t, Asks
  <2> QED BY <2>2, <2>3
<1>6. ASSUME NEW w \in Writers, AskSize(w) PROVE LogInv'
  <2>1. /\ Only(w) /\ copy'[w] = "append" /\ size' = size /\ owed[w] = 0
        /\ room'[w] = Monus(MaxLog, size)
    BY <1>6, <1>t DEF AskSize, Set, LogTypes, owed, Owes
  <2>2. owed'[w] = 0 \/ size + owed'[w] <= MaxLog
    BY <2>1, <1>t, TakesFits, LogAssumption DEF owed, Owes, Takes, Monus, Smaller, LogTypes
  <2> QED BY <1>6, <2>1, <2>2, <1>t, Asks DEF AskSize
<1>7. ASSUME NEW w \in Writers, AskStopped(w) PROVE LogInv'
  <2>1. /\ Only(w) /\ size' = size /\ owed[w] = 0
        /\ copy'[w] = IF size + StoppedLen <= MaxLog THEN "tell" ELSE "stderr"
    BY <1>7, <1>t DEF AskStopped, Set, LogTypes, owed, Owes
  <2>2. owed'[w] = 0 \/ (copy'[w] = "tell" /\ size + owed'[w] <= MaxLog)
    BY <2>1 DEF owed, Owes
  <2> QED BY <1>7, <2>1, <2>2, <1>t, Asks DEF AskStopped
<1>8. ASSUME NEW w \in Writers, AppendCapped(w) PROVE LogInv'
  <2>1. /\ Only(w) /\ size' = size + Takes(w) /\ copy[w] = "append"
        /\ copy'[w] = IF Takes(w) < got[w] /\ ~noted[w] /\ room[w] >= NoteLen
                      THEN "note" ELSE "stderr"
    BY <1>8, <1>t DEF AppendCapped, Set, LogTypes
  <2>2. owed[w] = Takes(w) + (IF copy'[w] = "note" THEN NoteLen ELSE 0)
    BY <2>1 DEF owed, Owes
  <2>3. Takes(w) \in Nat /\ size \in Nat
    BY <1>t, TakesFits DEF LogTypes
  <2>4. CASE w \in Bursting
    BY <2>1, <2>2, <2>3, <2>4, <1>t, LogAssumption, Pays
  <2>5. CASE w \notin Bursting
    <3>1. owed[w] = 0 /\ w \notin Noting
      BY <2>1, <2>5, <1>t, OwingTypes DEF Noting
    <3>2. size' = size /\ copy'[w] = "stderr"
      BY <2>1, <2>2, <2>3, <3>1, LogAssumption
    <3>3. owed'[w] = 0
      BY <3>2 DEF owed, Owes
    <3> QED BY <2>1, <3>1, <3>2, <3>3, <1>t, Asks
  <2> QED BY <2>4, <2>5
<1>9. ASSUME NEW w \in Writers, Note(w) \/ Stopped(w) PROVE LogInv'
  <2>1. Only(w) /\ copy'[w] = "stderr" /\ copy[w] \in {"note", "tell"}
    BY <1>9, <1>t DEF Note, Stopped, Set, LogTypes
  <2>2. owed[w] = (IF copy[w] = "note" THEN NoteLen ELSE StoppedLen) /\ size \in Nat
    BY <2>1, <1>t DEF owed, Owes, LogTypes
  <2>3. w \in Bursting \cup Noting
    BY <2>1, <2>2, LogAssumption DEF Bursting, Noting
  <2>4. size' <= size + owed[w]
    BY <1>9, <2>2, LogAssumption DEF Note, Stopped
  <2> QED BY <2>1, <2>3, <2>4, <1>t, Pays
<1>10. ASSUME NEW w \in Writers, Fails(w) PROVE LogInv'
  <2>1. Only(w) /\ copy'[w] \in {"stopped", "ended"} /\ copy[w] \in {"size", "append", "note"}
    BY <1>10, <1>t DEF Fails, Set, LogTypes
  <2>2. Takes(w) \in Nat /\ size \in Nat
    BY <1>t, TakesFits DEF LogTypes
  <2>3. size' <= size + owed[w] /\ (copy[w] = "size" => size' = size)
    <3>1. PICK wrote \in 0 .. (CASE copy[w] = "size" -> 0 [] copy[w] = "append" -> Takes(w)
                                [] OTHER -> NoteLen) : size' = size + wrote
      BY <1>10 DEF Fails
    <3> QED BY <2>1, <2>2, <3>1, LogAssumption DEF owed, Owes
  <2>4. CASE w \in Bursting \cup Noting
    BY <2>1, <2>3, <2>4, <1>t, Pays
  <2>5. CASE w \notin Bursting \cup Noting
    <3>1. owed[w] = 0 /\ copy[w] # "note" /\ owed'[w] = 0
      BY <2>1, <2>5, <1>t, OwingTypes DEF owed, Owes, Noting
    <3>2. size' = size
      <4>1. copy[w] = "append" => size' \in Nat /\ size' >= size
        BY <1>10, <2>2 DEF Fails
      <4> QED BY <2>1, <2>2, <2>3, <3>1, <4>1
    <3> QED BY <2>1, <3>1, <3>2, <1>t, Asks
  <2> QED BY <2>4, <2>5
<1>11. CASE UNCHANGED lvars
  BY <1>2, <1>11 DEF lvars
<1>12. CASE LogNext
  <2>1. PICK w \in Writers : \/ \E t \in BOOLEAN : Redirect(w, t)
                             \/ \E n \in 1 .. PipeSize : Says(w, n)
                             \/ Closes(w) \/ Abandons(w) \/ Copies(w) \/ Shows(w)
    BY <1>12 DEF LogNext
  <2>2. CASE Closes(w)
    BY <1>2, <2>2 DEF Closes
  <2> QED BY <1>1, <1>3, <1>4, <1>5, <1>6, <1>7, <1>8, <1>9, <1>10, <2>1, <2>2 DEF Copies
<1> QED BY <1>11, <1>12

(* What a budget leaves is under the cap.                                  *)
LEMMA BudgetCaps == LogInv => LogCapped
<1> SUFFICES ASSUME LogInv PROVE size <= Cap
    BY DEF LogCapped, Cap
<1>1. size \in Nat /\ owed \in [Writers -> 0 .. Burst]
  BY OwedFits DEF LogInv, LogTypes
<1>2. ASSUME NEW w \in Bursting \cup Noting, RoomFor(size, Bursting, Noting, owed, w)
      PROVE  size <= Cap
  <2>1. /\ Cardinality(Bursting \ {w}) \in Nat /\ Cardinality(Noting \ {w}) \in Nat
        /\ w \in Writers
    BY Counted, OneLess, OwingTypes DEF LogInv
  <2>2. /\ Burst * Cardinality(Bursting \ {w}) \in Nat
        /\ NoteLen * Cardinality(Noting \ {w}) \in Nat
    BY <2>1, BurstFits, LogAssumption
  <2> QED BY <1>1, <1>2, <2>1, <2>2, BurstFits DEF RoomFor
<1> QED BY <1>2 DEF LogInv, Budget

(* Whatever bubblers share a log, it stays under MAX_BYTES and what each of *)
(* the others can append in one turn of its loop, the note of what was      *)
(* dropped and the word of a file that failed included, for any cap, chunk, *)
(* length of the notes and number of writers; one writer never passes       *)
(* MAX_BYTES.                                                               *)
THEOREM LogCappedHolds == ASSUME Writers # {} PROVE LogSpec => []LogCapped
BY InitLogInv, NextLogInv, BudgetCaps, PTL DEF LogSpec
=============================================================================
