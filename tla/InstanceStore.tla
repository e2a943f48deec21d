--------------------------- MODULE InstanceStore ---------------------------
(***************************************************************************)
(* The instance directories on disk (instance.rs, fsutil.rs) and the       *)
(* commands that work on them: create, run, reseed, the editor's save,     *)
(* mark_version after `edit`, delete, and `try` with and without --keep.   *)
(* Every command is a process of its own that does one system call a step, *)
(* so two of them interleave, and any of them may die between two steps.   *)
(* A process identifier is used again once its process has ended.          *)
(*                                                                         *)
(* One instance name is modelled.  What a config says is a number, a new   *)
(* one for every text written; what the grants in it mean is elsewhere.    *)
(***************************************************************************)
EXTENDS Naturals

CONSTANTS Pids,        \* process identifiers
          NoDir,       \* a directory that is not there
          MaxTexts,    \* bound: texts written
          MaxStarts    \* bound: commands started

Dirs == [id : Nat, home : BOOLEAN, config : Nat, bak : Nat]

ASSUME PidsAssumption == Pids \subseteq Nat /\ NoDir \notin Dirs

Absent == 0            \* no such file
Empty == 1             \* a file created and not yet written
Seed == 2              \* what the profile flattens to

VARIABLES inst,    \* instances/<name>: [id, home, config, bak], or NoDir
          try,     \* try/<pid> likewise
          strays,  \* siblings of write_atomic() in instances/<name>
          live,    \* the text the running sandbox was started from, or 0
          step, op,  \* where each process is, and in which command
          held,    \* the text it read
          mine,    \* the text it writes, or the directory it made
          clean,   \* nobody else changed the instance since it read it
          texts, starts,
          doomed   \* sweep_dir(): entries it found without a process

ivars == <<inst, try, strays, live, step, op, held, mine, clean, texts, starts,
           doomed>>
disk == <<inst, try, strays>>

Alive(p) == step[p] # "idle"

StoreInit ==
  /\ inst \in {NoDir, [id |-> 0, home |-> TRUE, config |-> Seed, bak |-> Absent]}
  /\ try = [p \in Pids |-> NoDir] /\ strays = {} /\ live = Absent
  /\ step = [p \in Pids |-> "idle"] /\ op = [p \in Pids |-> "none"]
  /\ held = [p \in Pids |-> Absent] /\ mine = [p \in Pids |-> Absent]
  /\ clean = [p \in Pids |-> FALSE]
  /\ texts = Seed /\ starts = 0 /\ doomed = [p \in Pids |-> {}]

Goto(p, where) == step' = [step EXCEPT ![p] = where]
\* A command that ends, however it ends.
Exit(p) == /\ Goto(p, "idle") /\ held' = [held EXCEPT ![p] = Absent]
           /\ doomed' = [doomed EXCEPT ![p] = {}]
           /\ UNCHANGED <<op, mine, texts, starts>>
Keeps == UNCHANGED <<op, held, mine, texts, starts, doomed>>

HasConfig == inst # NoDir /\ inst.config # Absent

Start(p, what, first) ==
  /\ step[p] = "idle" /\ starts < MaxStarts /\ starts' = starts + 1
  /\ Goto(p, first) /\ op' = [op EXCEPT ![p] = what]
  /\ mine' = [mine EXCEPT ![p] = Absent]
  /\ UNCHANGED <<disk, live, held, texts, doomed>>

Commands(p) ==
  \/ Start(p, "create", "mkdir") \/ Start(p, "save", "read")
  \/ Start(p, "reseed", "probe") \/ Start(p, "mark", "read")
  \/ Start(p, "delete", "unlink") \/ Start(p, "run", "open")
  \/ Start(p, "try", "sweep") \/ Start(p, "keep", "sweep")

----------------------------------------------------------------------------
(* make_dir(): the directory, home/, then config.kdl opened and written.    *)
(* `where` is instances/<name> for create and try/<pid> for the others.     *)

Target(p) == IF op[p] = "create" THEN inst ELSE try[p]
Put(p, dir) == IF op[p] = "create"
               THEN inst' = dir /\ UNCHANGED try
               ELSE try' = [try EXCEPT ![p] = dir] /\ UNCHANGED inst

MakeDir(p) ==
  /\ step[p] = "mkdir" /\ UNCHANGED <<strays, live>>
  /\ IF Target(p) # NoDir THEN Exit(p) /\ UNCHANGED <<inst, try>>
     ELSE /\ Put(p, [id |-> starts * 8 + p, home |-> FALSE, config |-> Absent,
                     bak |-> Absent])
          /\ mine' = [mine EXCEPT ![p] = starts * 8 + p]
          /\ Goto(p, "home")
          /\ UNCHANGED <<op, held, texts, starts, doomed>>

Fill(p, from, field, to, next) ==
  /\ step[p] = from /\ UNCHANGED <<strays, live>>
  /\ IF Target(p) = NoDir \/ (from = "home" /\ Target(p).home)
     THEN Exit(p) /\ UNCHANGED <<inst, try>>
     ELSE Put(p, [Target(p) EXCEPT ![field] = to]) /\ Goto(p, next) /\ Keeps

MakeHome(p) == Fill(p, "home", "home", TRUE, "config")
OpenConfig(p) == Fill(p, "config", "config", Empty, "write")
\* The write goes to the file that was opened, wherever the name leads now.
WriteConfig(p) ==
  /\ step[p] = "write" /\ UNCHANGED <<strays, live>>
  /\ IF Target(p) # NoDir /\ Target(p).id = mine[p] /\ Target(p).config = Empty
     THEN Put(p, [Target(p) EXCEPT !.config = Seed])
     ELSE UNCHANGED <<inst, try>>
  /\ IF op[p] = "create" THEN Exit(p) ELSE Goto(p, "claim") /\ Keeps

----------------------------------------------------------------------------
(* save(), reseed() and mark_version(): read, then replace the backup and   *)
(* the config, each through a sibling that carries the pid.                 *)

\* reseed() refuses while a sandbox answers on the control socket.
Probe(p) ==
  /\ step[p] = "probe" /\ UNCHANGED <<disk, live>>
  /\ IF HasConfig /\ live = Absent THEN Goto(p, "read") /\ Keeps ELSE Exit(p)

\* write_atomic() of a file is two places of its caller: the sibling, the rename.
NewOf(file) == IF file = "bak" THEN "bak new" ELSE "config new"
RenameOf(file) == IF file = "bak" THEN "bak rename" ELSE "config rename"

FirstWrite(p) == NewOf(IF op[p] = "mark" THEN "config" ELSE "bak")

Read(p) ==
  /\ step[p] = "read" /\ UNCHANGED <<disk, live>>
  /\ IF ~HasConfig \/ texts = MaxTexts \/ (op[p] = "reseed" /\ inst.config = Empty)
     THEN Exit(p)
     ELSE /\ held' = [held EXCEPT ![p] = inst.config]
          /\ mine' = [mine EXCEPT ![p] = texts + 1] /\ texts' = texts + 1
          /\ Goto(p, FirstWrite(p))
          /\ UNCHANGED <<op, starts, doomed>>

\* O_EXCL: a leftover of an earlier process of this pid is an error, and is
\* cleared on the way out.
Sibling(p, file) ==
  /\ step[p] = NewOf(file) /\ UNCHANGED <<inst, try, live>>
  /\ IF inst = NoDir \/ <<file, p>> \in strays
     THEN strays' = strays \ {<<file, p>>} /\ Exit(p)
     ELSE /\ strays' = strays \cup {<<file, p>>}
          /\ Goto(p, RenameOf(file)) /\ Keeps

Replaced(p, file) ==
  IF file = "bak" THEN [inst EXCEPT !.bak = held[p]]
                  ELSE [inst EXCEPT !.config = mine[p]]

After(file) == IF file = "bak" THEN NewOf("config") ELSE "done"

\* rename(2), or its failure and the sibling's removal.
Rename(p, file) ==
  /\ step[p] = RenameOf(file) /\ UNCHANGED <<try, live>>
  /\ strays' = strays \ {<<file, p>>}
  /\ \/ /\ inst # NoDir /\ <<file, p>> \in strays
        /\ inst' = Replaced(p, file)
        /\ Goto(p, After(file))
        /\ UNCHANGED <<op, held, mine, texts, starts, doomed>>
     \/ UNCHANGED inst /\ Exit(p)

Done(p) == step[p] = "done" /\ Exit(p) /\ UNCHANGED <<disk, live>>

WriteAtomicInPlace(p, file) ==
  \/ /\ step[p] = NewOf(file) /\ inst # NoDir
     /\ inst' = [inst EXCEPT ![file] = Empty]
     /\ Goto(p, RenameOf(file)) /\ Keeps /\ UNCHANGED <<try, strays, live>>
  \/ Rename(p, file)
WriteAtomic(p, file) == Sibling(p, file) \/ Rename(p, file)

----------------------------------------------------------------------------
(* delete(), and one run of the instance.                                   *)

\* An instance directory with nothing in it.
Bare == /\ ~inst.home /\ inst.config = Absent /\ inst.bak = Absent
        /\ strays = {}

\* remove_dir_all(): the entries, then the directory, which fails when
\* somebody made an entry in between.
Delete(p) ==
  \/ /\ step[p] = "unlink" /\ UNCHANGED <<try, live>>
     /\ IF inst = NoDir THEN Exit(p) /\ UNCHANGED <<inst, strays>>
        ELSE /\ inst' = [inst EXCEPT !.home = FALSE, !.config = Absent,
                                     !.bak = Absent]
             /\ strays' = {} /\ Goto(p, "rmdir") /\ Keeps
  \/ /\ step[p] = "rmdir" /\ UNCHANGED <<try, strays, live>> /\ Exit(p)
     /\ inst' = IF inst = NoDir \/ Bare THEN NoDir ELSE inst

Run(p) ==
  \/ /\ step[p] = "open" /\ UNCHANGED <<disk, live>>
     /\ IF ~HasConfig THEN Exit(p)
        ELSE /\ held' = [held EXCEPT ![p] = inst.config] /\ Goto(p, "claim")
             /\ UNCHANGED <<op, mine, texts, starts, doomed>>
  \/ /\ step[p] = "claim" /\ op[p] = "run" /\ UNCHANGED disk
     /\ IF live # Absent THEN Exit(p) /\ UNCHANGED live
        ELSE live' = held[p] /\ Goto(p, "running") /\ Keeps
  \/ /\ step[p] = "running" /\ op[p] = "run" /\ live' = Absent /\ Exit(p)
     /\ UNCHANGED disk

----------------------------------------------------------------------------
(* ephemeral(): sweep what dead tries left, make try/<pid>, run, and let    *)
(* the guard remove or keep it.                                             *)

Stale(p) == {q \in Pids \ {p} : try[q] # NoDir /\ ~Alive(q)}

\* sweep_dir() looks a pid up and removes its directory in two steps.
Sweep(p) ==
  \/ /\ step[p] = "sweep" /\ doomed' = [doomed EXCEPT ![p] = Stale(p)]
     /\ Goto(p, "swept") /\ UNCHANGED <<disk, live>>
     /\ UNCHANGED <<op, held, mine, texts, starts>>
  \/ /\ step[p] = "swept"
     /\ try' = [q \in Pids |-> IF q \in doomed[p] \cup {p} THEN NoDir
                               ELSE try[q]]
     /\ Goto(p, "mkdir") /\ Keeps /\ UNCHANGED <<inst, strays, live>>

\* keep_as() records a name that is free now; the run may fail to start.
Try(p) ==
  \/ /\ step[p] = "claim" /\ op[p] \in {"try", "keep"} /\ UNCHANGED <<disk, live>>
     /\ held' = held /\ UNCHANGED <<texts, starts, doomed, mine>>
     /\ Goto(p, IF op[p] = "keep" /\ inst # NoDir THEN "drop" ELSE "running")
     /\ op' = IF op[p] = "keep" /\ inst # NoDir
              THEN [op EXCEPT ![p] = "try"] ELSE op
  \/ /\ step[p] = "running" /\ op[p] \in {"try", "keep"}
     /\ UNCHANGED <<disk, live>> /\ Goto(p, "drop")
     /\ \/ op' = op
        \/ op' = [op EXCEPT ![p] = "try"]     \* disarm_keep()
     /\ UNCHANGED <<held, mine, texts, starts, doomed>>

\* rename(2) of a directory succeeds onto nothing and onto an empty one.
Renames == inst = NoDir \/ Bare

\* Drop for Ephemeral.
Drop(p) ==
  /\ step[p] = "drop" /\ UNCHANGED <<strays, live>> /\ Exit(p)
  /\ IF op[p] = "keep" /\ try[p] # NoDir
     THEN IF Renames THEN inst' = try[p] /\ try' = [try EXCEPT ![p] = NoDir]
          ELSE UNCHANGED <<inst, try>>
     ELSE try' = [try EXCEPT ![p] = NoDir] /\ UNCHANGED inst

\* The process dies; the kernel ends its sandbox with it.
Killed(p) ==
  /\ Alive(p) /\ Exit(p) /\ UNCHANGED disk
  /\ live' = IF step[p] = "running" /\ op[p] = "run" THEN Absent ELSE live

Proceeds(p) == \/ Commands(p) \/ MakeDir(p) \/ MakeHome(p) \/ OpenConfig(p)
           \/ WriteConfig(p) \/ Probe(p) \/ Read(p)
           \/ WriteAtomic(p, "bak") \/ WriteAtomic(p, "config") \/ Done(p)
           \/ Delete(p) \/ Run(p) \/ Sweep(p) \/ Try(p) \/ Drop(p) \/ Killed(p)

Watch(p) ==
  clean' = [q \in Pids |-> IF q = p /\ step[p] = "read" THEN TRUE
                           ELSE clean[q] /\ (q = p \/ inst' = inst)]

StoreNext == \E p \in Pids : Proceeds(p) /\ Watch(p)

\* The instance directories on their own.
StoreSpec == StoreInit /\ [][StoreNext]_ivars

----------------------------------------------------------------------------
StoreTypeOK ==
  /\ inst \in Dirs \cup {NoDir} /\ try \in [Pids -> Dirs \cup {NoDir}]
  /\ live \in Nat /\ texts \in Nat /\ starts \in Nat
  /\ held \in [Pids -> Nat] /\ mine \in [Pids -> Nat] /\ clean \in [Pids -> BOOLEAN]

(* A config that has been whole is never half-written again, whoever dies   *)
(* in the middle of replacing it and whoever replaces it at the same time   *)
(* (write_atomic(), fsutil.rs:53).  Only delete takes it away, and only a   *)
(* create that is still laying out the directory opens the file anew.       *)
NeverTorn ==
  [][HasConfig /\ inst.config # Empty =>
       \/ inst' # NoDir /\ inst'.config \notin {Empty, Absent}
       \/ \E p \in Pids : step[p] = "unlink"
       \/ \E p \in Pids : step[p] = "config" /\ op[p] = "create"]_ivars

(* What save() and reseed() replace is on disk at every moment, as the      *)
(* config or beside it as config.kdl.bak, unless somebody else replaced the *)
(* config meanwhile: a crash between the two files loses no text the user   *)
(* wrote (instance.rs:640).                                                 *)
ReplacedKept ==
  \A p \in Pids :
    step[p] \in {"bak new", "bak rename", "config new", "config rename", "done"}
    /\ op[p] \in {"save", "reseed"} /\ clean[p] /\ HasConfig
      => held[p] \in {inst.config, inst.bak}

(* --keep never costs another instance anything: a directory that holds a   *)
(* home stays the directory it is until `delete` (Drop for Ephemeral,       *)
(* instance.rs:467).                                                        *)
Unclobbered ==
  [][inst # NoDir /\ inst.home /\ inst' # NoDir => inst'.id = inst.id]_ivars

(* No step of any command, and no death in the middle of one, costs the     *)
(* user a text or a directory (write_atomic(), save(), Drop for Ephemeral). *)
StoreKept == NeverTorn /\ []ReplacedKept /\ Unclobbered
=============================================================================
