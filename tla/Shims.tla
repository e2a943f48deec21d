------------------------------- MODULE Shims -------------------------------
(***************************************************************************)
(* Command shims (wrap.rs): `wrap` and `unwrap` keep a registry file and a *)
(* directory of symlinks in step.  They are processes of their own that    *)
(* take a lock, read, check and write one system call at a time, any of    *)
(* them may fail or be killed between two steps, and the user works in the *)
(* same directory without the lock.                                        *)
(***************************************************************************)
EXTENDS Naturals

CONSTANTS Shells,      \* the bubblers that wrap and unwrap
          Names,       \* shim names; check_name() has passed
          Owners,      \* instances with a `command`
          Nobody,      \* no such registry entry, no holder of the lock
          MaxWraps,    \* bound: commands started
          MaxUser      \* bound: what the user does to the directory

ASSUME NobodyAssumption == Nobody \notin Owners \cup Shells

VARIABLES registry,   \* wraps.kdl: name -> instance or Nobody
          shims,      \* ~/.local/bin: name -> "absent", "ours" or "other"
          holder,     \* who has the flock
          at,         \* where each bubbler is
          job,        \* what it was asked: [op, name, instance]
          loaded,     \* load(): the registry it read
          wraps, edits

hvars == <<registry, shims, holder, at, job, loaded, wraps, edits>>

NoJob == [op |-> "none", name |-> CHOOSE n \in Names : TRUE,
          instance |-> CHOOSE i \in Owners : TRUE]
NoEntries == [n \in Names |-> Nobody]

ShimsInit ==
  /\ registry = NoEntries /\ shims \in [Names -> {"absent", "other"}]
  /\ holder = Nobody /\ at = [s \in Shells |-> "idle"]
  /\ job = [s \in Shells |-> NoJob] /\ loaded = [s \in Shells |-> NoEntries]
  /\ wraps = 0 /\ edits = 0

Move(s, where) == at' = [at EXCEPT ![s] = where]
\* The lock is the descriptor's: it goes with the command, however it ends.
Leave(s) == /\ Move(s, "idle") /\ job' = [job EXCEPT ![s] = NoJob]
            /\ loaded' = [loaded EXCEPT ![s] = NoEntries]
            /\ holder' = IF holder = s THEN Nobody ELSE holder
Name(s) == job[s].name

\* add() or remove(), up to the lock.
Begin(s, what) ==
  /\ at[s] = "idle" /\ wraps < MaxWraps /\ wraps' = wraps + 1
  /\ job' = [job EXCEPT ![s] = what] /\ Move(s, "lock")
  /\ UNCHANGED <<registry, shims, holder, loaded, edits>>

\* LOCK_EX, which waits.
LockShared(s) ==
  /\ at[s] = "lock" /\ Move(s, "load")
  /\ UNCHANGED <<registry, shims, holder, job, loaded, wraps, edits>>
Lock(s) ==
  /\ at[s] = "lock" /\ holder = Nobody /\ holder' = s /\ Move(s, "load")
  /\ UNCHANGED <<registry, shims, job, loaded, wraps, edits>>

\* NameTaken, NotWrapped, or on to the path.
Refused(s) ==
  IF job[s].op = "add" THEN registry[Name(s)] \notin {Nobody, job[s].instance}
  ELSE registry[Name(s)] = Nobody

Load(s) ==
  /\ at[s] = "load" /\ UNCHANGED <<registry, shims, wraps, edits>>
  /\ IF Refused(s) THEN Leave(s)
     ELSE /\ loaded' = [loaded EXCEPT ![s] = registry]
          /\ Move(s, IF job[s].op = "add" THEN "stat" ELSE "unlink")
          /\ UNCHANGED <<job, holder>>

----------------------------------------------------------------------------
(* add(): the registry goes first, then the link.                           *)

Stat(s) ==
  /\ at[s] = "stat" /\ UNCHANGED <<registry, shims, wraps, edits>>
  /\ IF shims[Name(s)] = "other" THEN Leave(s)           \* Occupied
     ELSE Move(s, "save") /\ UNCHANGED <<holder, job, loaded>>

SaveAdd(s) ==
  /\ at[s] = "save" /\ UNCHANGED <<shims, wraps, edits>>
  /\ \/ /\ registry' = [loaded[s] EXCEPT ![Name(s)] = job[s].instance]
        /\ Move(s, "link") /\ UNCHANGED <<holder, job, loaded>>
     \/ Leave(s) /\ UNCHANGED registry

\* link(): rename(2) of a fresh symlink, whatever is there by now.
Link(s) ==
  /\ at[s] = "link" /\ UNCHANGED <<registry, wraps, edits>>
  /\ \/ /\ shims' = [shims EXCEPT ![Name(s)] = "ours"] /\ Leave(s)
     \/ Move(s, "rollback") /\ UNCHANGED <<shims, holder, job, loaded>>

\* `previous` is written back, if that works.
Rollback(s) ==
  /\ at[s] = "rollback" /\ Leave(s) /\ UNCHANGED <<shims, wraps, edits>>
  /\ registry' \in {registry, loaded[s]}

----------------------------------------------------------------------------
(* remove(): the link goes first, then the registry line.                   *)

SaveRemove(s) ==
  /\ at[s] = "forget" /\ Leave(s) /\ UNCHANGED <<shims, wraps, edits>>
  /\ registry' \in {registry, [loaded[s] EXCEPT ![Name(s)] = Nobody]}

\* is_ours(), then remove_file() of whatever is there by then.
IsOurs(s) ==
  /\ at[s] = "unlink" /\ Move(s, IF shims[Name(s)] = "ours" THEN "removing" ELSE "forget")
  /\ UNCHANGED <<registry, shims, holder, job, loaded, wraps, edits>>
RemoveFile(s) ==
  /\ at[s] = "removing" /\ UNCHANGED <<registry, wraps, edits>>
  /\ \/ /\ shims[Name(s)] # "absent" /\ shims' = [shims EXCEPT ![Name(s)] = "absent"]
        /\ Move(s, "forget") /\ UNCHANGED <<holder, job, loaded>>
     \/ Leave(s) /\ UNCHANGED shims

----------------------------------------------------------------------------
\* Killed: nothing is undone, the kernel drops the lock.
Kill(s) == /\ at[s] # "idle" /\ Leave(s)
           /\ UNCHANGED <<registry, shims, wraps, edits>>

\* The user removes a shim or puts a program of their own there.
UserEdits(n) ==
  /\ edits < MaxUser /\ edits' = edits + 1
  /\ shims' = [shims EXCEPT ![n] = IF @ = "absent" THEN "other" ELSE "absent"]
  /\ UNCHANGED <<registry, holder, at, job, loaded, wraps>>

ShimsNext ==
  \/ \E s \in Shells :
       \/ \E n \in Names, i \in Owners, o \in {"add", "remove"} :
            Begin(s, [op |-> o, name |-> n, instance |-> i])
       \/ Lock(s) \/ Load(s) \/ Stat(s) \/ SaveAdd(s) \/ Link(s) \/ Rollback(s)
       \/ IsOurs(s) \/ RemoveFile(s) \/ SaveRemove(s) \/ Kill(s)
  \/ \E n \in Names : UserEdits(n)

\* The shims on their own.
ShimsSpec == ShimsInit /\ [][ShimsNext]_hvars

----------------------------------------------------------------------------
ShimsTypeOK ==
  /\ registry \in [Names -> Owners \cup {Nobody}]
  /\ shims \in [Names -> {"absent", "ours", "other"}]
  /\ holder \in Shells \cup {Nobody}

(* A command changes the registry line of its own name and no other: two    *)
(* wraps at once, one of them rolling back or killed, lose nobody's entry   *)
(* (lock(), wrap.rs:253).                                                   *)
EntriesKept ==
  [][\A n \in Names : registry'[n] # registry[n] =>
       \E s \in Shells : Name(s) = n /\ at[s] # at'[s]]_hvars

(* Every link of bubbler's has a registry line behind it at every moment,   *)
(* whoever dies where, so `unwrap` can always find it again (the order of   *)
(* the two writes in add() and in remove(), wrap.rs:283 and wrap.rs:318).   *)
LinkRegistered ==
  \A n \in Names : shims[n] = "ours" => registry[n] # Nobody

(* The registry and the links agree at every moment: no entry of another    *)
(* command is lost, and no link of bubbler's is without one (wrap.rs).      *)
ShimsKept == EntriesKept /\ []LinkRegistered
=============================================================================
