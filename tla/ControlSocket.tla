--------------------------- MODULE ControlSocket ---------------------------
(***************************************************************************)
(* The control socket of one instance, $XDG_RUNTIME_DIR/bubbler/<name>/    *)
(* init.sock, and the `bubbler' processes that meet at it                  *)
(* (crates/bubbler-core/src/exec.rs, launcher.rs; crates/bubbler/src/      *)
(* main.rs).  Nothing but this path keeps two runs of an instance apart:   *)
(* connecting to it is the liveness test, binding it the claim, and a      *)
(* FileGuard removes it when the run leaves.                               *)
(*                                                                         *)
(* A run probes the path (main.rs), probes it again (start_and_wait),      *)
(* binds and listens, starts its sidecars, starts the sandbox, which holds *)
(* the listening socket from then on, waits for it, stops its sidecars and *)
(* only then removes the path.  A probe (exec, reseed) only connects.      *)
(***************************************************************************)
EXTENDS Naturals, FiniteSets

CONSTANTS
  Runs,    \* `bubbler run'/`open' processes of the instance
  Probes,  \* `bubbler exec'/`reseed' processes of the instance
  NoOne,   \* nothing at the path
  Crashes  \* a run may be SIGKILLed

ASSUME SocketAssumption ==
  /\ Runs \cap Probes = {}
  /\ NoOne \notin Runs
  /\ Crashes \in BOOLEAN

VARIABLES
  pc,       \* where each process is
  path,     \* the run whose socket is at init.sock
  sock,     \* each run's socket: "none", "bound", "listening" or "closed"
  found,    \* the run whose socket a process is connected to
  crashed,  \* runs that were SIGKILLed
  foreign   \* history: a process removed the path of another run's open socket

vars == <<pc, path, sock, found, crashed, foreign>>

Procs == Runs \cup Probes

RunLocations == {"probe", "probeUnlink", "check", "checkUnlink", "bind", "listen", "sidecars",
                 "up", "teardown", "unguard", "unwind", "close", "inside", "done"}

Init ==
  /\ pc = [p \in Procs |-> "probe"]
  /\ path = NoOne
  /\ sock = [r \in Runs |-> "none"]
  /\ found = [p \in Procs |-> NoOne]
  /\ crashed = {}
  /\ foreign = FALSE

Go(p, l) == pc' = [pc EXCEPT ![p] = l]

Open(r) == sock[r] \in {"bound", "listening"}

(* remove_file() takes away whatever is at the path by now.                *)
RemovePath(p) ==
  /\ path' = NoOne
  /\ foreign' = (foreign \/ (path \notin {p, NoOne} /\ Open(path)))

(* What follows a probe that found nothing.                                *)
AfterNone(p) == IF pc[p] \in {"check", "checkUnlink"} THEN "bind"
                ELSE IF p \in Runs THEN "check" ELSE "done"

-----------------------------------------------------------------------------
(* exec::connect(): a listener answers; nothing is there; or the connect   *)
(* is refused and the path is unlinked in a step of its own.  A run that   *)
(* is answered executes inside the live instance, or, in start_and_wait(), *)
(* gives up with AlreadyRunning.                                           *)
Connect(p) ==
  /\ pc[p] \in {"probe", "check"}
  /\ \/ /\ path = NoOne
        /\ Go(p, AfterNone(p))
        /\ UNCHANGED found
     \/ /\ path # NoOne /\ sock[path] = "listening"
        /\ Go(p, IF pc[p] = "probe" THEN "inside" ELSE "done")
        /\ found' = [found EXCEPT ![p] = IF pc[p] = "probe" THEN path ELSE @]
     \/ /\ path # NoOne /\ sock[path] # "listening"
        /\ Go(p, IF pc[p] = "probe" THEN "probeUnlink" ELSE "checkUnlink")
        /\ UNCHANGED found
  /\ UNCHANGED <<path, sock, crashed, foreign>>

(* The unlink of a refused socket; it is an error when the path is already *)
(* gone.                                                                   *)
Unlink(p) ==
  /\ pc[p] \in {"probeUnlink", "checkUnlink"}
  /\ IF path = NoOne
     THEN Go(p, "done") /\ UNCHANGED <<path, foreign>>
     ELSE Go(p, AfterNone(p)) /\ RemovePath(p)
  /\ UNCHANGED <<sock, found, crashed>>

(* Mutant: the path is cleared before it is bound, whatever is there.      *)
BindOver(p) ==
  /\ pc[p] = "bind"
  /\ path' = p
  /\ sock' = [sock EXCEPT ![p] = "bound"]
  /\ Go(p, "listen")
  /\ UNCHANGED <<found, crashed, foreign>>

(* UnixListener::bind() is bind(2), which fails on an existing path, then  *)
(* listen(2); a connect between the two is refused.                        *)
Bind(p) ==
  /\ pc[p] = "bind"
  /\ IF path = NoOne
     THEN /\ path' = p
          /\ sock' = [sock EXCEPT ![p] = "bound"]
          /\ Go(p, "listen")
     ELSE Go(p, "done") /\ UNCHANGED <<path, sock>>
  /\ UNCHANGED <<found, crashed, foreign>>

Listen(p) ==
  /\ pc[p] = "listen"
  /\ sock' = [sock EXCEPT ![p] = "listening"]
  /\ Go(p, "sidecars")
  /\ UNCHANGED <<path, found, crashed, foreign>>

(* The sidecars are up and bwrap is spawned: the sandbox holds the socket, *)
(* bubbler drops its own copies.                                           *)
StartSandbox(p) ==
  /\ pc[p] = "sidecars"
  /\ Go(p, "up")
  /\ UNCHANGED <<path, sock, found, crashed, foreign>>

(* The supervisor and with it the listening socket end.                    *)
SandboxEnds(p) ==
  /\ pc[p] = "up" /\ sock[p] = "listening"
  /\ sock' = [sock EXCEPT ![p] = "closed"]
  /\ UNCHANGED <<pc, path, found, crashed, foreign>>

(* The wait is over; network, audio, Wayland and bus sidecars are stopped  *)
(* one after the other, which takes as long as their graces.               *)
Reap(p) ==
  /\ pc[p] = "up" /\ sock[p] = "closed"
  /\ Go(p, "teardown")
  /\ UNCHANGED <<path, sock, found, crashed, foreign>>

StopSidecars(p) ==
  /\ pc[p] = "teardown"
  /\ Go(p, "unguard")
  /\ UNCHANGED <<path, sock, found, crashed, foreign>>

(* FileGuard::drop(), the last of start_and_wait()'s locals but the        *)
(* listener: the path is removed whoever bound it.                         *)
Unguard(p) ==
  /\ pc[p] = "unguard"
  /\ Go(p, "done")
  /\ RemovePath(p)
  /\ UNCHANGED <<sock, found, crashed>>

(* Mutant: the guard is not there yet when a sidecar fails.                *)
FailStartUnguarded(p) ==
  /\ pc[p] = "sidecars"
  /\ Go(p, "close")
  /\ UNCHANGED <<path, sock, found, crashed, foreign>>

(* A sidecar fails or a stop is caught: every early return of the start    *)
(* drops the guard and then the listener.                                  *)
FailStart(p) ==
  /\ pc[p] = "sidecars"
  /\ Go(p, "unwind")
  /\ UNCHANGED <<path, sock, found, crashed, foreign>>

Unwind(p) ==
  /\ pc[p] = "unwind"
  /\ Go(p, "close")
  /\ RemovePath(p)
  /\ UNCHANGED <<sock, found, crashed>>

CloseListener(p) ==
  /\ pc[p] = "close"
  /\ sock' = [sock EXCEPT ![p] = "closed"]
  /\ Go(p, "done")
  /\ UNCHANGED <<path, found, crashed, foreign>>

(* Mutant: the end of the connection is not noticed.                       *)
ExecutedOpen(p) ==
  /\ pc[p] = "inside"
  /\ pc[found[p]] = "up" /\ sock[found[p]] = "listening"
  /\ Go(p, "done")
  /\ UNCHANGED <<path, sock, found, crashed, foreign>>

(* A process connected to a run's socket is answered by its supervisor, or *)
(* sees the connection end with it.                                        *)
Executed(p) ==
  /\ pc[p] = "inside"
  /\ pc[found[p]] = "up" \/ sock[found[p]] = "closed"
  /\ Go(p, "done")
  /\ UNCHANGED <<path, sock, found, crashed, foreign>>

(* SIGKILL: no guard runs; --die-with-parent takes the sandbox along.      *)
Crash(p) ==
  /\ Crashes
  /\ pc[p] # "done" /\ p \notin crashed
  /\ crashed' = crashed \cup {p}
  /\ sock' = [sock EXCEPT ![p] = IF @ = "none" THEN @ ELSE "closed"]
  /\ Go(p, "done")
  /\ UNCHANGED <<path, found, foreign>>

Ended == (\A p \in Procs : pc[p] = "done") /\ UNCHANGED vars

Step(p) == Connect(p) \/ Unlink(p) \/ Executed(p)

RunStep(r) ==
  \/ Bind(r) \/ Listen(r) \/ StartSandbox(r) \/ Reap(r) \/ StopSidecars(r) \/ Unguard(r)
  \/ FailStart(r) \/ Unwind(r) \/ CloseListener(r)

Next ==
  \/ \E p \in Procs : Step(p)
  \/ \E r \in Runs : RunStep(r) \/ SandboxEnds(r) \/ Crash(r)
  \/ Ended

Spec == Init /\ [][Next]_vars

(* Every process is scheduled; nothing makes a sandbox end.                *)
Fairness == /\ \A p \in Procs : WF_vars(Step(p))
            /\ \A r \in Runs : WF_vars(RunStep(r))

FairSpec == Spec /\ Fairness

-----------------------------------------------------------------------------
TypeOK ==
  /\ pc \in [Procs -> RunLocations]
  /\ path \in Runs \cup {NoOne}
  /\ sock \in [Runs -> {"none", "bound", "listening", "closed"}]
  /\ found \in [Procs -> Runs \cup {NoOne}]
  /\ crashed \in SUBSET Runs
  /\ foreign \in BOOLEAN

(* The runs that have claimed the instance: between bind() and the end of  *)
(* their sandbox.                                                          *)
Holds(r) == pc[r] \in {"listen", "sidecars", "up"} /\ Open(r)

(* As long as nothing takes away the path of a socket that is still open,  *)
(* a run that bound it is the one at the path: it can be reached, and, the *)
(* path being one, no second run of the instance is up.                    *)
ClaimIsThePath == foreign \/ \A r \in Runs : Holds(r) => path = r

(* A run that was not killed leaves no socket behind, however it ended and *)
(* whatever the others did to the path.                                    *)
GuardCleans == \A r \in Runs : path = r /\ pc[r] = "done" => r \in crashed

(* No `bubbler exec' hangs: it ends although the run it reached may be     *)
(* torn down or killed before anybody accepts its connection.              *)
ProbesEnd == \A p \in Probes : pc[p] # "probe" ~> pc[p] = "done"

(* Where a run is tells what its socket is, and a path is left only by a   *)
(* run on its way or by one that was killed: with the two above, an        *)
(* inductive invariant.                                                    *)
SocketPhases ==
  \A r \in Runs :
    /\ pc[r] \in {"probe", "probeUnlink", "check", "checkUnlink", "bind", "inside"} =>
         sock[r] = "none" /\ path # r
    /\ pc[r] = "listen" => sock[r] = "bound"
    /\ pc[r] \in {"sidecars", "unwind", "close"} => sock[r] = "listening"
    /\ pc[r] = "up" => sock[r] \in {"listening", "closed"}
    /\ pc[r] \in {"teardown", "unguard"} => sock[r] = "closed"
    /\ pc[r] = "close" => path # r
    /\ pc[r] = "done" => sock[r] \in {"none", "closed"}

=============================================================================
