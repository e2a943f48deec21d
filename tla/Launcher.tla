------------------------------ MODULE Launcher ------------------------------
(***************************************************************************)
(* One `bubbler run' from the bound control socket to the end of its       *)
(* unwinding (crates/bubbler-core/src/launcher.rs, start_and_wait()): the  *)
(* sidecars an instance's grants ask for are started one after another,    *)
(* bwrap is spawned around the supervisor and, where something still has   *)
(* to be done to the sandbox, held at its --block-fd; the run waits for    *)
(* bwrap, and everything it made is undone by destructors, in the reverse  *)
(* of the order it was made in, whichever statement the function left at.  *)
(*                                                                         *)
(* A deadline is a step that may be taken at any moment.  A signal sets a  *)
(* flag; the processes it kills on the way (a Ctrl-C reaches the whole     *)
(* process group) are the environment's exits, which may come at any time  *)
(* anyway.                                                                 *)
(***************************************************************************)
EXTENDS Naturals, Sequences

CONSTANT Configs  \* the grants of the instances considered, each a set

Starts   == <<"dbus", "wayland", "pw", "pulse", "pasta", "netproxy">>
Sidecars == {"dbus", "wayland", "pw", "pulse", "pasta", "netproxy"}
Network  == {"pasta", "netproxy"}           \* what start_network() starts
WithDir  == {"dbus", "pw", "pulse"}         \* a directory of its own to write
Grants   == Sidecars \cup {"portals", "deny", "tty"}

(* Portals go through the D-Bus proxy, pulse is a client of the PipeWire   *)
(* context, an egress proxy is for a denied network and only an isolated   *)
(* network, which pasta connects, can be denied.                           *)
ASSUME ConfigsAssumption ==
  /\ Configs \subseteq SUBSET Grants
  /\ \A g \in Configs :
       /\ "portals" \in g => "dbus" \in g
       /\ "pulse" \in g => "pw" \in g
       /\ "netproxy" \in g => "deny" \in g
       /\ "deny" \in g => "pasta" \in g

VARIABLES
  pc,       \* where start_and_wait() is
  at,       \* the sidecar being started, or the step of the unwinding
  grants,   \* the instance's services
  stop,     \* the AtomicBool of SIGINT, SIGTERM and SIGHUP
  side,     \* each sidecar's process
  said,     \* sidecars that have reported readiness
  ready,    \* sidecars whose readiness the run has seen
  asked,    \* sidecars told to end, or SIGKILLed
  dirs,     \* sidecar directories on disk
  socks,    \* sidecar sockets in the instance's directory
  kept,     \* what else the run has to give back
  bwrap,    \* the sandbox's bwrap
  box,      \* the process bwrap makes: pid 1 of the sandbox
  block,    \* the block pipe still holds: no byte written, its write end open
  wrote,    \* bwrap has written its info document
  info,     \* the run has read it, and so knows the sandbox's pid
  rules,    \* the outbound ruleset is installed
  sup,      \* the supervisor's pid was found
  told,     \* who of the sandbox was sent SIGTERM
  result,   \* how the run comes out
  misfired, \* history: a signal was sent to a pid already reaped
  early     \* history: a stop came before the run's last look for one

sidecarVars == <<side, said, ready, asked, dirs, socks>>
sandboxVars == <<bwrap, box, block, wrote, info, rules, sup, told>>
vars == <<pc, at, grants, stop, side, said, ready, asked, dirs, socks, kept, bwrap, box,
          block, wrote, info, rules, sup, told, result, misfired, early>>

ProcessState == {"none", "up", "zombie", "gone"}

(* "held" at --block-fd; "running" under bwrap; "orphan" once bwrap died   *)
(* under it and --die-with-parent is on its way; "stray" when it was let   *)
(* go with bwrap already dead, so that nothing ends it.                    *)
BoxState == {"none", "held", "running", "orphan", "stray", "dead"}

Locations == {"bind", "resolve", "spawn", "probe", "context", "listen", "ready", "adopt", "gate",
              "prepare", "argv", "raw", "bwrap", "info", "identity", "network", "rules", "feed",
              "nft", "hold", "release", "supervisor", "sink", "wait", "drop", "stopping", "done"}

(* What the unwinding goes through.  A failing start_network() drops its   *)
(* own handles first, then the sandbox is aborted, then the function's     *)
(* locals go in reverse order of their declaration.                        *)
DropSteps == <<"netproxy", "pasta", "abort",
               "pasta", "netproxy", "identity", "raw", "cgroup", "pulse", "pw", "wayland",
               "buses", "dbus", "alloc", "socket">>
NetFailed == 1
Abort     == 3
Locals    == 4
Unwound   == {"drop", "stopping", "done"}

Isolated == "pasta" \in grants
Held     == "portals" \in grants \/ Isolated  \* the sandbox starts behind --block-fd

Init ==
  /\ pc = "bind" /\ at = 1
  /\ grants \in Configs
  /\ stop = FALSE
  /\ side = [s \in Sidecars |-> "none"]
  /\ said = {} /\ ready = {} /\ asked = {}
  /\ dirs = {} /\ socks = {} /\ kept = {}
  /\ bwrap = "none" /\ box = "none" /\ block = TRUE /\ wrote = FALSE
  /\ info = FALSE /\ rules = FALSE /\ sup = FALSE
  /\ told = {}
  /\ result = "none"
  /\ misfired = FALSE /\ early = FALSE

(* Leaving the function with `r' through step `n' of the unwinding.        *)
Leave(n, r) == pc' = "drop" /\ at' = n /\ result' = r

(* A failure while `stop' is set is reported as the stop.                  *)
Failure == IF stop THEN "stopped" ELSE "failed"

-----------------------------------------------------------------------------
(* The control socket is bound and guarded; nothing exists before it.      *)
Bind ==
  /\ pc = "bind"
  /\ \/ pc' = "resolve" /\ kept' = {"socket"} /\ UNCHANGED result
     \/ pc' = "done" /\ result' = "failed" /\ UNCHANGED kept
  /\ UNCHANGED <<at, grants, stop, sidecarVars, sandboxVars, misfired, early>>

(* "A run with nothing to run must fail before a sidecar is started."      *)
Resolve ==
  /\ pc = "resolve"
  /\ \/ pc' = "spawn" /\ UNCHANGED <<at, result>>
     \/ Leave(Locals, "failed")
  /\ UNCHANGED <<grants, stop, sidecarVars, kept, sandboxVars, misfired, early>>

This == Starts[at]

(* Where the run goes on once sidecar number `at' is up or not granted.    *)
Onward == IF at < 4 THEN "gate" ELSE IF at = 4 THEN "prepare"
          ELSE IF at = 5 THEN "spawn" ELSE "hold"
Advance == pc' = Onward /\ at' = IF at \in {4, 6} THEN at ELSE at + 1

(* A sidecar that fails to start unwinds what is before it.                *)
StartFails(r) == Leave(IF This \in Network THEN NetFailed ELSE Locals, r)

SkipSidecar ==
  /\ pc = "spawn" /\ This \notin grants
  /\ Advance
  /\ UNCHANGED <<grants, stop, sidecarVars, kept, sandboxVars, result, misfired, early>>

(* start_wayland() asks the compositor first: probe(), and create_context() *)
(* with the context's socket bound and guarded.  Their roundtrips have no   *)
(* deadline and do not look at `stop'.                                      *)
Probe ==
  /\ pc = "spawn" /\ This = "wayland" /\ "wayland" \in grants
  /\ \/ pc' = "probe" /\ UNCHANGED <<at, result>>
     \/ StartFails("failed")
  /\ UNCHANGED <<grants, stop, sidecarVars, kept, sandboxVars, misfired, early>>

Probed ==
  /\ pc = "probe"
  /\ \/ pc' = "context" /\ socks' = socks \cup {"wayland"} /\ UNCHANGED <<at, result>>
     \/ pc' = "listen" /\ UNCHANGED <<at, result, socks>>
     \/ StartFails("failed") /\ UNCHANGED socks
  /\ UNCHANGED <<grants, stop, side, said, ready, asked, dirs, kept, sandboxVars, misfired, early>>

ContextCreated ==
  /\ pc = "context"
  /\ \/ pc' = "listen" /\ UNCHANGED <<at, result, socks>>
     \/ StartFails("failed") /\ socks' = socks \ {"wayland"}
  /\ UNCHANGED <<grants, stop, side, said, ready, asked, dirs, kept, sandboxVars, misfired, early>>

(* The start_*() functions up to the handle.  The directory is made before *)
(* the process and belongs to nobody until there is one; the Wayland       *)
(* listener is bound before it and guarded.                                *)
SpawnSidecar(s) ==
  /\ pc = IF s = "wayland" THEN "listen" ELSE "spawn"
  /\ This = s /\ s \in grants
  /\ \/ /\ pc' = "ready"
        /\ side' = [side EXCEPT ![s] = "up"]
        /\ dirs' = dirs \cup ({s} \cap WithDir)
        /\ socks' = socks \cup ({s} \cap {"wayland"})
        /\ UNCHANGED <<at, result>>
     \/ /\ \E made \in {{}, {s} \cap WithDir} : dirs' = dirs \cup made
        /\ StartFails("failed") /\ socks' = socks \ {s}
        /\ UNCHANGED side
  /\ UNCHANGED <<grants, stop, said, ready, asked, kept, sandboxVars, misfired, early>>

StartProxy     == SpawnSidecar("dbus")
StartWayland   == SpawnSidecar("wayland")
StartPwContext == SpawnSidecar("pw")
StartPwPulse   == SpawnSidecar("pulse")
StartPasta     == SpawnSidecar("pasta")
StartNetProxy  == SpawnSidecar("netproxy")

(* A wait for sidecar `s' that sees its report, and one that ends without. *)
SawReady(s) ==
  /\ pc = "ready" /\ This = s /\ s \in said
  /\ ready' = ready \cup {s}
  /\ IF s \in WithDir THEN pc' = "adopt" /\ UNCHANGED at ELSE Advance
  /\ UNCHANGED <<grants, stop, side, said, asked, dirs, socks, kept, sandboxVars, result,
                 misfired, early>>

GaveUp(s, r) ==
  /\ pc = "ready" /\ This = s /\ s \notin said
  /\ StartFails(r)
  /\ side' = [side EXCEPT ![s] = IF @ = "zombie" THEN "gone" ELSE @]
  /\ UNCHANGED <<grants, stop, said, ready, asked, dirs, socks, kept, sandboxVars, misfired, early>>

(* wait_ready(): the ready byte wins over a stop, a stop over the deadline *)
(* and over the exit, which a Ctrl-C may have caused.                      *)
WaitReady ==
  \E s \in {"dbus", "wayland", "pasta", "netproxy"} : SawReady(s) \/ GaveUp(s, Failure)

(* read_report(): the holder's line is the readiness of the audio context. *)
ReadReport == SawReady("pw") \/ GaveUp("pw", Failure)

(* The loop on pulse's socket does not look at `stop' again after an exit. *)
WaitPulse ==
  \/ SawReady("pulse") \/ GaveUp("pulse", Failure)
  \/ side["pulse"] = "zombie" /\ GaveUp("pulse", "failed")

(* The socket is moved where its sidecar cannot reach it, then checked; a  *)
(* guard removes what was moved.                                           *)
Adopt(s) ==
  /\ pc = "adopt" /\ This = s
  /\ \/ socks' = socks \cup {s} /\ Advance /\ UNCHANGED result
     \/ StartFails("failed") /\ UNCHANGED socks
  /\ UNCHANGED <<grants, stop, side, said, ready, asked, dirs, kept, sandboxVars, misfired, early>>

AdoptProxyBus == Adopt("dbus")
AdoptSocket   == Adopt("pw") \/ Adopt("pulse")

(* The stop check between two sidecars.                                    *)
Gate ==
  /\ pc = "gate"
  /\ IF stop THEN Leave(Locals, "stopped") ELSE pc' = "spawn" /\ UNCHANGED <<at, result>>
  /\ UNCHANGED <<grants, stop, sidecarVars, kept, sandboxVars, misfired, early>>

-----------------------------------------------------------------------------
(* The terminal, the application's runtime directories and, for an egress  *)
(* proxy, the cgroup; create() leaves nothing when it fails.               *)
Prepare ==
  /\ pc = "prepare"
  /\ \/ /\ pc' = "argv"
        /\ kept' = kept \cup (IF "netproxy" \in grants THEN {"cgroup"} ELSE {})
        /\ UNCHANGED <<at, result>>
     \/ Leave(Locals, "failed") /\ UNCHANGED kept
  /\ UNCHANGED <<grants, stop, sidecarVars, sandboxVars, misfired, early>>

(* The argv is built and its destinations swept; then the last stop check  *)
(* before the spawn.                                                       *)
BuildArgv ==
  /\ pc = "argv"
  /\ \/ Leave(Locals, "failed")
     \/ stop /\ Leave(Locals, "stopped")
     \/ ~stop /\ pc' = "raw" /\ UNCHANGED <<at, result>>
  /\ UNCHANGED <<grants, stop, sidecarVars, kept, sandboxVars, misfired, early>>

RawMode ==
  /\ pc = "raw"
  /\ \/ /\ pc' = "bwrap"
        /\ kept' = kept \cup (IF "tty" \in grants THEN {"raw"} ELSE {})
        /\ UNCHANGED <<at, result>>
     \/ "tty" \in grants /\ Leave(Locals, "failed") /\ UNCHANGED kept
  /\ UNCHANGED <<grants, stop, sidecarVars, sandboxVars, misfired, early>>

(* An error with bwrap already spawned leaves by `?' and kills nothing.    *)
SpawnBwrap ==
  /\ pc = "bwrap"
  /\ \/ bwrap' = "up" /\ pc' = "info" /\ UNCHANGED <<at, result>>
     \/ bwrap' = "up" /\ Leave(Locals, "late")
     \/ Leave(Locals, "failed") /\ UNCHANGED bwrap
  /\ UNCHANGED <<grants, stop, sidecarVars, kept, box, block, wrote, info, rules, sup, told, misfired,
                 early>>

(* try_wait() reaps.                                                       *)
Reaped(p) == IF p = "zombie" THEN "gone" ELSE p

(* read_sandbox_info(): the document, or None at the deadline, at the end  *)
(* of the pipe or when bwrap has exited, whether it wrote it or not.       *)
ReadInfo ==
  /\ pc = "info"
  /\ \/ wrote /\ info' = TRUE /\ UNCHANGED bwrap
     \/ info' = FALSE /\ bwrap' = Reaped(bwrap)
  /\ pc' = "identity"
  /\ UNCHANGED <<at, grants, stop, sidecarVars, kept, box, block, wrote, rules, sup, told, result,
                 misfired, early>>

(* publish_identity() is never fatal.                                      *)
PublishIdentity ==
  /\ pc = "identity"
  /\ pc' = "network"
  /\ \/ "portals" \in grants /\ info /\ kept' = kept \cup {"identity"}
     \/ UNCHANGED kept
  /\ UNCHANGED <<at, grants, stop, sidecarVars, sandboxVars, result, misfired, early>>

(* start_network() begins with the namespaces of the reported pid; without *)
(* one, or when they are gone, there is nothing to connect.                *)
OpenNamespaces ==
  /\ pc = "network"
  /\ \/ ~Isolated /\ pc' = "hold" /\ UNCHANGED <<at, result>>
     \/ Isolated /\ info /\ box = "held" /\ pc' = "rules" /\ UNCHANGED <<at, result>>
     \/ Isolated /\ Leave(NetFailed, "failed")
  /\ UNCHANGED <<grants, stop, sidecarVars, kept, sandboxVars, misfired, early>>

(* install_rules(): nft is spawned, given the ruleset on a pipe, in a      *)
(* write without a deadline, then waited for and killed at its deadline;   *)
(* one that died of a signal during a stop is the stop.                    *)
SpawnNft ==
  /\ pc = "rules"
  /\ \/ "deny" \notin grants /\ pc' = "spawn" /\ at' = 5 /\ UNCHANGED result
     \/ "deny" \in grants /\ pc' = "feed" /\ UNCHANGED <<at, result>>
     \/ "deny" \in grants /\ Leave(NetFailed, "failed")
  /\ UNCHANGED <<grants, stop, sidecarVars, kept, sandboxVars, misfired, early>>

FeedRules ==
  /\ pc = "feed" /\ pc' = "nft"
  /\ UNCHANGED <<at, grants, stop, sidecarVars, kept, sandboxVars, result, misfired, early>>

InstallRules ==
  /\ pc = "nft"
  /\ \/ rules' = TRUE /\ pc' = "spawn" /\ at' = 5 /\ UNCHANGED result
     \/ (\E r \in {"failed", Failure} : Leave(NetFailed, r)) /\ UNCHANGED rules
  /\ UNCHANGED <<grants, stop, sidecarVars, kept, bwrap, box, block, wrote, info, sup, told,
                 misfired, early>>

(* The box goes past --block-fd; with bwrap dead nothing will end it.      *)
LetGo == IF box # "held" THEN box
         ELSE IF bwrap = "up" THEN "running" ELSE "stray"

(* Mutant: the wait loop is left to see the stop.                          *)
LastCheckSkipped ==
  /\ pc = "hold" /\ pc' = "release"
  /\ UNCHANGED <<at, grants, stop, sidecarVars, kept, sandboxVars, result, misfired, early>>

(* The last stop check, with the sandbox still held.                       *)
LastCheck ==
  /\ pc = "hold"
  /\ \/ ~Held /\ pc' = "supervisor" /\ UNCHANGED <<at, result>>
     \/ Held /\ stop /\ Leave(Abort, "stopped")
     \/ Held /\ ~stop /\ pc' = "release" /\ UNCHANGED <<at, result>>
  /\ UNCHANGED <<grants, stop, sidecarVars, kept, sandboxVars, misfired, early>>

(* release_block(), whatever has been raised since.                        *)
Release ==
  /\ pc = "release"
  /\ box' = LetGo /\ block' = FALSE /\ pc' = "supervisor"
  /\ UNCHANGED <<at, grants, stop, sidecarVars, kept, bwrap, wrote, info, rules, sup, told,
                 result, misfired, early>>

(* supervisor_pid(): the reaper's first child, once it has become the      *)
(* supervisor; None at the deadline or when bwrap has exited.              *)
FindSupervisor ==
  /\ pc = "supervisor"
  /\ pc' = "sink"
  /\ \/ info /\ box \in {"running", "orphan", "stray"} /\ sup' = TRUE /\ UNCHANGED bwrap
     \/ sup' = FALSE /\ bwrap' = Reaped(bwrap)
  /\ UNCHANGED <<at, grants, stop, sidecarVars, kept, box, block, wrote, info, rules, told, result,
                 misfired, early>>

(* null_stdio(), or the relay of the wait below failing: another `?'.      *)
LateError ==
  /\ pc \in {"sink", "wait"}
  /\ Leave(Locals, "late")
  /\ UNCHANGED <<grants, stop, sidecarVars, kept, sandboxVars, misfired, early>>

Sink ==
  /\ pc = "sink"
  /\ pc' = "wait"
  /\ UNCHANGED <<at, grants, stop, sidecarVars, kept, sandboxVars, result, misfired, early>>

(* Mutant: the run leaves as soon as it has forwarded a stop.              *)
CheckExitLeaves ==
  /\ pc = "wait"
  /\ bwrap \in {"zombie", "gone"} \/ stop
  /\ told' = IF stop THEN told \cup {IF sup THEN "supervisor" ELSE "bwrap"} ELSE told
  /\ Leave(Locals, "exited")
  /\ UNCHANGED <<grants, stop, sidecarVars, kept, bwrap, box, block, wrote, info, rules, sup,
                 misfired, early>>

(* Mutant: a stop is forwarded only where the supervisor was found.        *)
CheckExitSupervisorOnly ==
  /\ pc = "wait"
  /\ \/ bwrap \in {"zombie", "gone"} /\ Leave(Locals, "exited") /\ UNCHANGED <<stop, told>>
     \/ /\ bwrap = "up"
        /\ stop' = FALSE
        /\ told' = IF stop /\ sup THEN told \cup {"supervisor"} ELSE told
        /\ UNCHANGED <<pc, at, result>>
  /\ UNCHANGED <<grants, sidecarVars, kept, bwrap, box, block, wrote, info, rules, sup, misfired,
                 early>>

(* check_exit(): bwrap's exit ends the wait; otherwise the network         *)
(* sidecars are looked at, and a stop is taken and forwarded, to the       *)
(* supervisor where it was found and to bwrap where it was not.            *)
CheckExit ==
  /\ pc = "wait"
  /\ \/ /\ bwrap \in {"zombie", "gone"}
        /\ bwrap' = "gone"
        /\ Leave(Locals, "exited")
        /\ UNCHANGED <<side, stop, told>>
     \/ /\ bwrap = "up"
        /\ side' = [s \in Sidecars |-> IF s \in Network THEN Reaped(side[s]) ELSE side[s]]
        /\ stop' = FALSE
        /\ told' = IF stop THEN told \cup {IF sup THEN "supervisor" ELSE "bwrap"} ELSE told
        /\ UNCHANGED <<pc, at, bwrap, result>>
  /\ UNCHANGED <<grants, said, ready, asked, dirs, socks, kept, box, block, wrote, info, rules, sup,
                 misfired, early>>

(* A detach ends the relay, not the run, and gives the terminal back.      *)
Detach ==
  /\ pc = "wait" /\ "raw" \in kept
  /\ kept' = kept \ {"raw"}
  /\ UNCHANGED <<pc, at, grants, stop, sidecarVars, sandboxVars, result, misfired, early>>

-----------------------------------------------------------------------------
Step == DropSteps[at]

(* The next step of the unwinding; the run is over after the last.         *)
DropNext == IF at = Len(DropSteps) THEN pc' = "done" /\ UNCHANGED at
            ELSE pc' = "drop" /\ at' = at + 1

(* What goes with a handle whose process is gone: its directory, and the   *)
(* socket its guard holds (the buses' guards are locals of their own).     *)
Cleared(s) ==
  /\ dirs' = IF side[s] = "none" THEN dirs ELSE dirs \ {s}
  /\ socks' = IF s = "dbus" THEN socks ELSE socks \ {s}

StillRunning(s) == side[s] = "up"

(* The handles' Drop.  A sidecar that has exited is reaped and not         *)
(* signalled (still_running()); the others are asked to end, dbus by its   *)
(* closed pipe, and waited for until the deadline, when they are SIGKILLed *)
(* and waited for.                                                         *)
DropSidecar(s) ==
  /\ Step = s
  /\ \/ /\ pc = "drop" /\ StillRunning(s)
        /\ asked' = asked \cup {s}
        /\ misfired' = (misfired \/ side[s] = "gone")
        /\ pc' = "stopping"
        /\ UNCHANGED <<at, side, dirs, socks>>
     \/ /\ pc = "drop" /\ ~StillRunning(s)
        /\ side' = [side EXCEPT ![s] = Reaped(@)]
        /\ Cleared(s)
        /\ DropNext
        /\ UNCHANGED <<asked, misfired>>
     \/ /\ pc = "stopping"
        /\ side' = [side EXCEPT ![s] = "gone"]
        /\ Cleared(s)
        /\ DropNext
        /\ UNCHANGED <<asked, misfired>>
  /\ UNCHANGED <<grants, stop, said, ready, kept, sandboxVars, result, early>>

DropProxy    == DropSidecar("dbus")
DropWayland  == DropSidecar("wayland")
DropPw       == DropSidecar("pw")
DropPulse    == DropSidecar("pulse")
DropPasta    == DropSidecar("pasta")
DropNetProxy == DropSidecar("netproxy")

(* abort_sandbox(): the sandbox by its pid, where it is known, then bwrap. *)
(* A bwrap the stop has already killed makes the outcome the stop's.       *)
AbortSandbox ==
  /\ pc = "drop" /\ Step = "abort"
  /\ box' = IF info /\ box # "none" THEN "dead" ELSE box
  /\ bwrap' = "gone"
  /\ result' = IF stop /\ bwrap # "up" THEN "stopped" ELSE result
  /\ DropNext
  /\ UNCHANGED <<grants, stop, sidecarVars, kept, block, wrote, info, rules, sup, told, misfired,
                 early>>

(* FlatpakGuard, RawGuard and the control socket's FileGuard.              *)
DropGuard(g) ==
  /\ pc = "drop" /\ Step = g
  /\ kept' = kept \ {g}
  /\ DropNext
  /\ UNCHANGED <<grants, stop, sidecarVars, sandboxVars, result, misfired, early>>

(* SandboxCgroup.release(): rmdir succeeds once no process is left in the  *)
(* leaves, and is given up at the deadline.                                *)
ReleaseCgroup ==
  /\ pc = "drop" /\ Step = "cgroup"
  /\ \/ box \in {"none", "dead"} /\ side["netproxy"] # "up" /\ kept' = kept \ {"cgroup"}
     \/ box \notin {"none", "dead"} /\ UNCHANGED kept
  /\ DropNext
  /\ UNCHANGED <<grants, stop, sidecarVars, sandboxVars, result, misfired, early>>

DropBuses ==
  /\ pc = "drop" /\ Step = "buses"
  /\ socks' = socks \ {"dbus"}
  /\ DropNext
  /\ UNCHANGED <<grants, stop, side, said, ready, asked, dirs, kept, sandboxVars, result,
                 misfired, early>>

(* The allocator holds the write end of the block pipe: closing it         *)
(* releases the sandbox just as the byte does.                             *)
DropAlloc ==
  /\ pc = "drop" /\ Step = "alloc"
  /\ box' = LetGo /\ block' = FALSE
  /\ DropNext
  /\ UNCHANGED <<grants, stop, sidecarVars, kept, bwrap, wrote, info, rules, sup, told,
                 result, misfired, early>>

-----------------------------------------------------------------------------
(* The world outside bubbler.                                              *)
StopSignal ==
  /\ pc \notin {"bind", "done"} /\ ~stop
  /\ stop' = TRUE
  /\ early' = (early \/ pc \notin {"release", "supervisor", "sink", "wait"} \cup Unwound)
  /\ UNCHANGED <<pc, at, grants, sidecarVars, kept, sandboxVars, result, misfired>>

SidecarReports(s) ==
  /\ side[s] = "up" /\ s \notin said
  /\ said' = said \cup {s}
  /\ UNCHANGED <<pc, at, grants, stop, side, ready, asked, dirs, socks, kept, sandboxVars,
                 result, misfired, early>>

SidecarExits(s) ==
  /\ side[s] = "up"
  /\ side' = [side EXCEPT ![s] = "zombie"]
  /\ UNCHANGED <<pc, at, grants, stop, said, ready, asked, dirs, socks, kept, sandboxVars,
                 result, misfired, early>>

(* bwrap makes the sandbox's process, which stops at --block-fd if it was  *)
(* given one and nobody has let go of it, and reports its pid.             *)
BwrapSetsUp ==
  /\ bwrap = "up" /\ box = "none"
  /\ box' = IF Held /\ block THEN "held" ELSE "running"
  /\ wrote' = TRUE
  /\ UNCHANGED <<pc, at, grants, stop, sidecarVars, kept, bwrap, block, info, rules, sup, told,
                 result, misfired, early>>

(* bwrap exits with the sandbox, is killed, or dies with bubbler.  A box   *)
(* still held stays where it is.                                           *)
BwrapDies ==
  /\ bwrap = "up"
  /\ bwrap' = "zombie"
  /\ box' = IF box = "running" THEN "orphan" ELSE box
  /\ UNCHANGED <<pc, at, grants, stop, sidecarVars, kept, block, wrote, info, rules, sup, told,
                 result, misfired, early>>

(* The sandbox ends by itself, on SIGTERM to its supervisor, or killed.    *)
BoxEnds ==
  /\ box \in {"held", "running", "orphan", "stray"}
  /\ box' = "dead"
  /\ UNCHANGED <<pc, at, grants, stop, sidecarVars, kept, bwrap, block, wrote, info, rules, sup, told,
                 result, misfired, early>>

-----------------------------------------------------------------------------
StartSidecars == SkipSidecar \/ Probe \/ StartProxy \/ StartWayland \/ StartPwContext
                 \/ StartPwPulse \/ StartPasta \/ StartNetProxy \/ WaitReady \/ ReadReport \/ WaitPulse
                 \/ AdoptProxyBus \/ AdoptSocket \/ Gate

Starting == Bind \/ Resolve \/ StartSidecars
            \/ Prepare \/ BuildArgv \/ RawMode \/ SpawnBwrap \/ ReadInfo \/ PublishIdentity
            \/ OpenNamespaces \/ SpawnNft \/ InstallRules \/ LastCheck \/ Release
            \/ FindSupervisor \/ Sink

Unwinding == DropProxy \/ DropWayland \/ DropPw \/ DropPulse \/ DropPasta \/ DropNetProxy
             \/ AbortSandbox \/ ReleaseCgroup \/ DropBuses \/ DropAlloc
             \/ DropGuard("identity") \/ DropGuard("raw") \/ DropGuard("socket")

Bubbler == Starting \/ CheckExit \/ Unwinding

(* What the run waits for with no deadline: the compositor, and a write to *)
(* an nft that need not read it.                                           *)
Undated == {"probe", "context", "feed"}
Answered == Probed \/ ContextCreated \/ FeedRules

Outside == StopSignal \/ BwrapSetsUp \/ BwrapDies \/ BoxEnds
           \/ \E s \in Sidecars : SidecarReports(s) \/ SidecarExits(s)

Ended == pc = "done" /\ UNCHANGED vars

Next == Bubbler \/ Answered \/ LateError \/ Detach \/ Outside \/ Ended

(* bubbler is scheduled and its waits have deadlines, but for those of     *)
(* Undated, which nothing ends; the supervisor ends the box when told to   *)
(* (Supervisor!StopEnds), bwrap exits on SIGTERM and after the sandbox.    *)
Fairness ==
  /\ WF_vars(Bubbler)
  /\ WF_vars("supervisor" \in told /\ BoxEnds)
  /\ WF_vars("bwrap" \in told /\ BwrapDies)
  /\ WF_vars(box = "dead" /\ BwrapDies)

Spec == Init /\ [][Next]_vars
FairSpec == Spec /\ Fairness

-----------------------------------------------------------------------------
Runs == box \in {"running", "orphan", "stray"}  \* the application is let go

TypeOK ==
  /\ pc \in Locations
  /\ at \in 1..Len(DropSteps)
  /\ grants \in Configs
  /\ stop \in BOOLEAN
  /\ side \in [Sidecars -> ProcessState]
  /\ said \in SUBSET Sidecars /\ ready \in SUBSET Sidecars /\ asked \in SUBSET Sidecars
  /\ dirs \in SUBSET Sidecars /\ socks \in SUBSET Sidecars
  /\ kept \in SUBSET {"socket", "cgroup", "raw", "identity"}
  /\ bwrap \in ProcessState
  /\ box \in BoxState
  /\ block \in BOOLEAN /\ wrote \in BOOLEAN
  /\ info \in BOOLEAN /\ rules \in BOOLEAN /\ sup \in BOOLEAN
  /\ told \in SUBSET {"supervisor", "bwrap"}
  /\ result \in {"none", "stopped", "failed", "late", "exited"}
  /\ misfired \in BOOLEAN /\ early \in BOOLEAN

(* start_network(): "at no point is the sandbox both connected and         *)
(* unfiltered": a denied network has its ruleset before pasta exists.      *)
RulesBeforeRoute == "deny" \in grants /\ side["pasta"] # "none" => rules

(* Nothing of the application runs before every sidecar it was granted has *)
(* reported and every ruleset is in place; only a run that never learnt    *)
(* the pid of an isolated sandbox, or that fails right after the spawn,    *)
(* lets the pipe go without them.                                          *)
GrantedBeforeRelease ==
  Runs /\ (Isolated => info) /\ result # "late" =>
    grants \cap Sidecars \subseteq ready /\ ("deny" \in grants => rules)

(* Every handle "must outlive the sandbox that uses the socket": while the *)
(* sandbox runs under bwrap no sidecar has been told to end, except by the *)
(* errors that leave start_and_wait() with `?' after the spawn.            *)
SidecarsOutliveSandbox == box = "running" /\ result # "late" => asked = {}

(* The PulseAudio server is a client of the PipeWire context and is        *)
(* dropped first, the egress proxy lives in the cgroup and goes before it. *)
ClientsGoFirst ==
  /\ "pw" \in asked => side["pulse"] \in {"none", "gone"}
  /\ "cgroup" \in kept \/ side["netproxy"] \in {"none", "gone"}

(* However the run leaves, nothing of it is left: every sidecar is reaped, *)
(* every socket and guard gone, and a directory remains only of a sidecar  *)
(* that could not be spawned, the cgroup only where a process outlived the *)
(* run.                                                                    *)
NothingLeft ==
  pc = "done" =>
    /\ \A s \in Sidecars : side[s] \in {"none", "gone"} /\ (s \in dirs => side[s] = "none")
    /\ socks = {}
    /\ kept \subseteq {"cgroup"} /\ (box = "none" => kept = {})

(* still_running(): no sidecar's pid is signalled after it was reaped, by  *)
(* the wait for its readiness or by the run's own check.                   *)
NoStraySignal == ~misfired

(* A run that gave up, for a stop or for a sidecar, has not let the        *)
(* application run, now or when the block pipe closes at its end, if it    *)
(* knew the sandbox's pid.                                                 *)
AbortedNeverRuns ==
  result \in {"stopped", "failed"} /\ info => ~Runs

(* A stop that came before the run's last look for one ends the start: the *)
(* held application never begins, neither by the release nor by the        *)
(* closing pipe, "rather than letting the application begin only to stop   *)
(* it".  Between that look and the release one may still come, and is      *)
(* forwarded like any later one (StopEnds).                                *)
StopBeatsRelease == Held /\ early /\ info /\ result # "late" => ~Runs

(* The application is let go at the right moment or not at all: rules      *)
(* before the route, every grant before the release, and nothing after a   *)
(* run that gave up (start_and_wait()).                                    *)
StartGated == RulesBeforeRoute /\ GrantedBeforeRelease /\ AbortedNeverRuns /\ StopBeatsRelease

(* The unwinding takes everything away, in an order its users survive      *)
(* (the guards start_and_wait() holds).                                    *)
TornDown == SidecarsOutliveSandbox /\ ClientsGoFirst /\ NothingLeft /\ NoStraySignal

(* A stop signal ends the run: it is seen by a readiness wait, by a check  *)
(* between two steps, or forwarded by the wait loop, and never lost        *)
(* between them; or the run waits for good for a compositor that does not  *)
(* answer or an nft that does not read, its sandbox not begun.             *)
StopEnds == stop ~> (pc = "done" \/ [](pc \in Undated /\ ~Runs))

-----------------------------------------------------------------------------
(* The inductive invariant behind the safety properties, in five parts.    *)
StartingUp == {"spawn", "probe", "context", "listen", "ready", "adopt", "gate"}
Connecting == \/ pc \in {"network", "rules", "feed", "nft", "hold", "release"}
              \/ pc \in {"spawn", "ready"} /\ at >= 5
BeforeBwrap == \/ pc \in {"bind", "resolve", "probe", "context", "listen", "gate", "adopt",
                         "prepare", "argv", "raw", "bwrap"}
               \/ pc \in {"spawn", "ready"} /\ at <= 4

(* Where each location of the start and the unwinding leaves `at', and     *)
(* that an outcome is what an unwinding has.                               *)
Position ==
  /\ pc \in {"bind", "resolve"} => at = 1
  /\ pc \in {"spawn", "ready"} => at \in 1..6
  /\ pc \in {"probe", "context", "listen"} => at = 2 /\ "wayland" \in grants
  /\ pc = "adopt" => at \in {1, 3, 4}
  /\ pc = "gate" => at \in 2..4
  /\ pc = "stopping" => Step \in Sidecars /\ side[Step] # "none"
  /\ pc \in Unwound <=> result # "none"
  /\ result = "none" => asked = {}
  /\ Connecting /\ pc \notin {"hold", "network", "release"} => Isolated
  /\ pc = "release" => Held

(* What has been started and seen ready at each point of the start.        *)
Progress ==
  /\ \A s \in Sidecars : side[s] # "none" => s \in grants
  /\ pc \in StartingUp => \A i \in 1..(at - 1) : Starts[i] \in grants => Starts[i] \in ready
  /\ pc = "adopt" => This \in ready
  /\ pc \in {"prepare", "argv", "raw", "bwrap"} \/ bwrap # "none" =>
       grants \cap (Sidecars \ Network) \subseteq ready
  /\ pc \in {"hold", "release", "supervisor", "sink", "wait"} \/ result = "exited" =>
       /\ grants \cap Sidecars \subseteq ready
       /\ "deny" \in grants => rules
  /\ pc \in {"spawn", "ready"} /\ at >= 5 /\ "deny" \in grants => rules
  /\ RulesBeforeRoute
  /\ pc \in {"argv", "raw", "bwrap", "info", "identity", "supervisor", "sink", "wait"} \/ Connecting =>
       ("netproxy" \in grants => "cgroup" \in kept)

(* What the sandbox's two processes can be at each point.                  *)
Containment ==
  /\ BeforeBwrap => bwrap = "none" /\ ~info /\ block
  /\ pc = "info" => ~info
  /\ bwrap = "none" => box = "none"
  /\ box = "none" => ~wrote
  /\ info => wrote
  /\ box = "running" => bwrap = "up"
  /\ pc \in {"info", "identity"} \/ Connecting =>
       bwrap # "none" /\ block /\ (Held => box \in {"none", "held", "dead"})
  /\ pc \in {"drop", "stopping"} /\ at <= Abort =>
       /\ result \in {"stopped", "failed"} /\ Held
       /\ bwrap # "none" /\ block /\ box \in {"none", "held", "dead"}
  /\ result \in {"stopped", "failed"} /\ (pc = "done" \/ at > Abort) =>
       bwrap \in {"none", "gone"} /\ (info => box = "dead")
  /\ result = "exited" => bwrap = "gone" /\ (Held => ~block)
  /\ ~block => box # "held"
  /\ ~Held => box # "held"
  /\ Held /\ pc \in {"supervisor", "sink", "wait"} => ~block

(* What a finished step of the unwinding has left behind.                  *)
Undone(x) ==
  IF x \in Sidecars
  THEN /\ side[x] \in {"none", "gone"}
       /\ x \in dirs => side[x] = "none"
       /\ x # "dbus" => x \notin socks
  ELSE IF x = "buses" THEN "dbus" \notin socks
  ELSE IF x = "cgroup" THEN box = "none" => "cgroup" \notin kept
  ELSE x \notin kept

Undoing ==
  /\ pc = "bind" => kept = {} /\ dirs = {} /\ socks = {} /\ side = [s \in Sidecars |-> "none"]
  /\ pc \in {"drop", "stopping"} => \A i \in Locals..(at - 1) : Undone(DropSteps[i])
  /\ pc = "done" => \A i \in Locals..Len(DropSteps) : Undone(DropSteps[i])
  /\ ClientsGoFirst

(* A stop that came early is still pending, and no run that let the        *)
(* application go has one.                                                 *)
Pending ==
  Held /\ early => /\ result # "exited"
                   /\ result = "none" =>
                        stop /\ pc \notin {"release", "supervisor", "sink", "wait"}

LauncherInv == Position /\ Progress /\ Containment /\ Undoing /\ Pending

=============================================================================
