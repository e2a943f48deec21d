----------------------------- MODULE Supervisor -----------------------------
(***************************************************************************)
(* bubbler-init, the supervisor inside a sandbox                           *)
(* (crates/bubbler-init/src/main.rs).  One thread runs the command, serves *)
(* exec requests on the control socket, wakes the nested X server on the   *)
(* first display client and ends the run on a signal, on the server's      *)
(* death or when the command exits.                                        *)
(*                                                                         *)
(* The loop of main() is one step per group of statements between which    *)
(* the outside world can interfere: a child exits, a client writes or      *)
(* hangs up, a signal sets the flag, the clock ticks.  Deadlines are kept  *)
(* as the number of ticks left, so `Instant::now() >= at' is `left = 0'.   *)
(*                                                                         *)
(* Connections are numbered in the order they reach the listening socket,  *)
(* which is the order accept() returns them in: the oldest pending         *)
(* connection is the smallest number.                                      *)
(***************************************************************************)
EXTENDS Integers, FiniteSets

CONSTANTS
  Cmd, Server, Wm, \* the instance's command, the nested X server, its window manager
  NConns,          \* connections made to the control socket in a run (bound)
  MaxPending,      \* MAX_PENDING: connections whose request is still arriving
  Grace,           \* GRACE: ticks between SIGTERM and SIGKILL
  RequestTimeout,  \* REQUEST_TIMEOUT: ticks a whole request may take
  HasX11,          \* --x11 was given
  HasWm            \* --wm was given

ASSUME ConstantsAssumption ==
  /\ NConns \in Nat
  /\ MaxPending \in Nat \ {0}
  /\ Grace \in Nat \ {0}
  /\ RequestTimeout \in Nat \ {0}
  /\ HasX11 \in BOOLEAN
  /\ HasWm \in BOOLEAN
  /\ Cmd # Server /\ Cmd # Wm /\ Server # Wm
  /\ {Cmd, Server, Wm} \cap Int = {}

Conns    == 1..NConns
Children == {Cmd, Server, Wm} \cup Conns  \* an exec'd child is named by its connection
Unset    == -1                            \* no deadline

VARIABLES
  pc,         \* where the thread is in main()
  child,      \* what the kernel knows of each child
  termed,     \* children sent SIGTERM while up
  killed,     \* children sent SIGKILL while up
  execs,      \* Vec<Exec>: connections waiting for a child's status
  pending,    \* Vec<Pending>: accepted, request not whole yet
  left,       \* ticks left of each pending deadline
  stop,       \* the AtomicBool the four signal handlers set
  asked,      \* Stopping.asked
  killAt,     \* Stopping.kill_at, as ticks left
  waitLeft,   \* ticks left of the grace shutdown()/stop_child() is waiting out
  started,    \* X11.started
  xqueue,     \* a display client is waiting in the X11 socket's queue
  polled,     \* what poll() reported, until the iteration has used it
  came,       \* connections that have reached the listening socket
  taken,      \* connections accepted
  wire,       \* what a client has written of its request
  hung,       \* clients that closed their end
  answer,     \* what the supervisor did with each connection
  exit,       \* exit code of the supervisor: whose it is
  stopAge,    \* history: ticks since the run was first asked to end
  stopAtPoll  \* history: the flag was already set when poll() returned

loopVars   == <<execs, pending, left, asked, killAt, waitLeft, started, polled, taken>>
kernelVars == <<child, termed, killed>>
clientVars == <<came, wire, hung>>
vars == <<pc, child, termed, killed, execs, pending, left, stop, asked, killAt,
          waitLeft, started, xqueue, polled, came, taken, wire, hung, answer,
          exit, stopAge, stopAtPoll>>

ChildState == {"none", "up", "zombie", "gone"}
Locations  == {"start", "wait", "x11", "reap", "poll", "stop", "wake", "read", "accept",
               "shutdown", "grace", "killwait", "wm", "wmgrace", "wmwait", "server",
               "servergrace", "serverwait", "done"}
Nothing(ok) == [ok |-> ok, accept |-> FALSE, wake |-> FALSE, ready |-> {}]

Newest(S, n) == {c \in S : Cardinality({d \in S : d > c}) < n}
Up         == {p \in Children : child[p] = "up"}
Zombies    == {p \in Children : child[p] = "zombie"}

(* kill(2) reaches whoever of S has not exited.                            *)
Term(S) == termed' = termed \cup (S \cap Up)
Kill(S) == killed' = killed \cup (S \cap Up)

(* SIGTERM to the command and every exec'd child, and the first deadline   *)
(* is the deadline.                                                        *)
BeginStop ==
  /\ Term({Cmd} \cup execs)
  /\ asked' = TRUE
  /\ killAt' = IF killAt = Unset THEN Grace ELSE killAt

(* reap(): answer and drop every connection whose child has exited.        *)
Reaped     == execs \cap Zombies
ReapInto(q) == [p \in Children |-> IF p \in Reaped \cup q THEN "gone" ELSE child[p]]
Reap ==
  /\ execs' = execs \ Reaped
  /\ answer' = [c \in Conns |-> IF c \in Reaped THEN "status" ELSE answer[c]]

Init ==
  /\ pc = "start"
  /\ child = [p \in Children |-> "none"]
  /\ termed = {} /\ killed = {}
  /\ execs = {} /\ pending = {}
  /\ left = [c \in Conns |-> 0]
  /\ stop = FALSE /\ asked = FALSE
  /\ killAt = Unset /\ waitLeft = 0
  /\ started = FALSE /\ xqueue = FALSE
  /\ polled = Nothing(TRUE)
  /\ came = 0 /\ taken = 0
  /\ wire = [c \in Conns |-> "none"]
  /\ hung = {}
  /\ answer = [c \in Conns |-> "none"]
  /\ exit = "none"
  /\ stopAge = 0 /\ stopAtPoll = FALSE

-----------------------------------------------------------------------------
(* main() up to the loop: arguments, descriptor sweep, listener, hardening, *)
(* signal handlers and the display socket each end it with code 2; a       *)
(* command that cannot be spawned ends it with 127.                        *)
StartUp ==
  /\ pc = "start"
  /\ pc' = "wait"
  /\ child' = [child EXCEPT ![Cmd] = "up"]
  /\ UNCHANGED <<termed, killed, stop, xqueue, answer, exit, stopAge, stopAtPoll,
                 loopVars, clientVars>>

(* Process exit closes the listener and every connection still open.       *)
CloseAll == answer' = [c \in Conns |-> IF answer[c] = "none" /\ c <= came
                                       THEN "closed" ELSE answer[c]]

StartFails ==
  /\ pc = "start"
  /\ pc' = "done"
  /\ exit' \in {"usage", "notrun"}
  /\ CloseAll
  /\ UNCHANGED <<kernelVars, stop, xqueue, stopAge, stopAtPoll, loopVars, clientVars>>

(* The command's own exit ends the loop: reap, then shutdown() signals     *)
(* what is left.                                                           *)
WaitCommand ==
  /\ pc = "wait"
  /\ IF child[Cmd] = "zombie"
     THEN /\ Reap
          /\ child' = ReapInto({Cmd})
          /\ pc' = "shutdown"
     ELSE /\ pc' = "x11"
          /\ UNCHANGED <<child, execs, answer>>
  /\ UNCHANGED <<termed, killed, pending, left, stop, asked, killAt, waitLeft, started,
                 xqueue, polled, taken, exit, stopAge, stopAtPoll, clientVars>>

(* A server that exits takes the display with it and ends the run; a       *)
(* window manager that exits is only dropped.                              *)
CheckX11 ==
  /\ pc = "x11"
  /\ pc' = "reap"
  /\ child' = [p \in Children |->
                 IF p \in {Server, Wm} \cap Zombies THEN "gone" ELSE child[p]]
  /\ IF child[Server] = "zombie"
     THEN BeginStop
     ELSE UNCHANGED <<termed, asked, killAt>>
  /\ UNCHANGED <<killed, execs, pending, left, stop, waitLeft, started, xqueue, polled,
                 taken, answer, exit, stopAge, stopAtPoll, clientVars>>

(* Mutant: the deadline reaches the exec'd children but not the command.   *)
ReapAndKillExecs ==
  /\ pc = "reap"
  /\ pc' = "poll"
  /\ Reap
  /\ child' = ReapInto({})
  /\ IF killAt = 0
     THEN Kill(execs \ Reaped) /\ killAt' = Unset
     ELSE UNCHANGED <<killed, killAt>>
  /\ UNCHANGED <<termed, pending, left, stop, asked, waitLeft, started, xqueue, polled,
                 taken, exit, stopAge, stopAtPoll, clientVars>>

(* reap(), then SIGKILL for whatever outlived the grace.                   *)
ReapAndKill ==
  /\ pc = "reap"
  /\ pc' = "poll"
  /\ Reap
  /\ child' = ReapInto({})
  /\ IF killAt = 0
     THEN Kill({Cmd} \cup (execs \ Reaped)) /\ killAt' = Unset
     ELSE UNCHANGED <<killed, killAt>>
  /\ UNCHANGED <<termed, pending, left, stop, asked, waitLeft, started, xqueue, polled,
                 taken, exit, stopAge, stopAtPoll, clientVars>>

Waking == HasX11 /\ ~started /\ ~asked

(* poll() over the listener, the display socket while nothing serves it    *)
(* and every half-read request.  It returns within a tick; an error is a   *)
(* signal's EINTR, and reports nothing.                                    *)
Poll ==
  /\ pc = "poll"
  /\ pc' = "stop"
  /\ \/ polled' = [ok     |-> TRUE,
                   accept |-> taken < came,
                   wake   |-> Waking /\ xqueue,
                   ready  |-> {c \in pending : wire[c] # "none" \/ c \in hung}]
     \/ stop /\ polled' = Nothing(FALSE)
  /\ stopAtPoll' = stop
  /\ UNCHANGED <<kernelVars, execs, pending, left, stop, asked, killAt, waitLeft, started,
                 xqueue, taken, answer, exit, stopAge, clientVars>>

(* The flag is taken here and nowhere else, before anything poll reported. *)
TakeStop ==
  /\ pc = "stop"
  /\ stop' = FALSE
  /\ IF stop THEN BeginStop ELSE UNCHANGED <<termed, asked, killAt>>
  /\ pc' = IF polled.ok THEN "wake" ELSE "wait"
  /\ UNCHANGED <<child, killed, execs, pending, left, waitLeft, started, xqueue, polled,
                 taken, answer, exit, stopAge, stopAtPoll, clientVars>>

(* Mutant: a wake already in hand is honoured although the stop came first. *)
WakeX11WhileStopping ==
  /\ pc = "wake"
  /\ pc' = "read"
  /\ IF polled.wake
     THEN /\ started' = TRUE
          /\ child' = [child EXCEPT ![Server] = "up"]
     ELSE UNCHANGED <<started, child>>
  /\ UNCHANGED <<termed, asked, killAt, killed, execs, pending, left, stop, waitLeft, xqueue,
                 polled, taken, answer, exit, stopAge, stopAtPoll, clientVars>>

(* The first display client starts the server and the window manager with  *)
(* it; a server that cannot be started ends the run.                       *)
WakeX11 ==
  /\ pc = "wake"
  /\ pc' = "read"
  /\ IF polled.wake /\ ~asked
     THEN /\ started' = TRUE
          /\ \/ /\ \E wmUp \in {FALSE, HasWm} :
                     child' = [child EXCEPT ![Server] = "up",
                                            ![Wm] = IF wmUp THEN "up" ELSE @]
                /\ UNCHANGED <<termed, asked, killAt>>
             \/ BeginStop /\ UNCHANGED child
     ELSE UNCHANGED <<started, child, termed, asked, killAt>>
  /\ UNCHANGED <<killed, execs, pending, left, stop, waitLeft, xqueue, polled, taken,
                 answer, exit, stopAge, stopAtPoll, clientVars>>


(* read_step() on every connection poll() reported, reading whatever is    *)
(* there now, then serve() for each whole request: spawn it, or refuse it  *)
(* with a status when the run is ending or the program cannot be executed. *)
(* A malformed request, or a hang-up before the end of one, is dropped.    *)
Whole(c)    == wire[c] \in {"good", "noexec"}
Broken(c)   == wire[c] = "bad" \/ (wire[c] \in {"none", "part"} /\ c \in hung)
SpawnsWhileStopping(c) == wire[c] = "good"  \* mutant: serve() ignores `stopping'
Spawns(c)   == wire[c] = "good" /\ ~asked
Served      == {c \in polled.ready : Whole(c)}
Spawned     == {c \in polled.ready : Spawns(c)}
Dropped     == {c \in polled.ready : Broken(c)}

ReadPending ==
  /\ pc = "read"
  /\ pc' = "accept"
  /\ pending' = pending \ (Served \cup Dropped)
  /\ execs' = execs \cup Spawned
  /\ child' = [p \in Children |-> IF p \in Spawned THEN "up" ELSE child[p]]
  /\ answer' = [c \in Conns |-> IF c \in Served \ Spawned THEN "refused"
                              ELSE IF c \in Dropped THEN "closed" ELSE answer[c]]
  /\ UNCHANGED <<termed, killed, left, stop, asked, killAt, waitLeft, started, xqueue,
                 polled, taken, exit, stopAge, stopAtPoll, clientVars>>

(* Connections out of time are dropped, then the listener is drained: each *)
(* accepted connection makes room by dropping the oldest.                  *)
InTime   == {c \in pending : left[c] > 0}
Arrivals == IF polled.accept THEN (taken + 1)..came ELSE {}
Evicted  == (InTime \cup Arrivals) \ Newest(InTime \cup Arrivals, MaxPending)

Accept ==
  /\ pc = "accept"
  /\ pc' = "wait"
  /\ pending' = (InTime \cup Arrivals) \ Evicted
  /\ left' = [c \in Conns |-> IF c \in Arrivals THEN RequestTimeout ELSE left[c]]
  /\ taken' = IF polled.accept THEN came ELSE taken
  /\ answer' = [c \in Conns |-> IF c \in pending \ InTime THEN "expired"
                              ELSE IF c \in Evicted THEN "evicted" ELSE answer[c]]
  /\ polled' = Nothing(TRUE)
  /\ stopAtPoll' = FALSE
  /\ UNCHANGED <<kernelVars, execs, stop, asked, killAt, waitLeft, started, xqueue, exit,
                 stopAge, clientVars>>

-----------------------------------------------------------------------------
(* Mutant: the exec'd children are asked to end but not waited for.        *)
ShutdownNoWait ==
  /\ pc = "shutdown"
  /\ pc' = "wm"
  /\ Term(execs)
  /\ UNCHANGED <<waitLeft, child, killed, execs, pending, left, stop, asked, killAt, started,
                 xqueue, polled, taken, answer, exit, stopAge, stopAtPoll, clientVars>>

(* shutdown(): the command is gone; SIGTERM the exec'd children, wait out  *)
(* one more grace reaping them, SIGKILL and wait for the rest.             *)
Shutdown ==
  /\ pc = "shutdown"
  /\ IF execs = {}
     THEN pc' = "wm" /\ UNCHANGED <<termed, waitLeft>>
     ELSE pc' = "grace" /\ Term(execs) /\ waitLeft' = Grace
  /\ UNCHANGED <<child, killed, execs, pending, left, stop, asked, killAt, started, xqueue,
                 polled, taken, answer, exit, stopAge, stopAtPoll, clientVars>>

GraceReap ==
  /\ pc = "grace"
  /\ execs # {} /\ waitLeft > 0
  /\ Reap
  /\ child' = ReapInto({})
  /\ UNCHANGED <<pc, termed, killed, pending, left, stop, asked, killAt, waitLeft, started,
                 xqueue, polled, taken, exit, stopAge, stopAtPoll, clientVars>>

GraceOver ==
  /\ pc = "grace"
  /\ execs = {} \/ waitLeft = 0
  /\ Kill(execs)
  /\ pc' = "killwait"
  /\ UNCHANGED <<child, termed, stop, xqueue, answer, exit, stopAge, stopAtPoll, loopVars,
                 clientVars>>

(* Mutant: execs.clear() without the wait() and the status of each child.  *)
KillNoStatus ==
  /\ pc = "killwait"
  /\ execs' = {}
  /\ pc' = "wm"
  /\ child' = [p \in Children |-> IF p \in execs THEN "gone" ELSE child[p]]
  /\ UNCHANGED <<answer, termed, killed, pending, left, stop, asked, killAt, waitLeft, started,
                 xqueue, polled, taken, exit, stopAge, stopAtPoll, clientVars>>

KillWait ==
  /\ pc = "killwait"
  /\ execs \subseteq Zombies
  /\ Reap
  /\ child' = ReapInto({})
  /\ pc' = "wm"
  /\ UNCHANGED <<termed, killed, pending, left, stop, asked, killAt, waitLeft, started,
                 xqueue, polled, taken, exit, stopAge, stopAtPoll, clientVars>>

(* stop_child(p), entered at location `at': SIGTERM, poll for its exit     *)
(* until the grace is over, SIGKILL, wait.  A child never started, or      *)
(* already reaped by the loop, is skipped.                                 *)
StopChild(p, at, grace, wait, next) ==
  /\ \/ /\ pc = at /\ child[p] \in {"none", "gone"}
        /\ pc' = next
        /\ UNCHANGED <<child, termed, killed, waitLeft>>
     \/ /\ pc = at /\ child[p] \in {"up", "zombie"}
        /\ pc' = grace
        /\ Term({p})
        /\ waitLeft' = Grace
        /\ UNCHANGED <<child, killed>>
     \/ /\ \/ pc = grace /\ waitLeft > 0
           \/ pc = wait
        /\ child[p] = "zombie"
        /\ pc' = next
        /\ child' = [child EXCEPT ![p] = "gone"]
        /\ UNCHANGED <<termed, killed, waitLeft>>
     \/ /\ pc = grace /\ waitLeft = 0
        /\ pc' = wait
        /\ Kill({p})
        /\ UNCHANGED <<child, termed, waitLeft>>
  /\ UNCHANGED <<execs, pending, left, stop, asked, killAt, started, xqueue, polled, taken,
                 stopAge, stopAtPoll, clientVars>>

(* stop_x11(): the window manager, then the server; then main() returns    *)
(* the command's own status.                                               *)
StopWm ==
  /\ StopChild(Wm, "wm", "wmgrace", "wmwait", "server")
  /\ UNCHANGED <<answer, exit>>

StopServer ==
  /\ StopChild(Server, "server", "servergrace", "serverwait", "done")
  /\ IF pc' = "done" THEN exit' = "command" /\ CloseAll ELSE UNCHANGED <<answer, exit>>

-----------------------------------------------------------------------------
(* The world outside the thread: children, clients, signals, the clock.    *)
ChildExits(p) ==
  /\ child[p] = "up"
  /\ child' = [child EXCEPT ![p] = "zombie"]
  /\ UNCHANGED <<pc, termed, killed, stop, xqueue, answer, exit, stopAge, stopAtPoll,
                 loopVars, clientVars>>

Connect ==
  /\ pc # "done"
  /\ came < NConns
  /\ came' = came + 1
  /\ UNCHANGED <<pc, kernelVars, stop, xqueue, wire, hung, answer, exit, stopAge, stopAtPoll,
                 loopVars>>

Writing(c) == c <= came /\ c \notin hung /\ answer[c] = "none"

(* The rest of a request makes it runnable, not executable in the sandbox, *)
(* or malformed.                                                           *)
Send(c) ==
  /\ Writing(c)
  /\ \/ wire[c] = "none" /\ wire' = [wire EXCEPT ![c] = "part"]
     \/ /\ wire[c] = "part"
        /\ \E w \in {"good", "noexec", "bad"} : wire' = [wire EXCEPT ![c] = w]
  /\ UNCHANGED <<pc, kernelVars, stop, xqueue, came, hung, answer, exit, stopAge, stopAtPoll,
                 loopVars>>

HangUp(c) ==
  /\ Writing(c)
  /\ hung' = hung \cup {c}
  /\ UNCHANGED <<pc, kernelVars, stop, xqueue, came, wire, answer, exit, stopAge, stopAtPoll,
                 loopVars>>

(* The display socket is bound before the command is spawned.              *)
XConnect ==
  /\ HasX11 /\ pc # "done"
  /\ ~xqueue
  /\ xqueue' = TRUE
  /\ UNCHANGED <<pc, kernelVars, stop, clientVars, answer, exit, stopAge, stopAtPoll,
                 loopVars>>

(* SIGTERM, SIGINT, SIGHUP or SIGQUIT, from bubbler, a terminal or the     *)
(* parent-death signal, as often as it comes.                              *)
StopSignal ==
  /\ pc # "done"
  /\ ~stop
  /\ stop' = TRUE
  /\ UNCHANGED <<pc, kernelVars, xqueue, clientVars, answer, exit, stopAge, stopAtPoll,
                 loopVars>>

Less(n) == IF n > 0 THEN n - 1 ELSE n

Tick ==
  /\ pc # "done"
  /\ killAt' = Less(killAt)
  /\ waitLeft' = Less(waitLeft)
  /\ left' = [c \in Conns |-> IF c \in pending THEN Less(left[c]) ELSE left[c]]
  /\ stopAge' = IF asked /\ stopAge < Grace THEN stopAge + 1 ELSE stopAge
  /\ UNCHANGED <<pc, kernelVars, execs, pending, stop, asked, started, xqueue, polled, taken,
                 answer, exit, stopAtPoll, clientVars>>

-----------------------------------------------------------------------------
Loop == WaitCommand \/ CheckX11 \/ ReapAndKill \/ Poll \/ TakeStop \/ WakeX11
        \/ ReadPending \/ Accept

Ending == Shutdown \/ GraceReap \/ GraceOver \/ KillWait \/ StopWm \/ StopServer

Supervise == StartUp \/ StartFails \/ Loop \/ Ending

Outside ==
  \/ \E p \in Children : ChildExits(p)
  \/ \E c \in Conns : Send(c) \/ HangUp(c)
  \/ Connect \/ XConnect \/ StopSignal \/ Tick

(* The process is gone; a run ends here.                                   *)
Ended == pc = "done" /\ UNCHANGED vars

Next == Supervise \/ Outside \/ Ended

(* The thread is scheduled, the clock runs and a SIGKILLed process dies.   *)
(* Nothing is assumed of a child that only got SIGTERM, of clients, or of  *)
(* signals.                                                                *)
Fairness ==
  /\ WF_vars(Supervise)
  /\ WF_vars(Tick)
  /\ \A p \in Children : WF_vars(p \in killed /\ ChildExits(p))

Spec == Init /\ [][Next]_vars
FairSpec == Spec /\ Fairness

-----------------------------------------------------------------------------
TypeOK ==
  /\ pc \in Locations
  /\ child \in [Children -> ChildState]
  /\ termed \in SUBSET Children /\ killed \in SUBSET Children
  /\ execs \in SUBSET Conns /\ pending \in SUBSET Conns
  /\ left \in [Conns -> 0..RequestTimeout]
  /\ stop \in BOOLEAN /\ asked \in BOOLEAN
  /\ killAt \in {Unset} \cup 0..Grace
  /\ waitLeft \in 0..Grace
  /\ started \in BOOLEAN /\ xqueue \in BOOLEAN
  /\ polled \in [ok : BOOLEAN, accept : BOOLEAN, wake : BOOLEAN, ready : SUBSET Conns]
  /\ came \in 0..NConns /\ taken \in 0..came
  /\ wire \in [Conns -> {"none", "part", "good", "noexec", "bad"}]
  /\ hung \in SUBSET Conns
  /\ answer \in [Conns -> {"none", "status", "refused", "closed", "expired", "evicted"}]
  /\ exit \in {"none", "usage", "notrun", "command"}
  /\ stopAge \in 0..Grace
  /\ stopAtPoll \in BOOLEAN

(* No child meets SIGKILL without having been sent SIGTERM first, whichever *)
(* of begin_stop(), shutdown() and stop_child() ends it and whenever it was *)
(* started: the reason `Stopping.asked' gives for starting nothing late.   *)
KillAfterTerm == killed \subseteq termed

(* While a command that ignores SIGTERM is up, the deadline of begin_stop() *)
(* is the one the first stop event set: no later signal, server death or   *)
(* failed wake moves it.                                                   *)
SingleGrace ==
  asked /\ child[Cmd] = "up" /\ Cmd \notin killed => killAt = Grace - stopAge

(* Nor is it cut short: the command is SIGKILLed only a whole grace after  *)
(* the run was first asked to end.                                         *)
GraceGranted == Cmd \in killed => stopAge = Grace

(* The signals of a stop come in order and in their time.                  *)
TermFirst == KillAfterTerm /\ SingleGrace /\ GraceGranted

(* stop_x11() takes the display away only from nobody: the server is told  *)
(* to end only once the command, every exec'd child and the window manager *)
(* have been reaped, and the window manager only after the command and the *)
(* exec'd children.                                                        *)
ServerOutlivesClients ==
  /\ Server \in termed => \A p \in Children \ {Server} : child[p] \in {"none", "gone"}
  /\ Wm \in termed => \A p \in Children \ {Server, Wm} : child[p] \in {"none", "gone"}

(* A client is sent a status when its child has been reaped and only then; *)
(* no child is reaped behind its client's back.                            *)
ExecAnswered == \A c \in Conns : (answer[c] = "status") <=> (child[c] = "gone")

(* main() returns only once every process it started is gone.              *)
NothingLeftBehind == pc = "done" => \A p \in Children : child[p] \in {"none", "gone"}

(* Nobody is forgotten on any way out of the loop: every process is reaped *)
(* before main() returns, and no client misses its child's status.         *)
NobodyForgotten == ExecAnswered /\ NothingLeftBehind

(* Once the run was asked to end, or the flag was set before poll()        *)
(* returned, no process is started: neither an exec'd child nor the server *)
(* a display client was about to wake.                                     *)
NothingStartsLate ==
  [][\A p \in Children :
       child[p] = "none" /\ child'[p] = "up" => ~asked /\ ~stopAtPoll]_vars

(* A run asked to end does end, whatever the command, its children and the *)
(* display do with SIGTERM.                                                *)
StopEnds == asked ~> pc = "done"

(* A display that goes away ends the run.                                  *)
DisplayLossEnds == child[Server] = "zombie" ~> pc = "done"

(* A client that reached the socket is not left waiting on the supervisor: *)
(* its child is started or its connection disposed of, however little of a *)
(* request it ever sends.                                                  *)
ConnectionResolved ==
  \A c \in Conns : came >= c ~> (c \in execs \/ answer[c] # "none")

(* What must eventually happen: a run asked to end or without its display  *)
(* ends, and no client is left waiting.                                    *)
RunEnds == StopEnds /\ DisplayLossEnds /\ ConnectionResolved

-----------------------------------------------------------------------------
(* The inductive invariant behind the safety properties, in three parts.   *)
LoopLocations == {"wait", "x11", "reap", "poll", "stop", "wake", "read", "accept"}
ServerEnd     == {"servergrace", "serverwait", "done"}
AfterWm       == {"server"} \cup ServerEnd
WmEnd         == {"wmgrace", "wmwait"} \cup AfterWm
AfterExecs    == {"wm"} \cup WmEnd
AfterCommand  == {"shutdown", "grace", "killwait"} \cup AfterExecs
NotRunning    == {"none", "gone"}

(* Which of a connection's records exist in which state of its child.      *)
Bookkeeping ==
  /\ \A c \in Conns :
       /\ c \in execs <=> child[c] \in {"up", "zombie"}
       /\ (answer[c] = "status") <=> (child[c] = "gone")
       /\ c \in execs => answer[c] = "none"
       /\ c \in pending => child[c] = "none" /\ c <= taken
       /\ c > taken => child[c] = "none"
       /\ (c \in pending \/ c > taken) /\ pc # "done" => answer[c] = "none"
  /\ pc \in {"stop", "wake", "read"} => polled.ready \subseteq pending

(* What has been signalled at each point, and how the deadline runs.       *)
SignalOrder ==
  /\ killed \subseteq termed
  /\ killAt # Unset => asked
  /\ ~asked => stopAge = 0
  /\ asked /\ pc \in LoopLocations =>
       \A p \in {Cmd} \cup execs : child[p] = "up" => p \in termed
  /\ pc = "grace" => \A p \in execs : child[p] = "up" => p \in termed
  /\ pc = "wmgrace" /\ child[Wm] = "up" => Wm \in termed
  /\ pc = "servergrace" /\ child[Server] = "up" => Server \in termed
  /\ SingleGrace
  /\ GraceGranted

(* Who is still there at each point of the end.                            *)
EndOrder ==
  /\ pc = "start" => ~asked /\ \A p \in Children : child[p] = "none"
  /\ pc \in AfterCommand => child[Cmd] \in NotRunning
  /\ pc \in AfterExecs => execs = {}
  /\ pc \in AfterWm => child[Wm] \in NotRunning
  /\ pc = "done" => child[Server] \in NotRunning
  /\ Wm \in termed => pc \in WmEnd
  /\ Server \in termed => pc \in ServerEnd

Safe == Bookkeeping /\ SignalOrder /\ EndOrder

=============================================================================
