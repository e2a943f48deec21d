-------------------------- MODULE SupervisorProofs --------------------------
(***************************************************************************)
(* Theorems about the supervisor, for every number of connections, table   *)
(* size, grace and request timeout.                                        *)
(***************************************************************************)
EXTENDS Supervisor, TLAPS

(* A connection's child is none of the supervisor's own three.             *)
LEMMA Names ==
  /\ Cmd \in Children /\ Server \in Children /\ Wm \in Children
  /\ Conns \subseteq Children
  /\ Cmd \notin Conns /\ Server \notin Conns /\ Wm \notin Conns
  /\ Cmd # Server /\ Cmd # Wm /\ Server # Wm
BY ConstantsAssumption DEF Children, Conns

(* The state before main() has run.                                        *)
LEMMA InitTypeOK == Init => TypeOK
<1> SUFFICES ASSUME Init PROVE TypeOK
    OBVIOUS
<1> USE ConstantsAssumption DEF Init
<1>1. polled \in [ok : BOOLEAN, accept : BOOLEAN, wake : BOOLEAN, ready : SUBSET Conns]
  BY DEF Nothing
<1>2. child \in [Children -> ChildState] /\ pc \in Locations
  BY DEF ChildState, Locations
<1>3. left \in [Conns -> 0..RequestTimeout] /\ waitLeft \in 0..Grace /\ stopAge \in 0..Grace
  OBVIOUS
<1>4. came \in 0..NConns /\ taken \in 0..came
  OBVIOUS
<1> QED BY <1>1, <1>2, <1>3, <1>4 DEF TypeOK

PollResult == [ok : BOOLEAN, accept : BOOLEAN, wake : BOOLEAN, ready : SUBSET Conns]

(* What poll() reports is a record of the type the iteration reads.        *)
LEMMA PollResultRecord ==
  ASSUME NEW o \in BOOLEAN, NEW a \in BOOLEAN, NEW w \in BOOLEAN, NEW r \in SUBSET Conns
  PROVE  [ok |-> o, accept |-> a, wake |-> w, ready |-> r] \in PollResult
BY DEF PollResult

(* begin_stop() keeps the types of what it writes.                         *)
LEMMA BeginStopTypes ==
  TypeOK /\ BeginStop => /\ termed' \in SUBSET Children
                         /\ asked' \in BOOLEAN
                         /\ killAt' \in {Unset} \cup 0..Grace
BY ConstantsAssumption, Names DEF TypeOK, BeginStop, Term, Up

(* Every step keeps the types: the clock never takes a deadline below      *)
(* zero, and a connection is accepted only after it came.                  *)
LEMMA NextTypeOK == TypeOK /\ [Next]_vars => TypeOK'
<1> SUFFICES ASSUME TypeOK, [Next]_vars PROVE TypeOK'
    OBVIOUS
<1> USE ConstantsAssumption, Names DEF TypeOK, loopVars, kernelVars, clientVars, Term, Kill, Unset
<1>1. CASE StartUp
  BY <1>1 DEF StartUp, ChildState, Locations
<1>2. CASE StartFails
  BY <1>2 DEF StartFails, CloseAll, Locations
<1>3. CASE WaitCommand
  BY <1>3 DEF WaitCommand, Reap, ReapInto, ChildState, Locations
<1>4. CASE CheckX11
  BY <1>4, BeginStopTypes DEF CheckX11, ChildState, Locations
<1>5. CASE ReapAndKill
  BY <1>5 DEF ReapAndKill, Reap, ReapInto, ChildState, Locations
<1>6. CASE Poll
  <2>1. polled' \in [ok : BOOLEAN, accept : BOOLEAN, wake : BOOLEAN, ready : SUBSET Conns]
    <3> DEFINE a == taken < came
               w == Waking /\ xqueue
               r == {c \in pending : wire[c] # "none" \/ c \in hung}
    <3>1. a \in BOOLEAN /\ w \in BOOLEAN /\ r \in SUBSET Conns /\ TRUE \in BOOLEAN
      BY DEF Waking
    <3>2. \/ polled' = [ok |-> TRUE, accept |-> a, wake |-> w, ready |-> r]
          \/ polled' = [ok |-> FALSE, accept |-> FALSE, wake |-> FALSE, ready |-> {}]
      BY <1>6 DEF Poll, Nothing
    <3> HIDE DEF a, w, r
    <3>3. [ok |-> TRUE, accept |-> a, wake |-> w, ready |-> r] \in PollResult
      BY <3>1, PollResultRecord, Zenon
    <3>4. [ok |-> FALSE, accept |-> FALSE, wake |-> FALSE, ready |-> {}] \in PollResult
      BY DEF PollResult
    <3> QED BY <3>2, <3>3, <3>4 DEF PollResult
  <2>2. pc' \in Locations
    BY <1>6 DEF Poll, Locations
  <2> QED BY <1>6, <2>1, <2>2 DEF Poll
<1>7. CASE TakeStop
  <2>1. /\ termed' \in SUBSET Children
        /\ asked' \in BOOLEAN
        /\ killAt' \in {Unset} \cup 0..Grace
    BY <1>7, BeginStopTypes DEF TakeStop
  <2>2. stop' \in BOOLEAN /\ pc' \in Locations
    BY <1>7 DEF TakeStop, Locations
  <2> QED BY <1>7, <2>1, <2>2 DEF TakeStop
<1>8. CASE WakeX11
  <2>1. child' \in [Children -> ChildState]
    BY <1>8 DEF WakeX11, ChildState
  <2>2. /\ termed' \in SUBSET Children
        /\ asked' \in BOOLEAN
        /\ killAt' \in {Unset} \cup 0..Grace
    BY <1>8, BeginStopTypes DEF WakeX11
  <2>3. started' \in BOOLEAN /\ pc' \in Locations
    BY <1>8 DEF WakeX11, Locations
  <2> QED BY <1>8, <2>1, <2>2, <2>3 DEF WakeX11
<1>9. CASE ReadPending
  BY <1>9 DEF ReadPending, Served, Dropped, Spawned, ChildState, Locations
<1>10. CASE Accept
  <2>1. Arrivals \subseteq Conns
    BY DEF Arrivals, Conns
  <2>2. pending' \in SUBSET Conns
    BY <1>10, <2>1 DEF Accept, InTime
  <2>3. left' \in [Conns -> 0..RequestTimeout]
    BY <1>10 DEF Accept
  <2>4. answer' \in [Conns -> {"none", "status", "refused", "closed", "expired", "evicted"}]
    BY <1>10 DEF Accept
  <2>5. taken' \in 0..came'
    BY <1>10 DEF Accept
  <2>6. polled' \in [ok : BOOLEAN, accept : BOOLEAN, wake : BOOLEAN, ready : SUBSET Conns]
    BY <1>10 DEF Accept, Nothing
  <2>7. pc' \in Locations /\ stopAtPoll' \in BOOLEAN
    BY <1>10 DEF Accept, Locations
  <2> QED BY <1>10, <2>2, <2>3, <2>4, <2>5, <2>6, <2>7 DEF Accept
<1>11. CASE Shutdown
  BY <1>11 DEF Shutdown, Locations
<1>12. CASE GraceReap
  BY <1>12 DEF GraceReap, Reap, ReapInto, ChildState
<1>13. CASE GraceOver
  BY <1>13 DEF GraceOver, Locations
<1>14. CASE KillWait
  BY <1>14 DEF KillWait, Reap, ReapInto, ChildState, Locations
<1>15. CASE StopWm
  BY <1>15 DEF StopWm, StopChild, ChildState, Locations
<1>16. CASE StopServer
  BY <1>16 DEF StopServer, StopChild, CloseAll, ChildState, Locations
<1>17. ASSUME NEW p \in Children, ChildExits(p) PROVE TypeOK'
  BY <1>17 DEF ChildExits, ChildState
<1>18. ASSUME NEW c \in Conns, Send(c) \/ HangUp(c) PROVE TypeOK'
  BY <1>18 DEF Send, HangUp
<1>19. CASE Connect
  <2>1. came' \in 0..NConns /\ taken' \in 0..came'
    BY <1>19 DEF Connect
  <2> QED BY <1>19, <2>1 DEF Connect
<1>22. CASE XConnect
  BY <1>22 DEF XConnect
<1>23. CASE StopSignal
  BY <1>23 DEF StopSignal
<1>20. CASE Tick
  BY <1>20 DEF Tick, Less
<1>21. CASE Ended \/ UNCHANGED vars
  BY <1>21 DEF Ended, vars
<1> QED
  BY <1>1, <1>2, <1>3, <1>4, <1>5, <1>6, <1>7, <1>8, <1>9, <1>10, <1>11, <1>12, <1>13,
     <1>14, <1>15, <1>16, <1>17, <1>18, <1>19, <1>20, <1>21, <1>22, <1>23
     DEF Next, Supervise, Loop, Ending, Outside

(* The supervisor's state is what main() declares it to be.                *)
THEOREM TypeCorrect == Spec => []TypeOK
BY InitTypeOK, NextTypeOK, PTL DEF Spec

-----------------------------------------------------------------------------
(* Nothing has been started, asked or answered before main().              *)
LEMMA InitSafe == Init => Safe
<1> SUFFICES ASSUME Init PROVE Safe
    OBVIOUS
<1> USE ConstantsAssumption, Names DEF Init
<1>1. Bookkeeping
  BY DEF Bookkeeping, Conns
<1>2. SignalOrder
  BY DEF SignalOrder, SingleGrace, GraceGranted, LoopLocations, Unset
<1>3. EndOrder
  BY DEF EndOrder, AfterCommand, AfterExecs, AfterWm, WmEnd, ServerEnd
<1> QED BY <1>1, <1>2, <1>3 DEF Safe

(* The records of a connection stay consistent with its child.             *)
LEMMA NextBookkeeping == TypeOK /\ Safe /\ [Next]_vars => Bookkeeping'
<1> SUFFICES ASSUME TypeOK, Safe, [Next]_vars PROVE Bookkeeping'
    OBVIOUS
<1> USE ConstantsAssumption, Names DEF TypeOK, Safe, Bookkeeping, loopVars, kernelVars, clientVars
<1>1. CASE StartUp
  BY <1>1 DEF StartUp
<1>2. CASE StartFails
  BY <1>2 DEF StartFails, CloseAll, EndOrder
<1>3. CASE WaitCommand
  BY <1>3 DEF WaitCommand, Reap, ReapInto, Reaped, Zombies
<1>4. CASE CheckX11
  BY <1>4 DEF CheckX11, Zombies
<1>5. CASE ReapAndKill
  BY <1>5 DEF ReapAndKill, Reap, ReapInto, Reaped, Zombies
<1>6. CASE Poll
  BY <1>6 DEF Poll, Nothing
<1>7. CASE TakeStop
  BY <1>7 DEF TakeStop
<1>8. CASE WakeX11
  BY <1>8 DEF WakeX11
<1>9. CASE ReadPending
  <2>1. polled.ready \subseteq pending /\ Spawned \subseteq Served /\ Served \cap Dropped = {}
    BY <1>9 DEF ReadPending, Served, Dropped, Spawned, Whole, Broken, Spawns
  <2>2. Served \subseteq pending /\ Dropped \subseteq pending
    BY <2>1 DEF Served, Dropped
  <2>3. ASSUME NEW c \in Conns
        PROVE  /\ child'[c] = IF c \in Spawned THEN "up" ELSE child[c]
               /\ answer'[c] = IF c \in Served \ Spawned THEN "refused"
                               ELSE IF c \in Dropped THEN "closed" ELSE answer[c]
    BY <1>9 DEF ReadPending
  <2>4. ASSUME NEW c \in Conns
        PROVE  /\ c \in execs' <=> child'[c] \in {"up", "zombie"}
               /\ (answer'[c] = "status") <=> (child'[c] = "gone")
               /\ c \in execs' => answer'[c] = "none"
               /\ c \in pending' => child'[c] = "none" /\ c <= taken'
               /\ c > taken' => child'[c] = "none"
               /\ (c \in pending' \/ c > taken') => answer'[c] = "none"
    <3>1. /\ pending' = pending \ (Served \cup Dropped)
          /\ execs' = execs \cup Spawned
          /\ taken' = taken /\ pc = "read"
      BY <1>9 DEF ReadPending
    <3>2. CASE c \in Spawned
      <4>1. c \in Served /\ c \in pending /\ c \notin Dropped
        BY <3>2, <2>1, <2>2
      <4>2. child'[c] = "up" /\ answer'[c] = answer[c] /\ c \in execs' /\ c \notin pending'
        BY <3>1, <3>2, <4>1, <2>3
      <4>3. answer[c] = "none" /\ c <= taken /\ c \in Int /\ taken \in Int
        BY <3>1, <4>1 DEF Conns
      <4> QED BY <3>1, <4>2, <4>3
    <3>3. CASE c \notin Spawned
      BY <3>1, <3>3, <2>1, <2>2, <2>3 DEF Conns
    <3> QED BY <3>2, <3>3
  <2> QED BY <1>9, <2>4 DEF ReadPending
<1>10. CASE Accept
  <2>1. Arrivals \subseteq {c \in Conns : c > taken /\ c <= taken'}
    BY <1>10 DEF Accept, Arrivals, Conns
  <2>2. pending' \subseteq InTime \cup Arrivals /\ InTime \subseteq pending
    BY <1>10 DEF Accept, InTime
  <2>3. taken' >= taken /\ taken' \in Int
    BY <1>10 DEF Accept
  <2>4. \A c \in Conns : answer'[c] # answer[c] =>
           answer'[c] \in {"expired", "evicted"} /\ c \notin pending' /\ (c \in pending \/ c > taken) /\ c <= taken'
    <3> SUFFICES ASSUME NEW c \in Conns, answer'[c] # answer[c]
                 PROVE  /\ answer'[c] \in {"expired", "evicted"} /\ c \notin pending'
                        /\ (c \in pending \/ c > taken) /\ c <= taken'
      OBVIOUS
    <3>1. CASE c \in pending \ InTime
      BY <3>1, <1>10, <2>1, <2>2, <2>3 DEF Accept, Conns
    <3>2. CASE c \in Evicted
      BY <3>2, <1>10, <2>1, <2>2, <2>3 DEF Accept, Evicted, Conns
    <3> QED BY <3>1, <3>2, <1>10 DEF Accept
  <2> QED BY <1>10, <2>1, <2>2, <2>3, <2>4 DEF Accept, Conns
<1>11. CASE Shutdown
  BY <1>11 DEF Shutdown
<1>12. CASE GraceReap
  BY <1>12 DEF GraceReap, Reap, ReapInto, Reaped, Zombies
<1>13. CASE GraceOver
  BY <1>13 DEF GraceOver
<1>14. CASE KillWait
  BY <1>14 DEF KillWait, Reap, ReapInto, Reaped, Zombies
<1>15. CASE StopWm
  BY <1>15 DEF StopWm, StopChild
<1>16. CASE StopServer
  BY <1>16 DEF StopServer, StopChild, CloseAll, EndOrder, AfterExecs, AfterWm, WmEnd, ServerEnd
<1>17. ASSUME NEW p \in Children, ChildExits(p) PROVE Bookkeeping'
  BY <1>17 DEF ChildExits
<1>18. ASSUME NEW c \in Conns, Send(c) \/ HangUp(c) PROVE Bookkeeping'
  BY <1>18 DEF Send, HangUp
<1>19. CASE Connect
  BY <1>19 DEF Connect
<1>20. CASE XConnect \/ StopSignal
  BY <1>20 DEF XConnect, StopSignal
<1>21. CASE Tick
  BY <1>21 DEF Tick
<1>22. CASE Ended \/ UNCHANGED vars
  BY <1>22 DEF Ended, vars
<1> QED
  BY <1>1, <1>2, <1>3, <1>4, <1>5, <1>6, <1>7, <1>8, <1>9, <1>10, <1>11, <1>12, <1>13,
     <1>14, <1>15, <1>16, <1>17, <1>18, <1>19, <1>20, <1>21, <1>22
     DEF Next, Supervise, Loop, Ending, Outside

(* SIGTERM comes before SIGKILL, and the first deadline stands.            *)
LEMMA NextSignalOrder == TypeOK /\ Safe /\ [Next]_vars => SignalOrder'
<1> SUFFICES ASSUME TypeOK, Safe, [Next]_vars PROVE SignalOrder'
    OBVIOUS
<1> USE ConstantsAssumption, Names
    DEF TypeOK, Safe, SignalOrder, SingleGrace, GraceGranted, LoopLocations, Unset, loopVars,
        kernelVars, clientVars
<1>0. BeginStop /\ pc \in LoopLocations /\ child[Cmd] = child'[Cmd] /\ UNCHANGED <<execs, stopAge, killed>>
      => /\ termed \subseteq termed' /\ asked' /\ killAt' # Unset
         /\ \A p \in {Cmd} \cup execs : child[p] = "up" => p \in termed'
         /\ child[Cmd] = "up" /\ Cmd \notin killed => killAt' = Grace - stopAge
  BY DEF BeginStop, Term, Up
<1>1. CASE StartUp
  BY <1>1 DEF StartUp, EndOrder
<1>2. CASE StartFails
  BY <1>2 DEF StartFails, CloseAll
<1>3. CASE WaitCommand
  BY <1>3 DEF WaitCommand, Reap, ReapInto, Reaped, Zombies
<1>4. CASE CheckX11
  <2>1. child[Cmd] = child'[Cmd] /\ \A c \in execs : child'[c] = child[c]
    BY <1>4 DEF CheckX11
  <2> QED BY <1>4, <1>0, <2>1 DEF CheckX11
<1>5. CASE ReapAndKill
  BY <1>5 DEF ReapAndKill, Reap, ReapInto, Reaped, Zombies, Kill, Up
<1>6. CASE Poll
  BY <1>6 DEF Poll
<1>7. CASE TakeStop
  BY <1>7, <1>0 DEF TakeStop
<1>8. CASE WakeX11
  <2>1. child[Cmd] = child'[Cmd] /\ \A c \in execs : child'[c] = child[c]
    BY <1>8 DEF WakeX11
  <2> QED BY <1>8, <1>0, <2>1 DEF WakeX11
<1>9. CASE ReadPending
  BY <1>9 DEF ReadPending, Spawned, Spawns
<1>10. CASE Accept
  BY <1>10 DEF Accept
<1>11. CASE Shutdown
  BY <1>11 DEF Shutdown, Term, Up
<1>12. CASE GraceReap
  BY <1>12 DEF GraceReap, Reap, ReapInto, Reaped, Zombies
<1>13. CASE GraceOver
  BY <1>13 DEF GraceOver, Kill, Up, EndOrder, AfterCommand
<1>14. CASE KillWait
  BY <1>14 DEF KillWait, Reap, ReapInto, Reaped, Zombies
<1>15. CASE StopWm
  BY <1>15 DEF StopWm, StopChild, Term, Kill, Up
<1>16. CASE StopServer
  BY <1>16 DEF StopServer, StopChild, Term, Kill, Up
<1>17. ASSUME NEW p \in Children, ChildExits(p) PROVE SignalOrder'
  BY <1>17 DEF ChildExits
<1>18. ASSUME NEW c \in Conns, Send(c) \/ HangUp(c) PROVE SignalOrder'
  BY <1>18 DEF Send, HangUp
<1>19. CASE Connect
  BY <1>19 DEF Connect
<1>20. CASE XConnect \/ StopSignal
  BY <1>20 DEF XConnect, StopSignal
<1>21. CASE Tick
  BY <1>21 DEF Tick, Less
<1>22. CASE Ended \/ UNCHANGED vars
  BY <1>22 DEF Ended, vars
<1> QED
  BY <1>1, <1>2, <1>3, <1>4, <1>5, <1>6, <1>7, <1>8, <1>9, <1>10, <1>11, <1>12, <1>13,
     <1>14, <1>15, <1>16, <1>17, <1>18, <1>19, <1>20, <1>21, <1>22
     DEF Next, Supervise, Loop, Ending, Outside

(* Each process group is gone before the next is told to end.              *)
LEMMA NextEndOrder == TypeOK /\ Safe /\ [Next]_vars => EndOrder'
<1> SUFFICES ASSUME TypeOK, Safe, [Next]_vars PROVE EndOrder'
    OBVIOUS
<1> USE ConstantsAssumption, Names
    DEF TypeOK, Safe, EndOrder, AfterCommand, AfterExecs, AfterWm, WmEnd, ServerEnd, NotRunning,
        loopVars, kernelVars, clientVars
<1>1. CASE StartUp
  BY <1>1 DEF StartUp
<1>2. CASE StartFails
  BY <1>2 DEF StartFails, Bookkeeping
<1>3. CASE WaitCommand
  BY <1>3 DEF WaitCommand, Reap, ReapInto, Reaped, Zombies
<1>4. CASE CheckX11
  BY <1>4 DEF CheckX11, BeginStop, Term
<1>5. CASE ReapAndKill
  BY <1>5 DEF ReapAndKill, Reap, ReapInto, Reaped
<1>6. CASE Poll
  BY <1>6 DEF Poll
<1>7. CASE TakeStop
  BY <1>7 DEF TakeStop, BeginStop, Term
<1>8. CASE WakeX11
  BY <1>8 DEF WakeX11, BeginStop, Term
<1>9. CASE ReadPending
  BY <1>9 DEF ReadPending
<1>10. CASE Accept
  BY <1>10 DEF Accept
<1>11. CASE Shutdown
  BY <1>11 DEF Shutdown, Term
<1>12. CASE GraceReap
  BY <1>12 DEF GraceReap, Reap, ReapInto, Reaped
<1>13. CASE GraceOver
  BY <1>13 DEF GraceOver
<1>14. CASE KillWait
  BY <1>14 DEF KillWait, Reap, ReapInto, Reaped
<1>15. CASE StopWm
  BY <1>15 DEF StopWm, StopChild, Term
<1>16. CASE StopServer
  BY <1>16 DEF StopServer, StopChild, Term
<1>17. ASSUME NEW p \in Children, ChildExits(p) PROVE EndOrder'
  BY <1>17 DEF ChildExits
<1>18. ASSUME NEW c \in Conns, Send(c) \/ HangUp(c) PROVE EndOrder'
  BY <1>18 DEF Send, HangUp
<1>19. CASE Connect
  BY <1>19 DEF Connect
<1>20. CASE XConnect \/ StopSignal
  BY <1>20 DEF XConnect, StopSignal
<1>21. CASE Tick
  BY <1>21 DEF Tick
<1>22. CASE Ended \/ UNCHANGED vars
  BY <1>22 DEF Ended, vars
<1> QED
  BY <1>1, <1>2, <1>3, <1>4, <1>5, <1>6, <1>7, <1>8, <1>9, <1>10, <1>11, <1>12, <1>13,
     <1>14, <1>15, <1>16, <1>17, <1>18, <1>19, <1>20, <1>21, <1>22
     DEF Next, Supervise, Loop, Ending, Outside

(* The inductive invariant holds of every reachable state.                 *)
THEOREM SafeInvariant == Spec => [](TypeOK /\ Safe)
<1>1. Init => TypeOK /\ Safe
  BY InitTypeOK, InitSafe
<1>2. TypeOK /\ Safe /\ [Next]_vars => (TypeOK /\ Safe)'
  BY NextTypeOK, NextBookkeeping, NextSignalOrder, NextEndOrder DEF Safe
<1> QED BY <1>1, <1>2, PTL DEF Spec

(* No child is SIGKILLed that was not sent SIGTERM before.                 *)
THEOREM KillAfterTermHolds == Spec => []KillAfterTerm
<1>1. TypeOK /\ Safe => KillAfterTerm
  BY DEF Safe, SignalOrder, KillAfterTerm
<1> QED BY <1>1, SafeInvariant, PTL

(* A second stop event never moves the deadline.                           *)
THEOREM SingleGraceHolds == Spec => [](SingleGrace /\ GraceGranted)
<1>1. TypeOK /\ Safe => SingleGrace /\ GraceGranted
  BY DEF Safe, SignalOrder
<1> QED BY <1>1, SafeInvariant, PTL

(* A client's status is sent exactly when its child is reaped.             *)
THEOREM ExecAnsweredHolds == Spec => []ExecAnswered
<1>1. TypeOK /\ Safe => ExecAnswered
  BY DEF Safe, Bookkeeping, ExecAnswered
<1> QED BY <1>1, SafeInvariant, PTL

(* The server and the window manager are told to end last.                 *)
THEOREM ServerOutlivesClientsHolds == Spec => []ServerOutlivesClients
<1>1. TypeOK /\ Safe => ServerOutlivesClients
  <2> SUFFICES ASSUME TypeOK, Safe PROVE ServerOutlivesClients
      OBVIOUS
  <2> USE Names DEF TypeOK, Safe, EndOrder, Bookkeeping, AfterCommand, AfterExecs, AfterWm,
                    WmEnd, ServerEnd, NotRunning, ChildState
  <2>1. pc \in AfterExecs => \A c \in Conns : child[c] \in NotRunning
    OBVIOUS
  <2> QED BY <2>1 DEF ServerOutlivesClients, Children
<1> QED BY <1>1, SafeInvariant, PTL

(* The supervisor exits only once every child is gone.                     *)
THEOREM NothingLeftBehindHolds == Spec => []NothingLeftBehind
<1>1. TypeOK /\ Safe => NothingLeftBehind
  <2> SUFFICES ASSUME TypeOK, Safe, pc = "done"
               PROVE  \A p \in Children : child[p] \in {"none", "gone"}
      BY DEF NothingLeftBehind
  <2> QED BY Names DEF TypeOK, Safe, EndOrder, Bookkeeping, AfterCommand, AfterExecs, AfterWm,
                       WmEnd, ServerEnd, NotRunning, ChildState, Children
<1> QED BY <1>1, SafeInvariant, PTL

(* begin_stop(), reap_and_kill() and stop_x11() together: the signals of a *)
(* stop come in order and in their time, for every grace and any number of *)
(* children and of stop events.                                            *)
THEOREM TermFirstHolds == Spec => []TermFirst
<1>1. KillAfterTerm /\ SingleGrace /\ GraceGranted => TermFirst
  BY DEF TermFirst
<1> QED BY <1>1, KillAfterTermHolds, SingleGraceHolds, PTL

(* reap(), shutdown() and their answers: nobody is forgotten on any way    *)
(* out of the loop.                                                        *)
THEOREM NobodyForgottenHolds == Spec => []NobodyForgotten
<1>1. ExecAnswered /\ NothingLeftBehind => NobodyForgotten
  BY DEF NobodyForgotten
<1> QED BY <1>1, ExecAnsweredHolds, NothingLeftBehindHolds, PTL

(* The flag a signal sets is taken before anything poll() reported is used: *)
(* where a process could be started, a stop that came first has been heard. *)
Heard ==
  /\ pc = "start" => ~asked /\ ~stopAtPoll
  /\ pc = "stop" /\ stopAtPoll => stop \/ asked
  /\ pc \in {"wake", "read"} /\ stopAtPoll => asked

LEMMA NextHeard == TypeOK /\ Heard /\ [Next]_vars => Heard'
<1> SUFFICES ASSUME TypeOK, Heard, [Next]_vars PROVE Heard'
    OBVIOUS
<1>1. CASE StartUp \/ StartFails
  BY <1>1 DEF StartUp, StartFails, Heard
<1>2. CASE WaitCommand \/ CheckX11 \/ ReapAndKill
  BY <1>2 DEF WaitCommand, CheckX11, ReapAndKill, Heard
<1>3. CASE Poll
  BY <1>3 DEF Poll, Heard
<1>4. CASE TakeStop
  <2>1. pc = "stop" /\ pc' \in {"wake", "wait"} /\ stopAtPoll' = stopAtPoll
    BY <1>4 DEF TakeStop
  <2>2. CASE stop
    BY <1>4, <2>1, <2>2 DEF TakeStop, BeginStop, Heard
  <2>3. CASE ~stop
    BY <1>4, <2>1, <2>3 DEF TakeStop, Heard
  <2> QED BY <2>2, <2>3
<1>5. CASE WakeX11
  <2>1. pc = "wake" /\ pc' = "read" /\ stopAtPoll' = stopAtPoll /\ (asked' = asked \/ asked')
    BY <1>5 DEF WakeX11, BeginStop
  <2> QED BY <2>1 DEF Heard
<1>6. CASE ReadPending \/ Accept
  BY <1>6 DEF ReadPending, Accept, Heard
<1>7. CASE Ending
  BY <1>7 DEF Ending, Shutdown, GraceReap, GraceOver, KillWait, StopWm, StopServer, StopChild, Heard
<1>8. CASE Outside
  BY <1>8 DEF Outside, ChildExits, Send, HangUp, Connect, XConnect, StopSignal, Tick, Heard, loopVars
<1>9. CASE Ended \/ UNCHANGED vars
  BY <1>9 DEF Ended, vars, Heard
<1> QED BY <1>1, <1>2, <1>3, <1>4, <1>5, <1>6, <1>7, <1>8, <1>9 DEF Next, Supervise, Loop

(* Who starts a process: main() its command, wake_x11() the server and its  *)
(* window manager, serve() an exec'd child.                                 *)
Starts(p) == child[p] = "none" /\ child'[p] = "up"
LEMMA NextStarts ==
  ASSUME TypeOK, Heard, [Next]_vars, NEW p \in Children, Starts(p)
  PROVE  ~asked /\ ~stopAtPoll
<1>1. CASE StartUp
  BY <1>1 DEF StartUp, Heard
<1>2. CASE WakeX11
  <2>1. ~asked
    BY <1>2 DEF WakeX11, Starts
  <2> QED BY <1>2, <2>1 DEF WakeX11, Heard
<1>3. CASE ReadPending
  <2>1. p \in Spawned
    BY <1>3 DEF ReadPending, Starts
  <2>2. ~asked
    BY <2>1 DEF Spawned, Spawns
  <2> QED BY <1>3, <2>2 DEF ReadPending, Heard
<1>4. CASE StartFails \/ Poll \/ TakeStop \/ Accept \/ Shutdown \/ GraceOver
  BY <1>4 DEF StartFails, Poll, TakeStop, Accept, Shutdown, GraceOver, Starts, kernelVars
<1>5. CASE WaitCommand \/ CheckX11 \/ ReapAndKill \/ GraceReap \/ KillWait
  BY <1>5 DEF WaitCommand, CheckX11, ReapAndKill, GraceReap, KillWait, ReapInto, Starts
<1>6. CASE StopWm \/ StopServer
  BY <1>6, Names DEF StopWm, StopServer, StopChild, Starts, TypeOK
<1>7. CASE Outside
  BY <1>7 DEF Outside, ChildExits, Send, HangUp, Connect, XConnect, StopSignal, Tick, Starts,
     kernelVars, TypeOK
<1>8. CASE Ended \/ UNCHANGED vars
  BY <1>8 DEF Ended, vars, Starts
<1> QED BY <1>1, <1>2, <1>3, <1>4, <1>5, <1>6, <1>7, <1>8 DEF Next, Supervise, Loop, Ending

(* begin_stop() comes before whatever the same poll() reported: neither an  *)
(* exec'd child nor the display server starts in a run that is ending.      *)
THEOREM NothingStartsLateHolds == Spec => NothingStartsLate
<1>1. Init => Heard
  BY DEF Init, Heard
<1>2. TypeOK /\ Heard /\ [Next]_vars => Heard'
  BY NextHeard
<1>3. TypeOK /\ Heard /\ [Next]_vars
        => [\A p \in Children : child[p] = "none" /\ child'[p] = "up" => ~asked /\ ~stopAtPoll]_vars
  BY NextStarts DEF Starts
<1> QED BY <1>1, <1>2, <1>3, TypeCorrect, PTL DEF Spec, NothingStartsLate
=============================================================================
