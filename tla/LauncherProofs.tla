--------------------------- MODULE LauncherProofs ---------------------------
(***************************************************************************)
(* Theorems about one run of the launcher, for every set of grants, about  *)
(* the cgroups of any number of runs, and about the descriptors of a start *)
(* whatever its caller left open.                                          *)
(***************************************************************************)
EXTENDS Launcher, Cgroups, SpawnFds, SequenceTheorems, WellFoundedInduction, TLAPS

(* Which sidecar each number of the start stands for.                      *)
LEMMA StartsFacts ==
  \A i \in 1..6 :
    /\ Starts[i] \in Sidecars
    /\ Starts[i] = "dbus" <=> i = 1
    /\ Starts[i] = "wayland" <=> i = 2
    /\ Starts[i] = "pw" <=> i = 3
    /\ Starts[i] = "pulse" <=> i = 4
    /\ Starts[i] = "pasta" <=> i = 5
    /\ Starts[i] = "netproxy" <=> i = 6
<1> SUFFICES ASSUME NEW i \in 1..6
             PROVE  /\ Starts[i] \in Sidecars
                    /\ Starts[i] = "dbus" <=> i = 1
                    /\ Starts[i] = "wayland" <=> i = 2
                    /\ Starts[i] = "pw" <=> i = 3
                    /\ Starts[i] = "pulse" <=> i = 4
                    /\ Starts[i] = "pasta" <=> i = 5
                    /\ Starts[i] = "netproxy" <=> i = 6
    OBVIOUS
<1>1. i = 1 \/ i = 2 \/ i = 3 \/ i = 4 \/ i = 5 \/ i = 6
  OBVIOUS
<1> QED BY <1>1 DEF Starts, Sidecars

(* The unwinding has fifteen steps.                                        *)
LEMMA DropLength == Len(DropSteps) = 15
BY DEF DropSteps

(* The steps of the unwinding the properties tell apart.                   *)
LEMMA DropFacts ==
  /\ Len(DropSteps) = 15
  /\ \A i \in 1..15 :
       /\ DropSteps[i] = "abort" <=> i = 3
       /\ DropSteps[i] = "cgroup" <=> i = 8
       /\ DropSteps[i] = "pulse" <=> i = 9
       /\ DropSteps[i] = "pw" <=> i = 10
       /\ DropSteps[i] = "wayland" <=> i = 11
       /\ DropSteps[i] = "buses" <=> i = 12
       /\ DropSteps[i] = "dbus" <=> i = 13
       /\ DropSteps[i] = "alloc" <=> i = 14
       /\ DropSteps[i] = "socket" <=> i = 15
       /\ DropSteps[i] = "pasta" <=> i \in {2, 4}
       /\ DropSteps[i] = "netproxy" <=> i \in {1, 5}
       /\ DropSteps[i] = "identity" <=> i = 6
       /\ DropSteps[i] = "raw" <=> i = 7
<1>2. \A i \in 1..15 : i = 1 \/ i = 2 \/ i = 3 \/ i = 4 \/ i = 5 \/ i = 6 \/ i = 7 \/ i = 8
                       \/ i = 9 \/ i = 10 \/ i = 11 \/ i = 12 \/ i = 13 \/ i = 14 \/ i = 15
  OBVIOUS
<1> QED BY <1>2, DropLength DEF DropSteps

(* Every step is one of these.                                             *)
LEMMA Steps ==
  ASSUME [Next]_vars
  PROVE  \/ Bind
         \/ Resolve
         \/ SkipSidecar
         \/ \E s \in Sidecars : SpawnSidecar(s)
         \/ \E s \in Sidecars : SawReady(s)
         \/ \E s \in Sidecars, r \in {"stopped", "failed"} : GaveUp(s, r)
         \/ \E s \in Sidecars : Adopt(s)
         \/ Gate
         \/ Prepare
         \/ BuildArgv
         \/ RawMode
         \/ SpawnBwrap
         \/ ReadInfo
         \/ PublishIdentity
         \/ OpenNamespaces
         \/ InstallRules
         \/ Release
         \/ Probe
         \/ Probed
         \/ ContextCreated
         \/ SpawnNft
         \/ FeedRules
         \/ LastCheck
         \/ FindSupervisor
         \/ Sink
         \/ CheckExit
         \/ LateError
         \/ Detach
         \/ \E s \in Sidecars : DropSidecar(s)
         \/ AbortSandbox
         \/ ReleaseCgroup
         \/ DropBuses
         \/ DropAlloc
         \/ \E g \in {"identity", "raw", "socket"} : DropGuard(g)
         \/ StopSignal
         \/ \E s \in Sidecars : SidecarReports(s)
         \/ \E s \in Sidecars : SidecarExits(s)
         \/ BwrapSetsUp
         \/ BwrapDies
         \/ BoxEnds
         \/ UNCHANGED vars
BY DEF Next, Bubbler, Answered, Starting, StartSidecars, Unwinding, Outside, Ended, StartProxy, StartWayland,
       StartPwContext, StartPwPulse, StartPasta, StartNetProxy, WaitReady, ReadReport, WaitPulse,
       AdoptProxyBus, AdoptSocket, DropProxy, DropWayland, DropPw, DropPulse, DropPasta,
       DropNetProxy, Failure, Sidecars

(* The types, action by action.                                            *)
LEMMA NextTypeOK == TypeOK /\ Position /\ [Next]_vars => TypeOK'
<1> SUFFICES ASSUME TypeOK, Position, [Next]_vars PROVE TypeOK'
    OBVIOUS
<1>a. ASSUME Bind PROVE kept' \in SUBSET {"socket", "cgroup", "raw", "identity"}
  BY <1>a DEF TypeOK, Bind
<1>b. ASSUME Prepare PROVE kept' \in SUBSET {"socket", "cgroup", "raw", "identity"}
  BY <1>b DEF TypeOK, Prepare, Leave
<1>c. ASSUME RawMode PROVE kept' \in SUBSET {"socket", "cgroup", "raw", "identity"}
  BY <1>c DEF TypeOK, RawMode, Leave
<1>d. ASSUME PublishIdentity PROVE kept' \in SUBSET {"socket", "cgroup", "raw", "identity"}
  BY <1>d DEF TypeOK, PublishIdentity
<1>f. ASSUME ReleaseCgroup PROVE kept' \in SUBSET {"socket", "cgroup", "raw", "identity"}
  BY <1>f DEF TypeOK, ReleaseCgroup
<1>e. ASSUME CheckExit PROVE side' \in [Sidecars -> ProcessState] /\ told' \in SUBSET
    {"supervisor", "bwrap"} /\ stop' \in BOOLEAN
  BY <1>e DEF TypeOK, CheckExit, Reaped, Leave, ProcessState
<1> USE DEF TypeOK, Position, Locations, BoxState, ProcessState, NetFailed, Abort, Locals,
    Unwound, WithDir
<1>1. CASE Bind
  BY <1>1, <1>a, DropLength DEF Bind, sidecarVars, sandboxVars
<1>2. CASE Resolve
  BY <1>2, DropLength DEF Resolve, Leave, sidecarVars, sandboxVars
<1>3. CASE SkipSidecar
  BY <1>3, DropLength, StartsFacts DEF SkipSidecar, Advance, Onward, This, sidecarVars, sandboxVars
<1>4. ASSUME NEW s \in Sidecars, SpawnSidecar(s) PROVE TypeOK'
  BY <1>4, DropLength, StartsFacts DEF SpawnSidecar, StartFails, Leave, This, sidecarVars,
      sandboxVars
<1>5. ASSUME NEW s \in Sidecars, SawReady(s) PROVE TypeOK'
  BY <1>5, DropLength, StartsFacts DEF SawReady, Advance, Onward, This, sidecarVars, sandboxVars
<1>6. ASSUME NEW s \in Sidecars, NEW r \in {"stopped", "failed"}, GaveUp(s, r) PROVE TypeOK'
  BY <1>6, DropLength, StartsFacts DEF GaveUp, StartFails, Leave, This, sidecarVars, sandboxVars
<1>7. ASSUME NEW s \in Sidecars, Adopt(s) PROVE TypeOK'
  BY <1>7, DropLength, StartsFacts DEF Adopt, StartFails, Leave, Advance, Onward, This,
      sidecarVars, sandboxVars
<1>8. CASE Gate
  BY <1>8, DropLength DEF Gate, Leave, sidecarVars, sandboxVars
<1>9. CASE Prepare
  BY <1>9, <1>b, DropLength DEF Prepare, Leave, sidecarVars, sandboxVars
<1>10. CASE BuildArgv
  BY <1>10, DropLength DEF BuildArgv, Leave, sidecarVars, sandboxVars
<1>11. CASE RawMode
  BY <1>11, <1>c, DropLength DEF RawMode, Leave, sidecarVars, sandboxVars
<1>12. CASE SpawnBwrap
  BY <1>12, DropLength DEF SpawnBwrap, Leave, sidecarVars, sandboxVars
<1>13. CASE ReadInfo
  <2>1. bwrap' \in ProcessState
    BY <1>13 DEF ReadInfo, Reaped
  <2>2. info' \in BOOLEAN
    BY <1>13, Zenon DEF ReadInfo
  <2>3. pc' \in Locations
    BY <1>13 DEF ReadInfo
  <2> HIDE DEF Position, Locations, BoxState, ProcessState
  <2> QED BY <1>13, <2>1, <2>2, <2>3, DropLength DEF ReadInfo, sidecarVars
<1>14. CASE PublishIdentity
  BY <1>14, <1>d, DropLength DEF PublishIdentity, sidecarVars, sandboxVars
<1>15. CASE OpenNamespaces
  BY <1>15, DropLength DEF OpenNamespaces, Leave, sidecarVars, sandboxVars
<1>16. CASE InstallRules
  <2>1. rules' \in BOOLEAN /\ result' \in {"none", "stopped", "failed", "late", "exited"}
    BY <1>16 DEF InstallRules, Leave, Failure
  <2> QED BY <1>16, <2>1, DropLength DEF InstallRules, Leave, Failure, sidecarVars, sandboxVars
<1>17. CASE Release
  <2>1. pc' \in Locations
    BY <1>17 DEF Release
  <2>3. block' \in BOOLEAN
    BY <1>17, Zenon DEF Release
  <2>2. box' \in BoxState
    BY <1>17 DEF Release, LetGo
  <2> HIDE DEF Position, Locations, BoxState, ProcessState
  <2> QED BY <1>17, <2>1, <2>2, <2>3, DropLength DEF Release, sidecarVars
<1>18. CASE FindSupervisor
  <2>1. bwrap' \in ProcessState
    BY <1>18 DEF FindSupervisor, Reaped
  <2>2. sup' \in BOOLEAN
    BY <1>18, Zenon DEF FindSupervisor
  <2>3. pc' \in Locations
    BY <1>18 DEF FindSupervisor
  <2> HIDE DEF Position, Locations, BoxState, ProcessState
  <2> QED BY <1>18, <2>1, <2>2, <2>3, DropLength DEF FindSupervisor, sidecarVars
<1>19. CASE Sink
  BY <1>19, DropLength DEF Sink, sidecarVars, sandboxVars
<1>20. CASE CheckExit
  <2>1. pc' \in Locations /\ at' \in 1..15 /\ result' \in {"none", "stopped", "failed", "late",
      "exited"}
    BY <1>20, DropLength DEF CheckExit, Leave
  <2>2. UNCHANGED <<grants, said, ready, asked, dirs, socks, kept, box, block, wrote, info,
      rules, sup, misfired, early>>
    BY <1>20 DEF CheckExit
  <2>3. bwrap' \in ProcessState
    BY <1>20 DEF CheckExit
  <2> HIDE DEF Position, Locations, BoxState, ProcessState
  <2> QED BY <1>20, <1>e, <2>1, <2>2, <2>3, DropLength
<1>21. CASE LateError
  BY <1>21, DropLength DEF LateError, Leave, sidecarVars, sandboxVars
<1>22. CASE Detach
  BY <1>22, DropLength DEF Detach, sidecarVars, sandboxVars
<1>23. ASSUME NEW s \in Sidecars, DropSidecar(s) PROVE TypeOK'
  BY <1>23, DropFacts DEF DropSidecar, DropNext, Cleared, Reaped, StillRunning, Step,
      sidecarVars, sandboxVars
<1>24. CASE AbortSandbox
  BY <1>24, DropFacts DEF AbortSandbox, DropNext, Step, sidecarVars, sandboxVars
<1>25. CASE ReleaseCgroup
  BY <1>25, <1>f, DropFacts DEF ReleaseCgroup, DropNext, Step, sidecarVars, sandboxVars
<1>26. CASE DropBuses
  BY <1>26, DropFacts DEF DropBuses, DropNext, Step, sidecarVars, sandboxVars
<1>27. CASE DropAlloc
  <2>1. pc' \in Locations /\ at' \in 1..15
    BY <1>27, DropLength DEF DropAlloc, DropNext
  <2>2. box' \in BoxState
    BY <1>27 DEF DropAlloc, LetGo
  <2> HIDE DEF Position, Locations, BoxState, ProcessState
  <2> QED BY <1>27, <2>1, <2>2, DropLength DEF DropAlloc, sidecarVars
<1>28. ASSUME NEW g \in {"identity", "raw", "socket"}, DropGuard(g) PROVE TypeOK'
  BY <1>28, DropFacts DEF DropGuard, DropNext, Step, sidecarVars, sandboxVars
<1>29. CASE StopSignal
  BY <1>29, DropLength DEF StopSignal, sidecarVars, sandboxVars
<1>30. ASSUME NEW s \in Sidecars, SidecarReports(s) PROVE TypeOK'
  BY <1>30, DropLength DEF SidecarReports, sidecarVars, sandboxVars
<1>31. ASSUME NEW s \in Sidecars, SidecarExits(s) PROVE TypeOK'
  BY <1>31, DropLength DEF SidecarExits, sidecarVars, sandboxVars
<1>32. CASE BwrapSetsUp
  BY <1>32, DropLength DEF BwrapSetsUp, sidecarVars, sandboxVars
<1>33. CASE BwrapDies
  BY <1>33, DropLength DEF BwrapDies, sidecarVars, sandboxVars
<1>34. CASE BoxEnds
  BY <1>34, DropLength DEF BoxEnds, sidecarVars, sandboxVars
<1>35. CASE UNCHANGED vars
  BY <1>35, DropLength DEF vars
<1>36. CASE Probe
  BY <1>36, DropLength, StartsFacts DEF Probe, StartFails, Leave, This, sidecarVars, sandboxVars
<1>37. CASE Probed
  BY <1>37, DropLength, StartsFacts DEF Probed, StartFails, Leave, This, sidecarVars, sandboxVars
<1>38. CASE ContextCreated
  BY <1>38, DropLength, StartsFacts DEF ContextCreated, StartFails, Leave, This, sidecarVars,
      sandboxVars
<1>39. CASE SpawnNft
  BY <1>39, DropLength DEF SpawnNft, Leave, sidecarVars, sandboxVars
<1>40. CASE FeedRules
  BY <1>40, DropLength DEF FeedRules, sidecarVars, sandboxVars
<1>41. CASE LastCheck
  BY <1>41, DropLength DEF LastCheck, Leave, Held, sidecarVars, sandboxVars
<1> HIDE DEF TypeOK, Position, Locations, BoxState, ProcessState, NetFailed, Abort, Locals,
    Unwound, WithDir
<1> QED
  BY <1>1, <1>2, <1>3, <1>4, <1>5, <1>6, <1>7, <1>8, <1>9, <1>10, <1>11, <1>12, <1>13, <1>14,
      <1>15, <1>16, <1>17, <1>18, <1>19, <1>20, <1>21, <1>22, <1>23, <1>24, <1>25, <1>26, <1>27,
      <1>28, <1>29, <1>30, <1>31, <1>32, <1>33, <1>34, <1>35,
      <1>36, <1>37, <1>38, <1>39, <1>40, <1>41, Steps

(* Where the run stands, action by action.                                 *)
LEMMA NextPosition == TypeOK /\ Position /\ [Next]_vars => Position'
<1> SUFFICES ASSUME TypeOK, Position, [Next]_vars PROVE Position'
    OBVIOUS
<1> USE DEF TypeOK, Position, Locations, Connecting, Isolated, NetFailed, Abort, Locals, Unwound,
    WithDir, Step, Held
<1>1. CASE Bind
  BY <1>1, DropLength DEF Bind, sidecarVars, sandboxVars
<1>2. CASE Resolve
  BY <1>2, DropLength DEF Resolve, Leave, sidecarVars, sandboxVars
<1>3. CASE SkipSidecar
  BY <1>3, DropLength, StartsFacts DEF SkipSidecar, Advance, Onward, This, sidecarVars, sandboxVars
<1>4. ASSUME NEW s \in Sidecars, SpawnSidecar(s) PROVE Position'
  BY <1>4, DropLength, StartsFacts DEF SpawnSidecar, StartFails, Leave, This, sidecarVars,
      sandboxVars
<1>5. ASSUME NEW s \in Sidecars, SawReady(s) PROVE Position'
  BY <1>5, DropLength, StartsFacts DEF SawReady, Advance, Onward, This, sidecarVars, sandboxVars
<1>6. ASSUME NEW s \in Sidecars, NEW r \in {"stopped", "failed"}, GaveUp(s, r) PROVE Position'
  BY <1>6, DropLength, StartsFacts DEF GaveUp, StartFails, Leave, This, sidecarVars, sandboxVars
<1>7. ASSUME NEW s \in Sidecars, Adopt(s) PROVE Position'
  BY <1>7, DropLength, StartsFacts DEF Adopt, StartFails, Leave, Advance, Onward, This,
      sidecarVars, sandboxVars
<1>8. CASE Gate
  BY <1>8, DropLength DEF Gate, Leave, sidecarVars, sandboxVars
<1>9. CASE Prepare
  BY <1>9, DropLength DEF Prepare, Leave, sidecarVars, sandboxVars
<1>10. CASE BuildArgv
  BY <1>10, DropLength DEF BuildArgv, Leave, sidecarVars, sandboxVars
<1>11. CASE RawMode
  BY <1>11, DropLength DEF RawMode, Leave, sidecarVars, sandboxVars
<1>12. CASE SpawnBwrap
  BY <1>12, DropLength DEF SpawnBwrap, Leave, sidecarVars, sandboxVars
<1>13. CASE ReadInfo
  BY <1>13, DropLength DEF ReadInfo, Reaped, sidecarVars, sandboxVars
<1>14. CASE PublishIdentity
  BY <1>14, DropLength DEF PublishIdentity, sidecarVars, sandboxVars
<1>15. CASE OpenNamespaces
  BY <1>15, DropLength DEF OpenNamespaces, Leave, sidecarVars, sandboxVars
<1>16. CASE InstallRules
  BY <1>16, DropLength DEF InstallRules, Leave, Failure, sidecarVars, sandboxVars
<1>17. CASE Release
  BY <1>17, DropLength DEF Release, LetGo, Leave, sidecarVars, sandboxVars
<1>18. CASE FindSupervisor
  BY <1>18, DropLength DEF FindSupervisor, Reaped, sidecarVars, sandboxVars
<1>19. CASE Sink
  BY <1>19, DropLength DEF Sink, sidecarVars, sandboxVars
<1>20. CASE CheckExit
  BY <1>20, DropLength DEF CheckExit, Leave, Reaped, sidecarVars, sandboxVars
<1>21. CASE LateError
  BY <1>21, DropLength DEF LateError, Leave, sidecarVars, sandboxVars
<1>22. CASE Detach
  BY <1>22, DropLength DEF Detach, sidecarVars, sandboxVars
<1>23. ASSUME NEW s \in Sidecars, DropSidecar(s) PROVE Position'
  BY <1>23, DropFacts DEF DropSidecar, DropNext, Cleared, Reaped, StillRunning, Step,
      sidecarVars, sandboxVars
<1>24. CASE AbortSandbox
  BY <1>24, DropFacts DEF AbortSandbox, DropNext, Step, sidecarVars, sandboxVars
<1>25. CASE ReleaseCgroup
  BY <1>25, DropFacts DEF ReleaseCgroup, DropNext, Step, sidecarVars, sandboxVars
<1>26. CASE DropBuses
  BY <1>26, DropFacts DEF DropBuses, DropNext, Step, sidecarVars, sandboxVars
<1>27. CASE DropAlloc
  BY <1>27, DropFacts DEF DropAlloc, DropNext, LetGo, Step, sidecarVars, sandboxVars
<1>28. ASSUME NEW g \in {"identity", "raw", "socket"}, DropGuard(g) PROVE Position'
  BY <1>28, DropFacts DEF DropGuard, DropNext, Step, sidecarVars, sandboxVars
<1>29. CASE StopSignal
  BY <1>29, DropLength DEF StopSignal, sidecarVars, sandboxVars
<1>30. ASSUME NEW s \in Sidecars, SidecarReports(s) PROVE Position'
  BY <1>30, DropLength DEF SidecarReports, sidecarVars, sandboxVars
<1>31. ASSUME NEW s \in Sidecars, SidecarExits(s) PROVE Position'
  BY <1>31, DropLength DEF SidecarExits, sidecarVars, sandboxVars
<1>32. CASE BwrapSetsUp
  BY <1>32, DropLength DEF BwrapSetsUp, sidecarVars, sandboxVars
<1>33. CASE BwrapDies
  BY <1>33, DropLength DEF BwrapDies, sidecarVars, sandboxVars
<1>34. CASE BoxEnds
  BY <1>34, DropLength DEF BoxEnds, sidecarVars, sandboxVars
<1>35. CASE UNCHANGED vars
  BY <1>35, DropLength DEF vars
<1>36. CASE Probe
  BY <1>36, DropLength, StartsFacts DEF Probe, StartFails, Leave, This, sidecarVars, sandboxVars
<1>37. CASE Probed
  BY <1>37, DropLength, StartsFacts DEF Probed, StartFails, Leave, This, sidecarVars, sandboxVars
<1>38. CASE ContextCreated
  BY <1>38, DropLength, StartsFacts DEF ContextCreated, StartFails, Leave, This, sidecarVars,
      sandboxVars
<1>39. CASE SpawnNft
  BY <1>39, DropLength DEF SpawnNft, Leave, sidecarVars, sandboxVars
<1>40. CASE FeedRules
  BY <1>40, DropLength DEF FeedRules, sidecarVars, sandboxVars
<1>41. CASE LastCheck
  BY <1>41, DropLength DEF LastCheck, Leave, Held, sidecarVars, sandboxVars
<1> HIDE DEF TypeOK, Position, Locations, Connecting, Isolated, NetFailed, Abort, Locals, Unwound,
    WithDir, Step
<1> QED
  BY <1>1, <1>2, <1>3, <1>4, <1>5, <1>6, <1>7, <1>8, <1>9, <1>10, <1>11, <1>12, <1>13, <1>14,
      <1>15, <1>16, <1>17, <1>18, <1>19, <1>20, <1>21, <1>22, <1>23, <1>24, <1>25, <1>26, <1>27,
      <1>28, <1>29, <1>30, <1>31, <1>32, <1>33, <1>34, <1>35,
      <1>36, <1>37, <1>38, <1>39, <1>40, <1>41, Steps

(* The sandbox's processes, action by action.                              *)
LEMMA NextContainment == TypeOK /\ Position /\ Containment /\ [Next]_vars => Containment'
<1> SUFFICES ASSUME TypeOK, Position, Containment, [Next]_vars PROVE Containment'
    OBVIOUS
<1> USE DEF TypeOK, Position, Containment, BoxState, ProcessState, BeforeBwrap, Connecting, Held,
    Isolated, NetFailed, Abort, Locals, Unwound, WithDir, Network, Step
<1>1. CASE Bind
  BY <1>1, DropLength DEF Bind, sidecarVars, sandboxVars
<1>2. CASE Resolve
  BY <1>2, DropLength DEF Resolve, Leave, sidecarVars, sandboxVars
<1>3. CASE SkipSidecar
  BY <1>3, DropLength, StartsFacts DEF SkipSidecar, Advance, Onward, This, sidecarVars, sandboxVars
<1>4. ASSUME NEW s \in Sidecars, SpawnSidecar(s) PROVE Containment'
  BY <1>4, DropLength, StartsFacts DEF SpawnSidecar, StartFails, Leave, This, sidecarVars,
      sandboxVars
<1>5. ASSUME NEW s \in Sidecars, SawReady(s) PROVE Containment'
  BY <1>5, DropLength, StartsFacts DEF SawReady, Advance, Onward, This, sidecarVars, sandboxVars
<1>6. ASSUME NEW s \in Sidecars, NEW r \in {"stopped", "failed"}, GaveUp(s, r) PROVE Containment'
  BY <1>6, DropLength, StartsFacts DEF GaveUp, StartFails, Leave, This, sidecarVars, sandboxVars
<1>7. ASSUME NEW s \in Sidecars, Adopt(s) PROVE Containment'
  BY <1>7, DropLength, StartsFacts DEF Adopt, StartFails, Leave, Advance, Onward, This,
      sidecarVars, sandboxVars
<1>8. CASE Gate
  BY <1>8, DropLength DEF Gate, Leave, sidecarVars, sandboxVars
<1>9. CASE Prepare
  BY <1>9, DropLength DEF Prepare, Leave, sidecarVars, sandboxVars
<1>10. CASE BuildArgv
  BY <1>10, DropLength DEF BuildArgv, Leave, sidecarVars, sandboxVars
<1>11. CASE RawMode
  BY <1>11, DropLength DEF RawMode, Leave, sidecarVars, sandboxVars
<1>12. CASE SpawnBwrap
  BY <1>12, DropLength DEF SpawnBwrap, Leave, sidecarVars, sandboxVars
<1>13. CASE ReadInfo
  BY <1>13, DropLength DEF ReadInfo, Reaped, sidecarVars, sandboxVars
<1>14. CASE PublishIdentity
  BY <1>14, DropLength DEF PublishIdentity, sidecarVars, sandboxVars
<1>15. CASE OpenNamespaces
  BY <1>15, DropLength DEF OpenNamespaces, Leave, sidecarVars, sandboxVars
<1>16. CASE InstallRules
  BY <1>16, DropLength DEF InstallRules, Leave, Failure, sidecarVars, sandboxVars
<1>17. CASE Release
  BY <1>17, DropLength DEF Release, LetGo, sidecarVars
<1>18. CASE FindSupervisor
  BY <1>18, DropLength DEF FindSupervisor, Reaped, sidecarVars, sandboxVars
<1>19. CASE Sink
  BY <1>19, DropLength DEF Sink, sidecarVars, sandboxVars
<1>20. CASE CheckExit
  BY <1>20, DropLength DEF CheckExit, Leave, Reaped, sidecarVars, sandboxVars
<1>21. CASE LateError
  BY <1>21, DropLength DEF LateError, Leave, sidecarVars, sandboxVars
<1>22. CASE Detach
  BY <1>22, DropLength DEF Detach, sidecarVars, sandboxVars
<1>23. ASSUME NEW s \in Sidecars, DropSidecar(s) PROVE Containment'
  BY <1>23, DropFacts DEF DropSidecar, DropNext, Sidecars, sandboxVars
<1>24. CASE AbortSandbox
  BY <1>24, DropFacts DEF AbortSandbox, DropNext, Step, sidecarVars, sandboxVars
<1>25. CASE ReleaseCgroup
  BY <1>25, DropFacts DEF ReleaseCgroup, DropNext, Step, sidecarVars, sandboxVars
<1>26. CASE DropBuses
  BY <1>26, DropFacts DEF DropBuses, DropNext, Step, sidecarVars, sandboxVars
<1>27. CASE DropAlloc
  BY <1>27, DropFacts DEF DropAlloc, DropNext, LetGo, Step, sidecarVars, sandboxVars
<1>28. ASSUME NEW g \in {"identity", "raw", "socket"}, DropGuard(g) PROVE Containment'
  BY <1>28, DropFacts DEF DropGuard, DropNext, Step, sidecarVars, sandboxVars
<1>29. CASE StopSignal
  BY <1>29, DropLength DEF StopSignal, sidecarVars, sandboxVars
<1>30. ASSUME NEW s \in Sidecars, SidecarReports(s) PROVE Containment'
  BY <1>30, DropLength DEF SidecarReports, sidecarVars, sandboxVars
<1>31. ASSUME NEW s \in Sidecars, SidecarExits(s) PROVE Containment'
  BY <1>31, DropLength DEF SidecarExits, sidecarVars, sandboxVars
<1>32. CASE BwrapSetsUp
  BY <1>32, DropLength DEF BwrapSetsUp, sidecarVars, sandboxVars
<1>33. CASE BwrapDies
  BY <1>33, DropLength DEF BwrapDies, sidecarVars, sandboxVars
<1>34. CASE BoxEnds
  BY <1>34, DropLength DEF BoxEnds, sidecarVars, sandboxVars
<1>35. CASE UNCHANGED vars
  BY <1>35, DropLength DEF vars
<1>36. CASE Probe
  BY <1>36, DropLength, StartsFacts DEF Probe, StartFails, Leave, This, sidecarVars, sandboxVars
<1>37. CASE Probed
  BY <1>37, DropLength, StartsFacts DEF Probed, StartFails, Leave, This, sidecarVars, sandboxVars
<1>38. CASE ContextCreated
  BY <1>38, DropLength, StartsFacts DEF ContextCreated, StartFails, Leave, This, sidecarVars,
      sandboxVars
<1>39. CASE SpawnNft
  BY <1>39, DropLength DEF SpawnNft, Leave, sidecarVars, sandboxVars
<1>40. CASE FeedRules
  BY <1>40, DropLength DEF FeedRules, sidecarVars, sandboxVars
<1>41. CASE LastCheck
  BY <1>41, DropLength DEF LastCheck, Leave, Held, sidecarVars, sandboxVars
<1> HIDE DEF TypeOK, Position, Containment, BoxState, ProcessState, BeforeBwrap, Connecting, Held,
    Isolated, NetFailed, Abort, Locals, Unwound, WithDir, Network, Step
<1> QED
  BY <1>1, <1>2, <1>3, <1>4, <1>5, <1>6, <1>7, <1>8, <1>9, <1>10, <1>11, <1>12, <1>13, <1>14,
      <1>15, <1>16, <1>17, <1>18, <1>19, <1>20, <1>21, <1>22, <1>23, <1>24, <1>25, <1>26, <1>27,
      <1>28, <1>29, <1>30, <1>31, <1>32, <1>33, <1>34, <1>35,
      <1>36, <1>37, <1>38, <1>39, <1>40, <1>41, Steps

(* What is up and ready, action by action.                                 *)
LEMMA NextProgress == TypeOK /\ Position /\ Containment /\ Progress /\ [Next]_vars => Progress'
<1> SUFFICES ASSUME TypeOK, Position, Containment, Progress, [Next]_vars PROVE Progress'
    OBVIOUS
<1> USE DEF TypeOK, Position, Containment, Progress, RulesBeforeRoute, StartingUp, This, Starts,
    Sidecars, BeforeBwrap, Connecting, Isolated, NetFailed, Abort, Locals, Unwound, WithDir,
    Network, Step
<1>1. CASE Bind
  BY <1>1, DropLength DEF Bind, sidecarVars, sandboxVars
<1>2. CASE Resolve
  BY <1>2, DropLength DEF Resolve, Leave, sidecarVars, sandboxVars
<1>3. CASE SkipSidecar
  BY <1>3, DropLength DEF SkipSidecar, Advance, Onward, This, sidecarVars, sandboxVars
<1>4. ASSUME NEW s \in Sidecars, SpawnSidecar(s) PROVE Progress'
  BY <1>4, DropLength DEF SpawnSidecar, StartFails, Leave, This, sidecarVars, sandboxVars
<1>5. ASSUME NEW s \in Sidecars, SawReady(s) PROVE Progress'
  BY <1>5, DropLength DEF SawReady, Advance, Onward, This, sidecarVars, sandboxVars
<1>6. ASSUME NEW s \in Sidecars, NEW r \in {"stopped", "failed"}, GaveUp(s, r) PROVE Progress'
  BY <1>6, DropLength DEF GaveUp, StartFails, Leave, This, sidecarVars, sandboxVars
<1>7. ASSUME NEW s \in Sidecars, Adopt(s) PROVE Progress'
  BY <1>7, DropLength DEF Adopt, StartFails, Leave, Advance, Onward, This, sidecarVars, sandboxVars
<1>8. CASE Gate
  BY <1>8, DropLength DEF Gate, Leave, sidecarVars, sandboxVars
<1>9. CASE Prepare
  BY <1>9, DropLength DEF Prepare, Leave, sidecarVars, sandboxVars
<1>10. CASE BuildArgv
  BY <1>10, DropLength DEF BuildArgv, Leave, sidecarVars, sandboxVars
<1>11. CASE RawMode
  BY <1>11, DropLength DEF RawMode, Leave, sidecarVars, sandboxVars
<1>12. CASE SpawnBwrap
  BY <1>12, DropLength DEF SpawnBwrap, Leave, sidecarVars, sandboxVars
<1>13. CASE ReadInfo
  BY <1>13, DropLength DEF ReadInfo, Reaped, sidecarVars, sandboxVars
<1>14. CASE PublishIdentity
  BY <1>14, DropLength DEF PublishIdentity, sidecarVars, sandboxVars
<1>15. CASE OpenNamespaces
  BY <1>15, DropLength, ConfigsAssumption DEF OpenNamespaces, Leave, sidecarVars, sandboxVars
<1>16. CASE InstallRules
  BY <1>16, DropLength DEF InstallRules, Leave, Failure, sidecarVars, sandboxVars
<1>17. CASE Release
  BY <1>17, DropLength DEF Release, LetGo, Leave, sidecarVars, sandboxVars
<1>18. CASE FindSupervisor
  BY <1>18, DropLength DEF FindSupervisor, Reaped, sidecarVars, sandboxVars
<1>19. CASE Sink
  BY <1>19, DropLength DEF Sink, sidecarVars, sandboxVars
<1>20. CASE CheckExit
  BY <1>20, DropLength DEF CheckExit, Leave, Reaped, sidecarVars, sandboxVars
<1>21. CASE LateError
  BY <1>21, DropLength DEF LateError, Leave, sidecarVars, sandboxVars
<1>22. CASE Detach
  BY <1>22, DropLength DEF Detach, sidecarVars, sandboxVars
<1>23. ASSUME NEW s \in Sidecars, DropSidecar(s) PROVE Progress'
  BY <1>23, DropFacts DEF DropSidecar, DropNext, Cleared, Reaped, StillRunning, Step,
      sidecarVars, sandboxVars
<1>24. CASE AbortSandbox
  BY <1>24, DropFacts DEF AbortSandbox, DropNext, Step, sidecarVars, sandboxVars
<1>25. CASE ReleaseCgroup
  BY <1>25, DropFacts DEF ReleaseCgroup, DropNext, Step, sidecarVars, sandboxVars
<1>26. CASE DropBuses
  BY <1>26, DropFacts DEF DropBuses, DropNext, Step, sidecarVars, sandboxVars
<1>27. CASE DropAlloc
  BY <1>27, DropFacts DEF DropAlloc, DropNext, LetGo, Step, sidecarVars, sandboxVars
<1>28. ASSUME NEW g \in {"identity", "raw", "socket"}, DropGuard(g) PROVE Progress'
  BY <1>28, DropFacts DEF DropGuard, DropNext, Step, sidecarVars, sandboxVars
<1>29. CASE StopSignal
  BY <1>29, DropLength DEF StopSignal, sidecarVars, sandboxVars
<1>30. ASSUME NEW s \in Sidecars, SidecarReports(s) PROVE Progress'
  BY <1>30, DropLength DEF SidecarReports, sidecarVars, sandboxVars
<1>31. ASSUME NEW s \in Sidecars, SidecarExits(s) PROVE Progress'
  BY <1>31, DropLength DEF SidecarExits, sidecarVars, sandboxVars
<1>32. CASE BwrapSetsUp
  BY <1>32, DropLength DEF BwrapSetsUp, sidecarVars, sandboxVars
<1>33. CASE BwrapDies
  BY <1>33, DropLength DEF BwrapDies, sidecarVars, sandboxVars
<1>34. CASE BoxEnds
  BY <1>34, DropLength DEF BoxEnds, sidecarVars, sandboxVars
<1>35. CASE UNCHANGED vars
  BY <1>35, DropLength DEF vars
<1>36. CASE Probe
  BY <1>36, DropLength, StartsFacts DEF Probe, StartFails, Leave, This, sidecarVars, sandboxVars
<1>37. CASE Probed
  BY <1>37, DropLength, StartsFacts DEF Probed, StartFails, Leave, This, sidecarVars, sandboxVars
<1>38. CASE ContextCreated
  BY <1>38, DropLength, StartsFacts DEF ContextCreated, StartFails, Leave, This, sidecarVars,
      sandboxVars
<1>39. CASE SpawnNft
  BY <1>39, DropLength DEF SpawnNft, Leave, sidecarVars, sandboxVars
<1>40. CASE FeedRules
  BY <1>40, DropLength DEF FeedRules, sidecarVars, sandboxVars
<1>41. CASE LastCheck
  BY <1>41, DropLength DEF LastCheck, Leave, Held, sidecarVars, sandboxVars
<1> HIDE DEF TypeOK, Position, Containment, Progress, RulesBeforeRoute, StartingUp, This, Starts,
    Sidecars, BeforeBwrap, Connecting, Isolated, NetFailed, Abort, Locals, Unwound, WithDir,
    Network, Step
<1> QED
  BY <1>1, <1>2, <1>3, <1>4, <1>5, <1>6, <1>7, <1>8, <1>9, <1>10, <1>11, <1>12, <1>13, <1>14,
      <1>15, <1>16, <1>17, <1>18, <1>19, <1>20, <1>21, <1>22, <1>23, <1>24, <1>25, <1>26, <1>27,
      <1>28, <1>29, <1>30, <1>31, <1>32, <1>33, <1>34, <1>35,
      <1>36, <1>37, <1>38, <1>39, <1>40, <1>41, Steps

(* What the unwinding has undone, action by action.                        *)
LEMMA NextUndoing == TypeOK /\ Position /\ Progress /\ Containment /\ Undoing /\ [Next]_vars => Undoing'
<1> SUFFICES ASSUME TypeOK, Position, Progress, Containment, Undoing, [Next]_vars PROVE Undoing'
    OBVIOUS
<1> USE DEF TypeOK, Position, Containment, Undoing, Undone, ClientsGoFirst, Sidecars, BeforeBwrap,
    Connecting, Isolated, NetFailed, Abort, Locals, Unwound, WithDir, Network, Step
<1>1. CASE Bind
  BY <1>1, DropLength DEF Bind, sidecarVars, sandboxVars
<1>2. CASE Resolve
  BY <1>2, DropLength DEF Resolve, Leave, sidecarVars, sandboxVars
<1>3. CASE SkipSidecar
  BY <1>3, DropLength, StartsFacts DEF SkipSidecar, Advance, Onward, This, sidecarVars, sandboxVars
<1>4. ASSUME NEW s \in Sidecars, SpawnSidecar(s) PROVE Undoing'
  BY <1>4, StartsFacts, DropFacts DEF Progress, SpawnSidecar, StartFails, Leave, This, sandboxVars
<1>5. ASSUME NEW s \in Sidecars, SawReady(s) PROVE Undoing'
  BY <1>5, DropLength, StartsFacts DEF SawReady, Advance, Onward, This, sidecarVars, sandboxVars
<1>6. ASSUME NEW s \in Sidecars, NEW r \in {"stopped", "failed"}, GaveUp(s, r) PROVE Undoing'
  BY <1>6, DropLength, StartsFacts DEF GaveUp, StartFails, Leave, This, sidecarVars, sandboxVars
<1>7. ASSUME NEW s \in Sidecars, Adopt(s) PROVE Undoing'
  BY <1>7, DropLength, StartsFacts DEF Adopt, StartFails, Leave, Advance, Onward, This,
      sidecarVars, sandboxVars
<1>8. CASE Gate
  BY <1>8, DropLength DEF Gate, Leave, sidecarVars, sandboxVars
<1>9. CASE Prepare
  BY <1>9, DropLength DEF Prepare, Leave, sidecarVars, sandboxVars
<1>10. CASE BuildArgv
  BY <1>10, DropLength DEF BuildArgv, Leave, sidecarVars, sandboxVars
<1>11. CASE RawMode
  BY <1>11, DropLength DEF RawMode, Leave, sidecarVars, sandboxVars
<1>12. CASE SpawnBwrap
  BY <1>12, DropLength DEF SpawnBwrap, Leave, sidecarVars, sandboxVars
<1>13. CASE ReadInfo
  BY <1>13, DropLength DEF ReadInfo, Reaped, sidecarVars, sandboxVars
<1>14. CASE PublishIdentity
  BY <1>14, DropLength DEF PublishIdentity, sidecarVars, sandboxVars
<1>15. CASE OpenNamespaces
  BY <1>15, DropLength DEF OpenNamespaces, Leave, sidecarVars, sandboxVars
<1>16. CASE InstallRules
  BY <1>16, DropLength DEF InstallRules, Leave, Failure, sidecarVars, sandboxVars
<1>17. CASE Release
  BY <1>17, DropLength DEF Release, LetGo, sidecarVars
<1>18. CASE FindSupervisor
  BY <1>18, DropLength DEF FindSupervisor, Reaped, sidecarVars, sandboxVars
<1>19. CASE Sink
  BY <1>19, DropLength DEF Sink, sidecarVars, sandboxVars
<1>20. CASE CheckExit
  BY <1>20, DropLength DEF CheckExit, Leave, Reaped, sidecarVars, sandboxVars
<1>21. CASE LateError
  BY <1>21, DropLength DEF LateError, Leave, sidecarVars, sandboxVars
<1>22. CASE Detach
  BY <1>22, DropLength DEF Detach, sidecarVars, sandboxVars
<1>23. ASSUME NEW s \in Sidecars, DropSidecar(s) PROVE Undoing'
  <2>1. \A x \in Sidecars : side[x] \in {"none", "gone"} => side'[x] = side[x]
    BY <1>23 DEF DropSidecar, StillRunning, Reaped
  <2>2. s = "pw" /\ asked' # asked => side["pulse"] \in {"none", "gone"}
    <3>1. SUFFICES ASSUME s = "pw", pc = "drop" PROVE side["pulse"] \in {"none", "gone"}
      BY <1>23 DEF DropSidecar
    <3>2. at = 10
      BY <1>23, <3>1, DropFacts DEF DropSidecar
    <3>3. Undone(DropSteps[9]) /\ DropSteps[9] = "pulse"
      BY <3>1, <3>2, DropFacts
    <3> QED BY <3>3
  <2>3. ClientsGoFirst'
    BY <1>23, <2>1, <2>2 DEF DropSidecar
  <2>4. ASSUME NEW i \in Locals..(at - 1) PROVE Undone(DropSteps[i])'
    <3>1. Undone(DropSteps[i])
      BY <1>23 DEF DropSidecar
    <3>2. dirs' \subseteq dirs /\ socks' \subseteq socks /\ UNCHANGED <<kept, box>>
      BY <1>23 DEF DropSidecar, Cleared, sandboxVars
    <3> QED BY <3>1, <3>2, <2>1, DropFacts
  <2>5. DropSteps[at] = s /\ (pc' # "stopping" => Undone(s)')
    BY <1>23, DropFacts DEF DropSidecar, Cleared, StillRunning, Reaped, ProcessState
  <2> QED
    <3> HIDE DEF Undone
    <3>1. \/ pc' = "stopping" /\ at' = at
          \/ pc' = "drop" /\ at' = at + 1
          \/ pc' = "done" /\ at = 15
      BY <1>23, DropLength DEF DropSidecar, DropNext
    <3>2. ASSUME pc' # "stopping", NEW i \in Locals..at PROVE Undone(DropSteps[i])'
      BY <2>4, <2>5, <3>2
    <3> QED BY <2>3, <2>4, <3>1, <3>2, DropLength
<1>24. CASE AbortSandbox
  BY <1>24, DropFacts DEF AbortSandbox, DropNext, Step, sidecarVars, sandboxVars
<1>25. CASE ReleaseCgroup
  BY <1>25, DropFacts DEF ReleaseCgroup, DropNext, Step, sidecarVars, sandboxVars
<1>26. CASE DropBuses
  BY <1>26, DropFacts DEF DropBuses, DropNext, Step, sidecarVars, sandboxVars
<1>27. CASE DropAlloc
  BY <1>27, DropFacts DEF DropAlloc, DropNext, LetGo, Step, sidecarVars, sandboxVars
<1>28. ASSUME NEW g \in {"identity", "raw", "socket"}, DropGuard(g) PROVE Undoing'
  BY <1>28, DropFacts DEF DropGuard, DropNext, Step, sidecarVars, sandboxVars
<1>29. CASE StopSignal
  BY <1>29, DropLength DEF StopSignal, sidecarVars, sandboxVars
<1>30. ASSUME NEW s \in Sidecars, SidecarReports(s) PROVE Undoing'
  BY <1>30, DropLength DEF SidecarReports, sidecarVars, sandboxVars
<1>31. ASSUME NEW s \in Sidecars, SidecarExits(s) PROVE Undoing'
  BY <1>31, DropLength DEF SidecarExits, sidecarVars, sandboxVars
<1>32. CASE BwrapSetsUp
  BY <1>32, DropLength DEF BwrapSetsUp, sidecarVars, sandboxVars
<1>33. CASE BwrapDies
  BY <1>33, DropLength DEF BwrapDies, sidecarVars, sandboxVars
<1>34. CASE BoxEnds
  BY <1>34, DropLength DEF BoxEnds, sidecarVars, sandboxVars
<1>35. CASE UNCHANGED vars
  BY <1>35, DropLength DEF vars
<1>36. CASE Probe
  BY <1>36, DropLength, StartsFacts DEF Probe, StartFails, Leave, This, sidecarVars, sandboxVars
<1>37. CASE Probed
  BY <1>37, DropLength, StartsFacts DEF Probed, StartFails, Leave, This, sidecarVars, sandboxVars
<1>38. CASE ContextCreated
  BY <1>38, DropLength, StartsFacts DEF ContextCreated, StartFails, Leave, This, sidecarVars,
      sandboxVars
<1>39. CASE SpawnNft
  BY <1>39, DropLength DEF SpawnNft, Leave, sidecarVars, sandboxVars
<1>40. CASE FeedRules
  BY <1>40, DropLength DEF FeedRules, sidecarVars, sandboxVars
<1>41. CASE LastCheck
  BY <1>41, DropLength DEF LastCheck, Leave, Held, sidecarVars, sandboxVars
<1> HIDE DEF TypeOK, Position, Containment, Undoing, Undone, ClientsGoFirst, Sidecars,
    BeforeBwrap, Connecting, Isolated, NetFailed, Abort, Locals, Unwound, WithDir, Network, Step
<1> QED
  BY <1>1, <1>2, <1>3, <1>4, <1>5, <1>6, <1>7, <1>8, <1>9, <1>10, <1>11, <1>12, <1>13, <1>14,
      <1>15, <1>16, <1>17, <1>18, <1>19, <1>20, <1>21, <1>22, <1>23, <1>24, <1>25, <1>26, <1>27,
      <1>28, <1>29, <1>30, <1>31, <1>32, <1>33, <1>34, <1>35,
      <1>36, <1>37, <1>38, <1>39, <1>40, <1>41, Steps

(* An early stop stays pending until the run has seen it.                  *)
LEMMA NextPending == TypeOK /\ Position /\ Pending /\ [Next]_vars => Pending'
<1> SUFFICES ASSUME TypeOK, Position, Pending, [Next]_vars PROVE Pending'
    OBVIOUS
<1> USE DEF Pending, Held, Isolated
<1>1. ASSUME UNCHANGED <<grants, stop, early>>,
             \/ UNCHANGED <<pc, result>>
             \/ result # "none" /\ (result' = result \/ result' \in {"stopped", "failed"})
             \/ result' \in {"stopped", "failed", "late"}
             \/ /\ UNCHANGED result
                /\ pc' \in {"release", "supervisor", "sink", "wait"} =>
                     pc \in {"release", "supervisor", "sink", "wait"} \/ ~Held \/ ~stop
      PROVE  Pending'
  BY <1>1
<1>2. ASSUME NEW s \in Sidecars, DropSidecar(s) PROVE Pending'
  <2>1. pc \in Unwound /\ UNCHANGED <<grants, stop, early, result>>
    BY <1>2 DEF DropSidecar, Unwound
  <2>2. result # "none"
    BY <2>1 DEF Position
  <2> QED
    BY <2>1, <2>2
<1>3. CASE CheckExit
  BY <1>3 DEF CheckExit, Leave, Position, Unwound
<1>4. CASE StopSignal
  BY <1>4 DEF StopSignal, Position
<1>5. CASE AbortSandbox \/ ReleaseCgroup \/ DropBuses \/ DropAlloc
  BY <1>1, <1>5 DEF AbortSandbox, ReleaseCgroup, DropBuses, DropAlloc, Position, Unwound
<1>6. ASSUME NEW g \in {"identity", "raw", "socket"}, DropGuard(g) PROVE Pending'
  BY <1>1, <1>6 DEF DropGuard, Position, Unwound
<1>7. CASE Bind \/ Resolve \/ SkipSidecar \/ Gate \/ Prepare \/ BuildArgv \/ RawMode \/ SpawnBwrap
  BY <1>1, <1>7 DEF Bind, Resolve, SkipSidecar, Gate, Prepare, BuildArgv, RawMode, SpawnBwrap,
                    Leave, Advance, Onward
<1>8. CASE ReadInfo \/ PublishIdentity \/ OpenNamespaces \/ SpawnNft \/ FeedRules \/ InstallRules
  BY <1>1, <1>8 DEF ReadInfo, PublishIdentity, OpenNamespaces, SpawnNft, FeedRules, InstallRules,
                    Leave, Failure
<1>9. CASE LastCheck \/ Release \/ FindSupervisor \/ Sink \/ LateError \/ Detach
  BY <1>1, <1>9 DEF LastCheck, Release, FindSupervisor, Sink, LateError, Detach, Leave
<1>10. CASE Probe \/ Probed \/ ContextCreated
  BY <1>1, <1>10 DEF Probe, Probed, ContextCreated, StartFails, Leave
<1>11. ASSUME NEW s \in Sidecars, NEW r \in {"stopped", "failed"},
              SpawnSidecar(s) \/ SawReady(s) \/ GaveUp(s, r) \/ Adopt(s)
       PROVE  Pending'
  BY <1>1, <1>11 DEF SpawnSidecar, SawReady, GaveUp, Adopt, StartFails, Leave, Advance, Onward
<1>12. CASE BwrapSetsUp \/ BwrapDies \/ BoxEnds \/ UNCHANGED vars
  BY <1>1, <1>12 DEF BwrapSetsUp, BwrapDies, BoxEnds, vars
<1>13. ASSUME NEW s \in Sidecars, SidecarReports(s) \/ SidecarExits(s) PROVE Pending'
  BY <1>1, <1>13 DEF SidecarReports, SidecarExits
<1> HIDE DEF Pending, Held, Isolated
<1> QED BY <1>2, <1>3, <1>4, <1>5, <1>6, <1>7, <1>8, <1>9, <1>10, <1>11, <1>12, <1>13, Steps

(* LauncherInv holds initially...                                          *)
LEMMA InitLauncherInv == Init => TypeOK /\ LauncherInv
<1> SUFFICES ASSUME Init PROVE TypeOK /\ LauncherInv
    OBVIOUS
<1>1. TypeOK
  <2>1. side \in [Sidecars -> ProcessState]
    BY DEF Init, ProcessState
  <2>2. /\ pc \in Locations /\ at \in 1..Len(DropSteps)
        /\ box \in BoxState /\ bwrap \in ProcessState
    BY DropFacts DEF Init, Locations, BoxState, ProcessState
  <2>3. /\ kept \in SUBSET {"socket", "cgroup", "raw", "identity"}
        /\ told \in SUBSET {"supervisor", "bwrap"}
    BY DEF Init
  <2> QED BY <2>1, <2>2, <2>3 DEF Init, TypeOK
<1>2. Position /\ Containment
  BY DEF Init, Position, Containment, Unwound, Connecting, BeforeBwrap, Abort
<1>3. Progress
  BY DEF Init, Progress, StartingUp, Connecting, RulesBeforeRoute, Sidecars
<1>4. Undoing
  BY DEF Init, Undoing, ClientsGoFirst, Sidecars
<1>5. Pending
  BY DEF Init, Pending
<1> QED BY <1>1, <1>2, <1>3, <1>4, <1>5 DEF LauncherInv

(* ... and every step keeps it.                                            *)
LEMMA LauncherInvariant == Spec => [](TypeOK /\ LauncherInv)
<1>1. TypeOK /\ LauncherInv /\ [Next]_vars => (TypeOK /\ LauncherInv)'
  BY NextTypeOK, NextPosition, NextProgress, NextContainment, NextUndoing, NextPending
     DEF LauncherInv
<1> QED BY <1>1, InitLauncherInv, PTL DEF Spec

(* TypeOK holds for every set of instances' grants.                        *)
THEOREM LauncherTypes == Spec => []TypeOK
BY LauncherInvariant, PTL

(* start_network(): the ruleset of a denied network is in the sandbox      *)
(* before pasta is spawned, whatever fails and whenever the run is         *)
(* stopped.                                                                *)
THEOREM Filtered == Spec => []RulesBeforeRoute
<1>1. LauncherInv => RulesBeforeRoute
  BY DEF LauncherInv, Progress
<1> QED BY <1>1, LauncherInvariant, PTL

(* start_and_wait(): the application is let go only with everything it was *)
(* granted in place, on every path that knows the sandbox and did not fail *)
(* right after spawning it.                                                *)
THEOREM Granted == Spec => []GrantedBeforeRelease
<1>1. TypeOK /\ LauncherInv => GrantedBeforeRelease
  BY ConfigsAssumption, DropFacts DEF LauncherInv, TypeOK, Position, Progress, Containment,
      GrantedBeforeRelease,
     Runs, Isolated, Held, Unwound, Locations, Connecting, BeforeBwrap, Network, Sidecars,
         Abort, BoxState, ProcessState
<1> QED BY <1>1, LauncherInvariant, PTL

(* start_and_wait()'s handles outlive the sandbox on every path but the    *)
(* errors after the spawn.                                                 *)
THEOREM Outlived == Spec => []SidecarsOutliveSandbox
<1>1. TypeOK /\ LauncherInv => SidecarsOutliveSandbox
  BY DropFacts DEF LauncherInv, TypeOK, Position, Containment, SidecarsOutliveSandbox, Unwound,
      Abort, Locations
<1> QED BY <1>1, LauncherInvariant, PTL

(* The handles are dropped clients first.                                  *)
THEOREM ClientsFirst == Spec => []ClientsGoFirst
<1>1. LauncherInv => ClientsGoFirst
  BY DEF LauncherInv, Undoing
<1> QED BY <1>1, LauncherInvariant, PTL

(* A run that has returned has left nothing behind but what NothingLeft    *)
(* names, whichever statement it left at.                                  *)
THEOREM CleanedUp == Spec => []NothingLeft
<1>1. TypeOK /\ LauncherInv => NothingLeft
  <2> SUFFICES ASSUME TypeOK, LauncherInv, pc = "done" PROVE NothingLeft!2
      BY DEF NothingLeft
  <2>1. \A i \in 4..15 : Undone(DropSteps[i])
    BY DropFacts DEF LauncherInv, Undoing, Locals
  <2>2. /\ Undone("netproxy") /\ Undone("pasta") /\ Undone("pulse") /\ Undone("pw")
        /\ Undone("wayland") /\ Undone("dbus") /\ Undone("buses")
        /\ Undone("identity") /\ Undone("raw") /\ Undone("cgroup") /\ Undone("socket")
    BY <2>1, DropFacts
  <2> QED BY <2>2 DEF TypeOK, Undone, Sidecars
<1> QED BY <1>1, LauncherInvariant, PTL

(* still_running(): no handle signals a sidecar that was already reaped.   *)
THEOREM SignalsTheLiving == Spec => []NoStraySignal
<1>1. Init => NoStraySignal
  BY DEF Init, NoStraySignal
<1>2. NoStraySignal /\ [Next]_vars => NoStraySignal'
  <2> SUFFICES ASSUME NoStraySignal, [Next]_vars PROVE NoStraySignal'
      OBVIOUS
  <2> QED BY Steps DEF NoStraySignal, Bind, Resolve, SkipSidecar, SpawnSidecar, SawReady,
      GaveUp, Adopt, Gate, Prepare, BuildArgv, RawMode, SpawnBwrap, ReadInfo, PublishIdentity,
      OpenNamespaces, SpawnNft, FeedRules, InstallRules, LastCheck, Release, Probe, Probed,
      ContextCreated, FindSupervisor, Sink, CheckExit, LateError, Detach, DropSidecar,
      AbortSandbox, ReleaseCgroup, DropBuses, DropAlloc, DropGuard, StopSignal,
      SidecarReports, SidecarExits, BwrapSetsUp, BwrapDies, BoxEnds, StillRunning, vars
<1> QED BY <1>1, <1>2, PTL DEF Spec

(* abort_sandbox(): a run that gave up and knew the sandbox has ended it   *)
(* before the block pipe could let it go.                                  *)
THEOREM GivenUp == Spec => []AbortedNeverRuns
<1>1. TypeOK /\ LauncherInv => AbortedNeverRuns
  BY DropFacts DEF LauncherInv, TypeOK, Position, Containment, AbortedNeverRuns, Runs, Unwound,
      Abort
<1> QED BY <1>1, LauncherInvariant, PTL

(* A stop that came before the last look for one: either the run has given *)
(* up, or it is on its way to that look with the sandbox held.             *)
THEOREM StopWins == Spec => []StopBeatsRelease
<1>1. TypeOK /\ LauncherInv => StopBeatsRelease
  <2> SUFFICES ASSUME TypeOK, LauncherInv, Held, early, info, result # "late" PROVE ~Runs
      BY DEF StopBeatsRelease
  <2>1. CASE result # "none"
    <3>1. result \in {"stopped", "failed"}
      BY <2>1 DEF TypeOK, LauncherInv, Pending
    <3> QED BY <3>1, DropFacts DEF LauncherInv, TypeOK, Position, Containment, Runs, Unwound, Abort
  <2>2. CASE result = "none"
    <3>1. pc \notin Unwound \cup {"release", "supervisor", "sink", "wait"}
      BY <2>2 DEF LauncherInv, Pending, Position
    <3>2. \/ BeforeBwrap \/ pc \in {"info", "identity"} \/ Connecting
      BY <3>1 DEF TypeOK, Locations, Unwound, BeforeBwrap, Connecting, LauncherInv, Position
    <3> QED BY <3>2 DEF LauncherInv, Containment, Runs
  <2> QED BY <2>1, <2>2
<1> QED BY <1>1, LauncherInvariant, PTL

(* Until the sandbox runs: for every set of grants the application starts  *)
(* behind its ruleset, its sidecars and the last look for a stop, or not   *)
(* at all.                                                                 *)
THEOREM StartGatedHolds == Spec => []StartGated
<1>1. RulesBeforeRoute /\ GrantedBeforeRelease /\ AbortedNeverRuns /\ StopBeatsRelease => StartGated
  BY DEF StartGated
<1> QED BY <1>1, Filtered, Granted, GivenUp, StopWins, PTL

(* And after it: the guards of start_and_wait() leave nothing behind, in   *)
(* an order their users survive.                                           *)
THEOREM TornDownHolds == Spec => []TornDown
<1>1. SidecarsOutliveSandbox /\ ClientsGoFirst /\ NothingLeft /\ NoStraySignal => TornDown
  BY DEF TornDown
<1> QED BY <1>1, Outlived, ClientsFirst, CleanedUp, SignalsTheLiving, PTL

-----------------------------------------------------------------------------
(* The cgroups.                                                            *)

ProxyLeaf(r) == Dir(Base(r), "proxy")
SandboxLeaf(r) == Dir(Base(r), "sandbox")

Phases ==
  Over \cup {"sweep", "make", "undo", "move", "spawn", "rules", "proxy", "running", "stop", "release"}
(* What the variables hold.                                                *)
CgroupTypes ==
  /\ made \in Nat
  /\ id \in [AllDirs -> Nat]
  /\ where \in [Runners -> [Procs -> Nat]]
  /\ phase \in [Runners -> Phases]
  /\ DOMAIN removing = Runners
  /\ procs \in [Runners -> Nat]
  /\ rule \in [Runners -> Nat]
(* A cgroup's id is given once.                                            *)
IdsOnce ==
  /\ \A d \in AllDirs : id[d] = NoCgroup \/ (2 <= id[d] /\ id[d] <= made + 1)
  /\ \A d, e \in AllDirs : id[d] = id[e] /\ id[d] # NoCgroup => d = e
(* Runs that are live at once have different directories.                  *)
LiveApart ==
  \A q, r \in Runners : q # r /\ Live(q) /\ Live(r) => Base(q) # Base(r)
(* bubbler and its sandbox are in a sandbox's leaf, and in no cgroup some  *)
(* run has opened for its proxy.                                           *)
InSandboxLeaf ==
  \A q \in Runners, p \in {"bubbler", "box"} :
    LET w == where[q][p]
    IN /\ w <= made + 1
       /\ w >= 2 => /\ \A d \in AllDirs : id[d] = w => d.leaf = "sandbox"
                    /\ \A r \in Runners : procs[r] # w
(* The cgroup a run has opened is its own proxy's.                         *)
OpenedOwn ==
  /\ \A r \in Runners :
       /\ procs[r] = NoCgroup \/ (2 <= procs[r] /\ procs[r] <= made + 1)
       /\ procs[r] # NoCgroup => \A d \in AllDirs : id[d] = procs[r] => d = ProxyLeaf(r)
       /\ where[r]["proxy"] \in {NoCgroup, procs[r]}
       /\ rule[r] \in {NoCgroup, procs[r]}
  /\ \A q, r \in Runners : procs[q] = procs[r] /\ procs[q] # NoCgroup => q = r
(* What each phase has reached.                                            *)
MakeLists(r) ==
  {MakeOrder(Base(r)), <<SandboxLeaf(r), ProxyLeaf(r)>>, <<ProxyLeaf(r)>>, <<>>}
PhaseFact(r) ==
  /\ phase[r] \in {"idle", "sweep", "make"} => procs[r] = NoCgroup
  /\ phase[r] = "make" => removing[r] \in MakeLists(r)
  /\ phase[r] = "make" /\ removing[r] = <<>> /\ id[ProxyLeaf(r)] # NoCgroup =>
       \A q \in Runners : procs[q] # id[ProxyLeaf(r)]
  /\ phase[r] \in {"move", "spawn", "rules", "proxy", "running"} =>
       procs[r] # NoCgroup /\ id[ProxyLeaf(r)] \in {NoCgroup, procs[r]}
  /\ phase[r] \in {"proxy", "running"} => rule[r] = procs[r]
  /\ phase[r] = "running" => where[r]["proxy"] = procs[r]
PhaseFacts == \A r \in Runners : PhaseFact(r)
CgroupInv == CgroupTypes /\ IdsOnce /\ LiveApart /\ InSandboxLeaf /\ OpenedOwn /\ PhaseFacts

(* The directories of a run, told apart by their leaves.                   *)
LEMMA LeafFacts ==
  ASSUME NEW r \in Runners
  PROVE  /\ ProxyLeaf(r) \in AllDirs /\ SandboxLeaf(r) \in AllDirs /\ Dir(Base(r), "") \in AllDirs
         /\ ProxyLeaf(r).leaf = "proxy" /\ SandboxLeaf(r).leaf = "sandbox" /\ Dir(Base(r), "").leaf = ""
         /\ ProxyLeaf(r).base = Base(r)
<1>1. Dirs(Base(r)) \subseteq AllDirs
  BY DEF AllDirs
<1> QED BY <1>1 DEF Dirs, Dir, ProxyLeaf, SandboxLeaf

(* A directory's name ends in the pid of the run it was made by.           *)
LEMMA BaseEndsInPid ==
  ASSUME NEW q \in Runners, NEW r \in Runners, Base(q) = Base(r)
  PROVE  Pid[q] = Pid[r]
<1>1. Instance[q] \in Seq(STRING) /\ Instance[r] \in Seq(STRING) /\ Pid[q] \in STRING /\ Pid[r] \in STRING
  BY CgroupAssumption
<1>2. \A s \in Seq(STRING), e \in STRING : Append(s, e)[Len(s) + 1] = e /\ Len(Append(s, e)) = Len(s) + 1
  BY AppendProperties
<1>3. Len(Instance[q]) \in Nat /\ Len(Instance[r]) \in Nat
  BY <1>1
<1>4. Len(Instance[q]) = Len(Instance[r])
  BY <1>1, <1>2, <1>3 DEF Base
<1> QED BY <1>1, <1>2, <1>4 DEF Base

(* Cgroups may be gone, and none is new.                                   *)
Shrunk == id' \in [AllDirs -> Nat] /\ \A d \in AllDirs : id'[d] \in {NoCgroup, id[d]}

(* remove() takes cgroups away.                                            *)
LEMMA RemoveShrinks ==
  ASSUME CgroupTypes, NEW r \in Runners, RemoveNext(r)
  PROVE  Shrunk /\ DOMAIN removing' = Runners /\ \A q \in Runners \ {r} : removing'[q] = removing[q]
<1> DEFINE h == Head(removing[r])
<1>1. id' = id \/ id' = [id EXCEPT ![h] = NoCgroup]
  BY DEF RemoveNext
<1> HIDE DEF h
<1>2. Shrunk
  BY <1>1 DEF Shrunk, CgroupTypes, NoCgroup
<1>3. removing' = [removing EXCEPT ![r] = Tail(removing[r])]
  BY DEF RemoveNext, Then
<1> QED BY <1>2, <1>3 DEF CgroupTypes

(* A step of one run: the others stay where they are.                      *)
OthersStay(r) ==
  /\ phase' \in [Runners -> Phases] /\ DOMAIN removing' = Runners
  /\ \A q \in Runners \ {r} : phase'[q] = phase[q] /\ removing'[q] = removing[q] /\ where'[q] = where[q]
(* It takes cgroups and processes away, or moves bubbler back.             *)
Faded(r) ==
  /\ Shrunk /\ UNCHANGED <<made, procs, rule>>
  /\ OthersStay(r)
  /\ where' \in [Runners -> [Procs -> Nat]]
  /\ where'[r]["proxy"] \in {where[r]["proxy"], NoCgroup}
  /\ where'[r]["box"] \in {where[r]["box"], NoCgroup}
  /\ where'[r]["bubbler"] \in {where[r]["bubbler"], NoCgroup, Home}

(* write_pid() moves one process.                                          *)
LEMMA MoveFacts ==
  ASSUME CgroupTypes, NEW r \in Runners, NEW p \in Procs, NEW c \in Nat, Move(r, p, c)
  PROVE  /\ where' \in [Runners -> [Procs -> Nat]]
         /\ \A q \in Runners \ {r} : where'[q] = where[q]
         /\ where'[r][p] = c /\ \A x \in Procs \ {p} : where'[r][x] = where[r][x]
<1>1. where' = [where EXCEPT ![r] = [where[r] EXCEPT ![p] = c]]
  BY DEF Move
<1>2. where \in [Runners -> [Procs -> Nat]] /\ where[r] \in [Procs -> Nat]
  BY DEF CgroupTypes
<1>3. [where[r] EXCEPT ![p] = c] \in [Procs -> Nat]
  BY <1>2
<1>4. where'[r] = [where[r] EXCEPT ![p] = c]
  BY <1>1, <1>2
<1> QED BY <1>1, <1>2, <1>3, <1>4

(* A run's step moves its own place on and no other's.                     *)
LEMMA GoFacts ==
  ASSUME CgroupTypes, NEW r \in Runners, NEW to \in Phases, Go(r, to)
  PROVE  /\ phase' \in [Runners -> Phases] /\ phase'[r] = to
         /\ \A q \in Runners \ {r} : phase'[q] = phase[q]
BY DEF CgroupTypes, Go
(* So does what it has still to do.                                        *)
LEMMA ThenFacts ==
  ASSUME CgroupTypes, NEW r \in Runners, NEW list, Then(r, list)
  PROVE  /\ DOMAIN removing' = Runners /\ removing'[r] = list
         /\ \A q \in Runners \ {r} : removing'[q] = removing[q]
BY DEF CgroupTypes, Then

(* A step that gives nothing to anybody keeps what relates the runs.       *)
LEMMA FadedKeeps ==
  ASSUME CgroupInv, NEW r \in Runners, Faded(r)
  PROVE  /\ CgroupTypes' /\ IdsOnce' /\ InSandboxLeaf' /\ OpenedOwn'
         /\ \A q \in Runners \ {r} : PhaseFact(q)'
<1> USE DEF NoCgroup, Home
<1>1. CgroupTypes'
  BY DEF CgroupInv, CgroupTypes, Faded, OthersStay, Shrunk
<1>2. IdsOnce'
  BY DEF CgroupInv, CgroupTypes, IdsOnce, Faded, Shrunk
<1>3. InSandboxLeaf'
  <2> SUFFICES ASSUME NEW q \in Runners, NEW p \in {"bubbler", "box"}
               PROVE  /\ where'[q][p] <= made' + 1
                      /\ where'[q][p] >= 2 => /\ \A d \in AllDirs : id'[d] = where'[q][p] => d.leaf = "sandbox"
                                              /\ \A k \in Runners : procs'[k] # where'[q][p]
    BY DEF InSandboxLeaf
  <2>1. where'[q][p] \in {where[q][p], 0, 1}
    BY DEF Faded, OthersStay
  <2>2. where[q][p] \in Nat /\ made \in Nat /\ made' = made /\ procs' = procs
    BY DEF CgroupInv, CgroupTypes, Faded, Procs
  <2>3. CASE where'[q][p] = where[q][p]
    BY <2>2, <2>3 DEF CgroupInv, CgroupTypes, InSandboxLeaf, Faded, Shrunk
  <2>4. CASE where'[q][p] \in {0, 1}
    BY <2>2, <2>4
  <2> QED BY <2>1, <2>3, <2>4
<1>4. OpenedOwn'
  <2>1. procs' = procs /\ rule' = rule /\ made' = made
    BY DEF Faded
  <2>2. \A q \in Runners : where'[q]["proxy"] \in {where[q]["proxy"], 0}
    BY DEF Faded, OthersStay
  <2>3. \A d \in AllDirs, q \in Runners : id'[d] = procs[q] /\ procs[q] # 0 => id[d] = procs[q]
    BY DEF Faded, Shrunk
  <2> QED BY <2>1, <2>2, <2>3 DEF CgroupInv, OpenedOwn, ProxyLeaf, Dir
<1>5. ASSUME NEW q \in Runners \ {r} PROVE PhaseFact(q)'
  <2>1. PhaseFact(q)
    BY DEF CgroupInv, PhaseFacts
  <2>2. phase'[q] = phase[q] /\ removing'[q] = removing[q] /\ where'[q] = where[q] /\ procs' = procs /\ rule' = rule
    BY DEF Faded, OthersStay
  <2>3. id'[ProxyLeaf(q)] \in {0, id[ProxyLeaf(q)]}
    BY LeafFacts DEF Faded, Shrunk
  <2> QED BY <2>1, <2>2, <2>3 DEF PhaseFact, ProxyLeaf, SandboxLeaf, MakeLists, MakeOrder, Dir
<1> QED BY <1>1, <1>2, <1>3, <1>4, <1>5

(* Runs stay apart when none has come to life.                             *)
LEMMA LiveKept ==
  ASSUME CgroupInv, NEW r \in Runners, OthersStay(r), Live(r)' => Live(r)
  PROVE  LiveApart'
BY DEF CgroupInv, LiveApart, OthersStay, Live, Base

(* What is kept, put together.                                             *)
LEMMA FadedEnds ==
  ASSUME CgroupInv, NEW r \in Runners, Faded(r), Live(r)' => Live(r), PhaseFact(r)'
  PROVE  CgroupInv'
<1>1. OthersStay(r)
  BY DEF Faded
<1> QED BY <1>1, LiveKept, FadedKeeps DEF CgroupInv, PhaseFacts

(* The steps that only take away or move on.                               *)
LEMMA SweepKeeps ==
  ASSUME CgroupInv, NEW r \in Runners, Sweep(r)
  PROVE  CgroupInv'
<1> USE DEF NoCgroup, Home
<1>0. CgroupTypes /\ PhaseFact(r)
  BY DEF CgroupInv, PhaseFacts
<1>1. CASE RemoveNext(r) /\ UNCHANGED phase
  <2>1. Faded(r)
    BY <1>0, <1>1, RemoveShrinks DEF Faded, OthersStay, Sweep, CgroupTypes, Procs
  <2>2. PhaseFact(r)'
    BY <1>0, <1>1 DEF PhaseFact, Sweep
  <2> QED BY <1>1, <2>1, <2>2, FadedEnds DEF Live
<1>2. CASE removing[r] = <<>> /\ Then(r, MakeOrder(Base(r))) /\ Go(r, "make") /\ UNCHANGED id
  <2>1. phase' = [phase EXCEPT ![r] = "make"] /\ removing' = [removing EXCEPT ![r] = MakeOrder(Base(r))]
        /\ phase[r] = "sweep" /\ UNCHANGED <<id, made, where, procs, rule>>
    BY <1>2 DEF Then, Go, Sweep
  <2>2. Faded(r)
    BY <1>0, <2>1 DEF Faded, OthersStay, Shrunk, CgroupTypes, Procs, Phases
  <2>3. phase'[r] = "make" /\ removing'[r] = MakeOrder(Base(r)) /\ MakeOrder(Base(r)) # <<>>
    BY <1>0, <2>1 DEF CgroupTypes, MakeOrder
  <2>4. PhaseFact(r)'
    BY <1>0, <2>1, <2>3 DEF PhaseFact, MakeLists
  <2> QED BY <2>1, <2>2, <2>4, FadedEnds DEF Live, Over
<1> QED BY <1>1, <1>2 DEF Sweep

(* Undoing a half-made start takes away what it made.                      *)
LEMMA UndoKeeps ==
  ASSUME CgroupInv, NEW r \in Runners, Undo(r)
  PROVE  CgroupInv'
<1> USE DEF NoCgroup, Home
<1>0. CgroupTypes /\ PhaseFact(r)
  BY DEF CgroupInv, PhaseFacts
<1>1. CASE RemoveNext(r) /\ UNCHANGED <<phase, where>>
  <2>1. Faded(r)
    BY <1>0, <1>1, RemoveShrinks DEF Faded, OthersStay, Undo, CgroupTypes, Procs
  <2>2. PhaseFact(r)'
    BY <1>0, <1>1 DEF PhaseFact, Undo
  <2> QED BY <1>1, <2>1, <2>2, FadedEnds DEF Live
<1>2. CASE Go(r, "failed") /\ Move(r, "bubbler", NoCgroup) /\ UNCHANGED <<id, removing>>
  <2>1. UNCHANGED <<id, removing, made, procs, rule>>
    BY <1>2 DEF Undo
  <2>2. Faded(r)
    <3>1. OthersStay(r)
      BY <1>0, <1>2, <2>1, MoveFacts, GoFacts DEF Procs, Phases, Over, OthersStay, CgroupTypes
    <3> QED BY <1>0, <1>2, <2>1, <3>1, MoveFacts DEF Faded, Shrunk, CgroupTypes, Procs
  <2>3. phase'[r] = "failed"
    BY <1>0, <1>2, GoFacts DEF Phases, Over
  <2>4. PhaseFact(r)'
    BY <2>3 DEF PhaseFact
  <2> QED BY <2>2, <2>3, <2>4, FadedEnds DEF Live, Over
<1> QED BY <1>1, <1>2 DEF Undo

(* The end of a run moves bubbler back.                                    *)
LEMMA StopKeeps ==
  ASSUME CgroupInv, NEW r \in Runners, Stop(r) \/ MoveOut(r)
  PROVE  CgroupInv'
<1> USE DEF NoCgroup, Home
<1>0. CgroupTypes /\ PhaseFact(r)
  BY DEF CgroupInv, PhaseFacts
<1>1. PICK to \in {"stop", "release"} : Go(r, to) /\ Live(r)
  BY DEF Stop, MoveOut, Live, Over
<1>2. /\ UNCHANGED <<id, made, procs, rule>>
      /\ removing' = removing \/ Then(r, RemoveOrder(Base(r)))
      /\ where' = where \/ where' = [where EXCEPT ![r]["proxy"] = NoCgroup, ![r]["bubbler"] = Home]
  BY DEF Stop, MoveOut
<1>3. /\ where' \in [Runners -> [Procs -> Nat]] /\ \A q \in Runners \ {r} : where'[q] = where[q]
      /\ where'[r]["proxy"] \in {where[r]["proxy"], NoCgroup} /\ where'[r]["box"] = where[r]["box"]
      /\ where'[r]["bubbler"] \in {where[r]["bubbler"], Home}
  <2>1. where \in [Runners -> [Procs -> Nat]] /\ where[r] \in [Procs -> Nat]
    BY <1>0 DEF CgroupTypes
  <2> DEFINE w == [where[r] EXCEPT !["proxy"] = NoCgroup, !["bubbler"] = Home]
  <2>2. w \in [Procs -> Nat] /\ w["proxy"] = NoCgroup /\ w["box"] = where[r]["box"] /\ w["bubbler"] = Home
    BY <2>1 DEF Procs
  <2>3. where' = where \/ where' = [where EXCEPT ![r] = w]
    BY <1>2, <2>1
  <2> HIDE DEF w
  <2> QED BY <2>1, <2>2, <2>3
<1>4. phase' \in [Runners -> Phases] /\ phase'[r] = to /\ \A q \in Runners \ {r} : phase'[q] = phase[q]
  BY <1>0, <1>1, GoFacts DEF Phases, Over
<1>5. DOMAIN removing' = Runners /\ \A q \in Runners \ {r} : removing'[q] = removing[q]
  BY <1>0, <1>2, ThenFacts DEF CgroupTypes
<1>6. Faded(r)
  BY <1>0, <1>2, <1>3, <1>4, <1>5 DEF Faded, Shrunk, CgroupTypes, OthersStay
<1>7. PhaseFact(r)'
  BY <1>4 DEF PhaseFact
<1> QED BY <1>1, <1>6, <1>7, FadedEnds

(* So does every pass of release().                                        *)
LEMMA RemovingKeeps ==
  ASSUME CgroupInv, NEW r \in Runners, Removing(r)
  PROVE  CgroupInv'
<1> USE DEF NoCgroup, Home
<1>0. CgroupTypes /\ PhaseFact(r)
  BY DEF CgroupInv, PhaseFacts
<1>1. CASE Then(r, RemoveOrder(Base(r))) /\ UNCHANGED <<id, phase, where>>
  <2>1. Faded(r)
    BY <1>0, <1>1 DEF Faded, OthersStay, Shrunk, Then, Removing, CgroupTypes, Procs
  <2>2. PhaseFact(r)'
    BY <1>0, <1>1 DEF PhaseFact, Removing
  <2> QED BY <1>1, <2>1, <2>2, FadedEnds DEF Live
<1>2. CASE RemoveNext(r) /\ UNCHANGED <<phase, where>>
  <2>1. Faded(r)
    BY <1>0, <1>2, RemoveShrinks DEF Faded, OthersStay, Removing, CgroupTypes, Procs
  <2>2. PhaseFact(r)'
    BY <1>0, <1>2 DEF PhaseFact, Removing
  <2> QED BY <1>2, <2>1, <2>2, FadedEnds DEF Live
<1>3. CASE Go(r, "done") /\ Move(r, "bubbler", NoCgroup) /\ Then(r, <<>>) /\ UNCHANGED id
  <2>1. /\ Go(r, "done") /\ Move(r, "bubbler", NoCgroup) /\ Then(r, <<>>)
        /\ UNCHANGED <<id, made, procs, rule>>
    BY <1>3 DEF Removing
  <2>2. Faded(r)
    <3>1. OthersStay(r)
      BY <1>0, <2>1, MoveFacts, GoFacts, ThenFacts DEF Procs, Phases, Over, OthersStay
    <3> QED BY <1>0, <2>1, <3>1, MoveFacts DEF Faded, Shrunk, CgroupTypes, Procs
  <2>3. phase'[r] = "done"
    BY <1>0, <2>1, GoFacts DEF Phases, Over
  <2>4. PhaseFact(r)'
    BY <2>3 DEF PhaseFact
  <2> QED BY <2>2, <2>3, <2>4, FadedEnds DEF Live, Over
<1> QED BY <1>1, <1>2, <1>3 DEF Removing

(* A death takes a process out of its cgroup.                              *)
LEMMA DeathKeeps ==
  ASSUME CgroupInv, NEW r \in Runners, Killed(r) \/ Dies(r)
  PROVE  CgroupInv'
<1> USE DEF NoCgroup, Home
<1>0. CgroupTypes /\ PhaseFact(r)
  BY DEF CgroupInv, PhaseFacts
<1>1. CASE Killed(r)
  <2>1. /\ Go(r, "killed") /\ Move(r, "bubbler", NoCgroup) /\ Then(r, <<>>)
        /\ UNCHANGED <<id, made, procs, rule>>
    BY <1>1 DEF Killed
  <2>2. Faded(r)
    <3>1. OthersStay(r)
      BY <1>0, <2>1, MoveFacts, GoFacts, ThenFacts DEF Procs, Phases, Over, OthersStay
    <3> QED BY <1>0, <2>1, <3>1, MoveFacts DEF Faded, Shrunk, CgroupTypes, Procs
  <2>3. phase'[r] = "killed"
    BY <1>0, <2>1, GoFacts DEF Phases, Over
  <2>4. PhaseFact(r)'
    BY <2>3 DEF PhaseFact
  <2> QED BY <2>2, <2>3, <2>4, FadedEnds DEF Live, Over
<1>2. CASE Dies(r)
  <2>1. PICK p \in {"box", "proxy"} : Move(r, p, NoCgroup)
    BY <1>2 DEF Dies
  <2>2. Faded(r)
    <3>1. OthersStay(r)
      BY <1>0, <1>2, <2>1, MoveFacts DEF Procs, Dies, OthersStay, CgroupTypes
    <3> QED BY <1>0, <1>2, <2>1, <3>1, MoveFacts DEF Faded, Shrunk, Dies, CgroupTypes, Procs
  <2>3. PhaseFact(r)'
    BY <1>2 DEF PhaseFact, Dies
  <2> QED BY <1>2, <2>2, <2>3, FadedEnds DEF Live, Dies
<1> QED BY <1>1, <1>2

(* A run comes to life beside none of its own name or pid.                 *)
LEMMA CreateKeeps ==
  ASSUME CgroupInv, NEW r \in Runners, Create(r)
  PROVE  CgroupInv'
<1> USE DEF NoCgroup, Home
<1>0. CgroupTypes /\ PhaseFact(r)
  BY DEF CgroupInv, PhaseFacts
<1>1. PICK order \in SetToSeqs(Swept(r)) :
        Then(r, FlattenSeq([i \in DOMAIN order |-> RemoveOrder(order[i])]))
  BY DEF Create
<1> DEFINE list == FlattenSeq([i \in DOMAIN order |-> RemoveOrder(order[i])])
<1>2. Then(r, list)
  BY <1>1
<1> HIDE DEF list
<1>3. /\ phase[r] = "idle" /\ Go(r, "sweep") /\ Move(r, "bubbler", Home) /\ UNCHANGED <<id, made, procs, rule>>
      /\ \A q \in Runners \ {r} : Live(q) => Pid[q] # Pid[r]
  BY DEF Create
<1>4. phase'[r] = "sweep" /\ OthersStay(r)
  BY <1>0, <1>2, <1>3, MoveFacts, GoFacts, ThenFacts DEF Procs, Phases, Over, OthersStay
<1>5. Faded(r)
  BY <1>0, <1>3, <1>4, MoveFacts DEF Faded, Shrunk, CgroupTypes, Procs
<1>6. LiveApart'
  BY <1>3, <1>4, BaseEndsInPid DEF CgroupInv, LiveApart, OthersStay, Live, Base
<1>7. PhaseFact(r)'
  BY <1>0, <1>3, <1>4 DEF PhaseFact
<1> QED BY <1>5, <1>6, <1>7, FadedKeeps DEF CgroupInv, PhaseFacts

(* The list of what is still to make, one shorter at every making.         *)
LEMMA MakeListFacts ==
  ASSUME NEW r \in Runners, NEW list \in MakeLists(r), list # <<>>
  PROVE  /\ Head(list) \in AllDirs /\ Head(list).base = Base(r)
         /\ Tail(list) \in MakeLists(r)
         /\ Tail(list) = <<>> => Head(list) = ProxyLeaf(r)
<1> DEFINE P == ProxyLeaf(r)  S == SandboxLeaf(r)  T == Dir(Base(r), "")
<1>1. P \in AllDirs /\ S \in AllDirs /\ T \in AllDirs /\ P.base = Base(r) /\ S.base = Base(r) /\ T.base = Base(r)
  BY LeafFacts DEF ProxyLeaf, SandboxLeaf, Dir
<1>2. MakeLists(r) = {<<T, S, P>>, <<S, P>>, <<P>>, <<>>}
  BY DEF MakeLists, MakeOrder, ProxyLeaf, SandboxLeaf
<1> HIDE DEF P, S, T
<1>3. \/ list = <<T, S, P>> /\ Head(list) = T /\ Tail(list) = <<S, P>>
      \/ list = <<S, P>> /\ Head(list) = S /\ Tail(list) = <<P>>
      \/ list = <<P>> /\ Head(list) = P /\ Tail(list) = <<>>
  <2>1. list = <<T, S, P>> \/ list = <<S, P>> \/ list = <<P>>
    BY <1>2
  <2>2. Head(<<T, S, P>>) = T /\ Head(<<S, P>>) = S /\ Head(<<P>>) = P
    OBVIOUS
  <2>3. Tail(<<T, S, P>>) = <<S, P>> /\ Tail(<<S, P>>) = <<P>> /\ Tail(<<P>>) = <<>>
    OBVIOUS
  <2> QED BY <2>1, <2>2, <2>3
<1> QED BY <1>1, <1>2, <1>3 DEF P

(* A new cgroup has an id that nobody holds.                               *)
LEMMA MakeKeeps ==
  ASSUME CgroupInv, NEW r \in Runners, Make(r)
  PROVE  CgroupInv'
<1> USE DEF NoCgroup, Home
<1>0. CgroupTypes /\ PhaseFact(r)
  BY DEF CgroupInv, PhaseFacts
<1> DEFINE d == Head(removing[r])
<1>1. phase[r] = "make" /\ removing[r] # <<>> /\ UNCHANGED <<where, procs, rule>>
  BY DEF Make
<1>2. d \in AllDirs /\ d.base = Base(r) /\ Tail(removing[r]) \in MakeLists(r)
      /\ (Tail(removing[r]) = <<>> => d = ProxyLeaf(r))
  BY <1>0, <1>1, MakeListFacts DEF PhaseFact
<1>3. CASE /\ id' = [id EXCEPT ![d] = made + 2] /\ made' = made + 1
           /\ Then(r, Tail(removing[r])) /\ UNCHANGED phase
  <2> DEFINE rest == Tail(removing[r])
  <2>1. Then(r, rest) /\ rest \in MakeLists(r) /\ (rest = <<>> => d = ProxyLeaf(r))
    BY <1>2, <1>3
  <2> HIDE DEF d, rest
  <2>2. removing'[r] = rest /\ DOMAIN removing' = Runners /\ \A q \in Runners \ {r} : removing'[q] = removing[q]
    BY <1>0, <2>1, ThenFacts
  <2>3. id' \in [AllDirs -> Nat] /\ made \in Nat /\ made' = made + 1 /\ id'[d] = made + 2
        /\ \A e \in AllDirs \ {d} : id'[e] = id[e]
    BY <1>0, <1>2, <1>3 DEF CgroupTypes
  <2>4. CgroupTypes'
    BY <1>0, <1>1, <1>3, <2>2, <2>3 DEF CgroupTypes
  <2>5. IdsOnce'
    <3>1. \A e \in AllDirs : id[e] \in Nat /\ (id[e] = 0 \/ (2 <= id[e] /\ id[e] <= made + 1))
      BY <1>0 DEF CgroupInv, IdsOnce, CgroupTypes
    <3>2. \A e \in AllDirs : id'[e] = 0 \/ (2 <= id'[e] /\ id'[e] <= made' + 1)
      BY <2>3, <3>1
    <3>3. \A e \in AllDirs \ {d} : id'[e] # id'[d]
      BY <2>3, <3>1
    <3>4. \A e, f \in AllDirs \ {d} : id'[e] = id'[f] /\ id'[e] # 0 => e = f
      BY <2>3 DEF CgroupInv, IdsOnce
    <3> QED BY <3>2, <3>3, <3>4 DEF IdsOnce
  <2>6. LiveApart'
    BY <1>3 DEF CgroupInv, LiveApart, Live, Base
  <2>7. InSandboxLeaf'
    <3> SUFFICES ASSUME NEW q \in Runners, NEW p \in {"bubbler", "box"}
                 PROVE  /\ where'[q][p] <= made' + 1
                        /\ where'[q][p] >= 2 => /\ \A e \in AllDirs : id'[e] = where'[q][p] => e.leaf = "sandbox"
                                                /\ \A k \in Runners : procs'[k] # where'[q][p]
      BY DEF InSandboxLeaf
    <3> DEFINE w == where[q][p]
    <3>1. w \in Nat /\ w <= made + 1 /\ where'[q][p] = w /\ procs' = procs
      BY <1>0, <1>1 DEF CgroupInv, CgroupTypes, InSandboxLeaf, Procs
    <3>2. w >= 2 => /\ \A e \in AllDirs : id[e] = w => e.leaf = "sandbox"
                    /\ \A k \in Runners : procs[k] # w
      BY DEF CgroupInv, InSandboxLeaf
    <3> HIDE DEF w
    <3> QED BY <2>3, <3>1, <3>2
  <2>8. OpenedOwn'
    BY <1>0, <1>1, <2>3 DEF CgroupInv, CgroupTypes, OpenedOwn, ProxyLeaf, Dir
  <2>9. ASSUME NEW q \in Runners \ {r} PROVE PhaseFact(q)'
    <3>1. PhaseFact(q)
      BY DEF CgroupInv, PhaseFacts
    <3>2. phase'[q] = phase[q] /\ removing'[q] = removing[q] /\ where' = where /\ procs' = procs /\ rule' = rule
      BY <1>1, <1>3, <2>2
    <3>3. ~Live(q) \/ id'[ProxyLeaf(q)] = id[ProxyLeaf(q)]
      <4>1. ProxyLeaf(q).base = Base(q) /\ ProxyLeaf(q) \in AllDirs
        BY LeafFacts
      <4>2. Live(q) => Base(q) # Base(r)
        BY <1>1 DEF CgroupInv, LiveApart, Live, Over
      <4>3. ProxyLeaf(q) # d => id'[ProxyLeaf(q)] = id[ProxyLeaf(q)]
        BY <2>3, <4>1
      <4>4. d.base = Base(r)
        BY <1>2 DEF d
      <4> QED BY <4>1, <4>2, <4>3, <4>4
    <3>4. CASE ~Live(q)
      BY <3>1, <3>2, <3>4 DEF PhaseFact, Live, Over
    <3>5. CASE id'[ProxyLeaf(q)] = id[ProxyLeaf(q)]
      BY <3>1, <3>2, <3>5 DEF PhaseFact, ProxyLeaf, SandboxLeaf, MakeLists, MakeOrder, Dir
    <3> QED BY <3>3, <3>4, <3>5
  <2>10. PhaseFact(r)'
    <3>1. \A q \in Runners : procs'[q] # made + 2
      <4>1. \A q \in Runners : procs[q] \in Nat /\ (procs[q] = 0 \/ procs[q] <= made + 1)
        BY <1>0 DEF CgroupInv, CgroupTypes, OpenedOwn
      <4> QED BY <1>1, <2>3, <4>1
    <3>2. phase'[r] = "make" /\ removing'[r] \in MakeLists(r) /\ procs'[r] = procs[r]
      BY <1>1, <1>3, <2>1, <2>2
    <3>3. removing'[r] = <<>> => \A q \in Runners : procs'[q] # id'[ProxyLeaf(r)]
      BY <2>1, <2>2, <2>3, <3>1
    <3> QED BY <1>0, <1>1, <3>2, <3>3 DEF PhaseFact, MakeLists
  <2> QED BY <2>4, <2>5, <2>6, <2>7, <2>8, <2>9, <2>10 DEF CgroupInv, PhaseFacts
<1>4. CASE Then(r, RemoveOrder(Base(r))) /\ Go(r, "undo") /\ UNCHANGED <<id, made>>
  <2>1. phase'[r] = "undo" /\ OthersStay(r)
    BY <1>0, <1>1, <1>4, GoFacts, ThenFacts DEF Phases, Over, OthersStay
  <2>2. Faded(r)
    BY <1>0, <1>1, <1>4, <2>1 DEF Faded, Shrunk, CgroupTypes, Procs
  <2>3. PhaseFact(r)'
    BY <2>1 DEF PhaseFact
  <2> QED BY <1>1, <2>2, <2>3, FadedEnds DEF Live, Over
<1> QED BY <1>3, <1>4 DEF Make

(* The proxy's leaf is opened by the run that made it.                     *)
LEMMA OpenProcsKeeps ==
  ASSUME CgroupInv, NEW r \in Runners, OpenProcs(r)
  PROVE  CgroupInv'
<1> USE DEF NoCgroup, Home
<1>0. CgroupTypes /\ PhaseFact(r) /\ OpenedOwn /\ IdsOnce
  BY DEF CgroupInv, PhaseFacts
<1> DEFINE c == id[ProxyLeaf(r)]
<1>1. /\ phase[r] = "make" /\ removing[r] = <<>> /\ UNCHANGED <<id, made, where, rule>>
      /\ procs' = [procs EXCEPT ![r] = c]
  BY DEF OpenProcs, ProxyLeaf
<1>2. procs[r] = 0 /\ c \in Nat /\ ProxyLeaf(r) \in AllDirs /\ ProxyLeaf(r).leaf = "proxy"
  BY <1>0, <1>1, LeafFacts DEF PhaseFact, CgroupTypes
<1>3. CASE c = 0
  <2>1. Then(r, RemoveOrder(Base(r))) /\ Go(r, "undo") /\ procs' = procs
    BY <1>0, <1>1, <1>2, <1>3 DEF OpenProcs, ProxyLeaf, CgroupTypes
  <2>2. phase'[r] = "undo" /\ OthersStay(r)
    BY <1>0, <1>1, <2>1, GoFacts, ThenFacts DEF Phases, Over, OthersStay
  <2>3. Faded(r)
    BY <1>0, <1>1, <2>1, <2>2 DEF Faded, Shrunk, CgroupTypes, Procs
  <2>4. PhaseFact(r)'
    BY <2>2 DEF PhaseFact
  <2> QED BY <1>1, <2>3, <2>4, FadedEnds DEF Live, Over
<1>4. CASE c # 0
  <2>1. Go(r, "move") /\ removing' = removing
    BY <1>4 DEF OpenProcs, ProxyLeaf
  <2>2. /\ phase' \in [Runners -> Phases] /\ phase'[r] = "move"
        /\ \A q \in Runners \ {r} : phase'[q] = phase[q]
    BY <1>0, <2>1, GoFacts DEF Phases
  <2>3. procs' \in [Runners -> Nat] /\ procs'[r] = c /\ \A q \in Runners \ {r} : procs'[q] = procs[q]
    BY <1>0, <1>1, <1>2 DEF CgroupTypes
  <2>4. \A q \in Runners : procs[q] # c
    BY <1>0, <1>1, <1>4 DEF PhaseFact
  <2>5. 2 <= c /\ c <= made + 1
    BY <1>0, <1>2, <1>4 DEF IdsOnce
  <2>6. \A d \in AllDirs : id[d] = c => d = ProxyLeaf(r)
    BY <1>0, <1>2, <1>4 DEF IdsOnce
  <2> HIDE DEF c
  <2>7. CgroupTypes'
    BY <1>0, <1>1, <2>1, <2>2, <2>3 DEF CgroupTypes
  <2>8. IdsOnce'
    BY <1>0, <1>1 DEF IdsOnce
  <2>9. LiveApart'
    BY <1>1, <2>2 DEF CgroupInv, LiveApart, Live, Over, Base
  <2>10. InSandboxLeaf'
    <3>1. \A q \in Runners, p \in {"bubbler", "box"} : where[q][p] # c
      BY <1>2, <2>5 DEF CgroupInv, InSandboxLeaf, c
    <3> QED BY <1>1, <2>3, <3>1 DEF CgroupInv, InSandboxLeaf
  <2>11. OpenedOwn'
    <3>1. where[r]["proxy"] = 0 /\ rule[r] = 0
      BY <1>0, <1>2 DEF OpenedOwn
    <3>2. ASSUME NEW q \in Runners
          PROVE  /\ procs'[q] = 0 \/ (2 <= procs'[q] /\ procs'[q] <= made' + 1)
                 /\ procs'[q] # 0 => \A d \in AllDirs : id'[d] = procs'[q] => d = ProxyLeaf(q)
                 /\ where'[q]["proxy"] \in {0, procs'[q]}
                 /\ rule'[q] \in {0, procs'[q]}
      <4>1. CASE q = r
        BY <1>1, <2>3, <2>5, <2>6, <3>1, <4>1
      <4>2. CASE q # r
        BY <1>0, <1>1, <2>3, <4>2 DEF OpenedOwn
      <4> QED BY <4>1, <4>2
    <3>3. ASSUME NEW q \in Runners, NEW k \in Runners, procs'[q] = procs'[k], procs'[q] # 0
          PROVE  q = k
      BY <1>0, <2>3, <2>4, <3>3 DEF OpenedOwn
    <3> QED BY <3>2, <3>3 DEF OpenedOwn, ProxyLeaf, Dir
  <2>12. ASSUME NEW q \in Runners \ {r} PROVE PhaseFact(q)'
    <3>1. PhaseFact(q)
      BY DEF CgroupInv, PhaseFacts
    <3>2. phase'[q] = phase[q] /\ procs'[q] = procs[q]
      BY <2>2, <2>3
    <3>3. Live(q) => ProxyLeaf(q) # ProxyLeaf(r)
      <4>1. ProxyLeaf(q).base = Base(q) /\ ProxyLeaf(r).base = Base(r)
        BY LeafFacts
      <4>2. Live(q) => Base(q) # Base(r)
        BY <1>1 DEF CgroupInv, LiveApart, Live, Over
      <4> QED BY <4>1, <4>2
    <3>4. Live(q) => id[ProxyLeaf(q)] # c
      <4>1. ProxyLeaf(q) \in AllDirs
        BY LeafFacts
      <4> QED BY <2>6, <3>3, <4>1
    <3>5. phase[q] = "make" /\ removing[q] = <<>> /\ id[ProxyLeaf(q)] # 0 =>
            \A k \in Runners : procs'[k] # id[ProxyLeaf(q)]
      <4> SUFFICES ASSUME phase[q] = "make", removing[q] = <<>>, id[ProxyLeaf(q)] # 0, NEW k \in Runners
                   PROVE  procs'[k] # id[ProxyLeaf(q)]
        OBVIOUS
      <4>1. Live(q) /\ procs[k] # id[ProxyLeaf(q)]
        BY <3>1 DEF PhaseFact, Live, Over
      <4> QED BY <2>3, <3>4, <4>1
    <3> QED BY <1>1, <2>1, <3>1, <3>2, <3>5
            DEF PhaseFact, ProxyLeaf, SandboxLeaf, MakeLists, MakeOrder, Dir
  <2>13. PhaseFact(r)'
    BY <1>1, <1>4, <2>2, <2>3 DEF PhaseFact, ProxyLeaf, Dir, c
  <2> QED BY <2>7, <2>8, <2>9, <2>10, <2>11, <2>12, <2>13 DEF CgroupInv, PhaseFacts
<1> QED BY <1>3, <1>4

(* A run moves one of its processes: what is left to show is that it goes  *)
(* where it may.                                                           *)
LEMMA MoveKeeps ==
  ASSUME CgroupInv, NEW r \in Runners, NEW to \in Phases, Go(r, to), Live(r),
         UNCHANGED <<id, made, removing, procs, rule>>,
         NEW p \in Procs, NEW c \in Nat, Move(r, p, c),
         p = "proxy" => c = procs[r],
         p # "proxy" => /\ c <= made + 1
                        /\ c >= 2 => /\ \A d \in AllDirs : id[d] = c => d.leaf = "sandbox"
                                     /\ \A q \in Runners : procs[q] # c
  PROVE  /\ CgroupTypes' /\ IdsOnce' /\ LiveApart' /\ InSandboxLeaf' /\ OpenedOwn'
         /\ \A q \in Runners \ {r} : PhaseFact(q)'
         /\ phase'[r] = to
<1> USE DEF NoCgroup, Home
<1>0. CgroupTypes
  BY DEF CgroupInv
<1>1. /\ phase' \in [Runners -> Phases] /\ phase'[r] = to
      /\ \A q \in Runners \ {r} : phase'[q] = phase[q]
  BY <1>0, GoFacts
<1>2. /\ where' \in [Runners -> [Procs -> Nat]]
      /\ \A q \in Runners \ {r} : where'[q] = where[q]
      /\ where'[r][p] = c /\ \A x \in Procs \ {p} : where'[r][x] = where[r][x]
  BY <1>0, MoveFacts
<1>3. CgroupTypes'
  BY <1>0, <1>1, <1>2 DEF CgroupTypes
<1>4. IdsOnce' /\ LiveApart'
  BY <1>1 DEF CgroupInv, IdsOnce, LiveApart, Live, Base
<1>5. InSandboxLeaf'
  <2> SUFFICES ASSUME NEW q \in Runners, NEW x \in {"bubbler", "box"}
               PROVE  /\ where'[q][x] <= made + 1
                      /\ where'[q][x] >= 2 => /\ \A d \in AllDirs : id[d] = where'[q][x] => d.leaf = "sandbox"
                                              /\ \A k \in Runners : procs[k] # where'[q][x]
    BY DEF InSandboxLeaf
  <2>1. CASE where'[q][x] = where[q][x]
    BY <2>1 DEF CgroupInv, InSandboxLeaf
  <2>2. CASE q = r /\ x = p
    BY <1>2, <2>2
  <2> QED BY <1>2, <2>1, <2>2 DEF Procs
<1>6. OpenedOwn'
  <2>1. \A q \in Runners : where'[q]["proxy"] \in {where[q]["proxy"], procs[q]}
    BY <1>2 DEF Procs
  <2> QED BY <2>1 DEF CgroupInv, OpenedOwn, ProxyLeaf, Dir
<1>7. ASSUME NEW q \in Runners \ {r} PROVE PhaseFact(q)'
  BY <1>1, <1>2 DEF CgroupInv, PhaseFacts, PhaseFact, ProxyLeaf, SandboxLeaf, MakeLists, MakeOrder, Dir
<1> QED BY <1>1, <1>3, <1>4, <1>5, <1>6, <1>7

(* bubbler goes into its sandbox's leaf, which nobody opened.              *)
LEMMA MoveInKeeps ==
  ASSUME CgroupInv, NEW r \in Runners, MoveIn(r)
  PROVE  CgroupInv'
<1> USE DEF NoCgroup, Home
<1>0. CgroupTypes /\ PhaseFact(r) /\ OpenedOwn /\ IdsOnce
  BY DEF CgroupInv, PhaseFacts
<1> DEFINE c == id[SandboxLeaf(r)]
<1>1. phase[r] = "move" /\ UNCHANGED <<id, made, procs, rule>> /\ Live(r)
  BY DEF MoveIn, Live, Over
<1>2. /\ SandboxLeaf(r) \in AllDirs /\ SandboxLeaf(r).leaf = "sandbox" /\ c \in Nat
      /\ \A q \in Runners : ProxyLeaf(q).leaf = "proxy"
  BY <1>0, LeafFacts DEF CgroupTypes
<1>3. CASE c # 0
  <2>1. Move(r, "bubbler", c) /\ Go(r, "spawn") /\ removing' = removing
    BY <1>3 DEF MoveIn, SandboxLeaf
  <2>2. c <= made + 1 /\ \A d \in AllDirs : id[d] = c => d = SandboxLeaf(r)
    BY <1>0, <1>2, <1>3 DEF IdsOnce
  <2>3. \A q \in Runners : procs[q] # c
    BY <1>0, <1>2, <1>3 DEF OpenedOwn
  <2> HIDE DEF c
  <2>4. /\ CgroupTypes' /\ IdsOnce' /\ LiveApart' /\ InSandboxLeaf' /\ OpenedOwn'
        /\ \A q \in Runners \ {r} : PhaseFact(q)'
        /\ phase'[r] = "spawn"
    BY <1>1, <1>2, <2>1, <2>2, <2>3, MoveKeeps DEF Procs, Phases
  <2>5. PhaseFact(r)'
    BY <1>0, <1>1, <2>4 DEF PhaseFact, ProxyLeaf, Dir
  <2> QED BY <2>4, <2>5 DEF CgroupInv, PhaseFacts
<1>4. CASE c = 0
  <2>1. Then(r, RemoveOrder(Base(r))) /\ Go(r, "undo") /\ where' = where
    BY <1>4 DEF MoveIn, SandboxLeaf
  <2>2. phase'[r] = "undo" /\ OthersStay(r)
    BY <1>0, <2>1, GoFacts, ThenFacts DEF Phases, Over, OthersStay
  <2>3. Faded(r)
    BY <1>0, <1>1, <2>1, <2>2 DEF Faded, Shrunk, CgroupTypes, Procs
  <2>4. PhaseFact(r)'
    BY <2>2 DEF PhaseFact
  <2> QED BY <1>1, <2>3, <2>4, FadedEnds
<1> QED BY <1>3, <1>4

(* The sandbox starts where bubbler is.                                    *)
LEMMA SpawnBoxKeeps ==
  ASSUME CgroupInv, NEW r \in Runners, SpawnBox(r)
  PROVE  CgroupInv'
<1> USE DEF NoCgroup, Home
<1>0. CgroupTypes /\ PhaseFact(r) /\ InSandboxLeaf
  BY DEF CgroupInv, PhaseFacts
<1> DEFINE c == where[r]["bubbler"]
<1>1. /\ phase[r] = "spawn" /\ UNCHANGED <<id, made, removing, procs, rule>> /\ Live(r)
      /\ Go(r, "rules") /\ Move(r, "box", c)
  BY DEF SpawnBox, Live, Over
<1>2. /\ c \in Nat /\ c <= made + 1
      /\ c >= 2 => /\ \A d \in AllDirs : id[d] = c => d.leaf = "sandbox"
                   /\ \A q \in Runners : procs[q] # c
  BY <1>0 DEF CgroupTypes, InSandboxLeaf, Procs
<1> HIDE DEF c
<1>3. /\ CgroupTypes' /\ IdsOnce' /\ LiveApart' /\ InSandboxLeaf' /\ OpenedOwn'
      /\ \A q \in Runners \ {r} : PhaseFact(q)'
      /\ phase'[r] = "rules"
  BY <1>1, <1>2, MoveKeeps DEF Procs, Phases
<1>4. PhaseFact(r)'
  BY <1>0, <1>1, <1>3 DEF PhaseFact, ProxyLeaf, Dir
<1> QED BY <1>3, <1>4 DEF CgroupInv, PhaseFacts

(* nftables resolves the path to the cgroup that was opened.               *)
LEMMA InstallRulesKeeps ==
  ASSUME CgroupInv, NEW r \in Runners, install_rules(r)
  PROVE  CgroupInv'
<1> USE DEF NoCgroup, Home
<1>0. CgroupTypes /\ PhaseFact(r) /\ OpenedOwn
  BY DEF CgroupInv, PhaseFacts
<1> DEFINE c == id[ProxyLeaf(r)]
<1>1. phase[r] = "rules" /\ UNCHANGED <<id, made, where, removing, procs>> /\ Live(r)
  BY DEF install_rules, Live, Over
<1>2. CASE c = 0
  <2>1. Go(r, "stop") /\ rule' = rule
    BY <1>2 DEF install_rules, ProxyLeaf
  <2>2. phase'[r] = "stop" /\ OthersStay(r)
    BY <1>0, <1>1, <2>1, GoFacts DEF Phases, Over, OthersStay, CgroupTypes
  <2>3. Faded(r)
    BY <1>0, <1>1, <2>1, <2>2 DEF Faded, Shrunk, CgroupTypes, Procs
  <2>4. PhaseFact(r)'
    BY <2>2 DEF PhaseFact
  <2> QED BY <1>1, <2>3, <2>4, FadedEnds
<1>3. CASE c # 0
  <2>1. Go(r, "proxy") /\ rule' = [rule EXCEPT ![r] = c]
    BY <1>3 DEF install_rules, ProxyLeaf
  <2>2. c = procs[r] /\ procs[r] # 0 /\ c \in Nat
    BY <1>0, <1>1, <1>3 DEF PhaseFact, CgroupTypes
  <2>3. /\ phase' \in [Runners -> Phases] /\ phase'[r] = "proxy"
        /\ \A q \in Runners \ {r} : phase'[q] = phase[q]
    BY <1>0, <2>1, GoFacts DEF Phases
  <2>4. rule' \in [Runners -> Nat] /\ rule'[r] = procs[r] /\ \A q \in Runners \ {r} : rule'[q] = rule[q]
    BY <1>0, <2>1, <2>2 DEF CgroupTypes
  <2>5. CgroupTypes' /\ IdsOnce' /\ LiveApart' /\ InSandboxLeaf'
    <3>1. CgroupTypes'
      BY <1>0, <1>1, <2>3, <2>4 DEF CgroupTypes
    <3>2. IdsOnce' /\ InSandboxLeaf'
      BY <1>1 DEF CgroupInv, IdsOnce, InSandboxLeaf
    <3>3. LiveApart'
      BY <1>1, <2>3 DEF CgroupInv, LiveApart, Live, Over, Base
    <3> QED BY <3>1, <3>2, <3>3
  <2>6. OpenedOwn'
    BY <1>0, <1>1, <2>4 DEF OpenedOwn, ProxyLeaf, Dir
  <2>7. ASSUME NEW q \in Runners \ {r} PROVE PhaseFact(q)'
    BY <1>1, <2>3, <2>4 DEF CgroupInv, PhaseFacts, PhaseFact, ProxyLeaf, SandboxLeaf, MakeLists, MakeOrder, Dir
  <2>8. PhaseFact(r)'
    BY <1>1, <2>2, <2>3, <2>4 DEF PhaseFact, ProxyLeaf, Dir
  <2> QED BY <2>5, <2>6, <2>7, <2>8 DEF CgroupInv, PhaseFacts
<1> QED BY <1>2, <1>3

(* The proxy goes where the ruleset looks for it.                          *)
LEMMA StartNetProxyKeeps ==
  ASSUME CgroupInv, NEW r \in Runners, start_net_proxy(r)
  PROVE  CgroupInv'
<1> USE DEF NoCgroup, Home
<1>0. CgroupTypes /\ PhaseFact(r)
  BY DEF CgroupInv, PhaseFacts
<1>1. /\ phase[r] = "proxy" /\ UNCHANGED <<id, made, removing, procs, rule>> /\ Live(r)
      /\ procs[r] \in Nat
  BY <1>0 DEF start_net_proxy, Live, Over, CgroupTypes
<1>2. CASE Move(r, "proxy", procs[r]) /\ Go(r, "running")
  <2> DEFINE c == procs[r]
  <2>1. Move(r, "proxy", c) /\ c \in Nat /\ c = procs[r]
    BY <1>1, <1>2
  <2> HIDE DEF c
  <2>2. /\ CgroupTypes' /\ IdsOnce' /\ LiveApart' /\ InSandboxLeaf' /\ OpenedOwn'
        /\ \A q \in Runners \ {r} : PhaseFact(q)'
        /\ phase'[r] = "running"
    BY <1>1, <1>2, <2>1, MoveKeeps DEF Procs, Phases
  <2>3. where'[r]["proxy"] = procs[r]
    BY <1>0, <2>1, MoveFacts DEF Procs
  <2>4. PhaseFact(r)'
    BY <1>0, <1>1, <2>2, <2>3 DEF PhaseFact, ProxyLeaf, Dir
  <2> QED BY <2>2, <2>4 DEF CgroupInv, PhaseFacts
<1>3. CASE Go(r, "stop") /\ UNCHANGED where
  <2>2. phase'[r] = "stop" /\ OthersStay(r)
    BY <1>0, <1>1, <1>3, GoFacts DEF Phases, Over, OthersStay, CgroupTypes
  <2>3. Faded(r)
    BY <1>0, <1>1, <1>3, <2>2 DEF Faded, Shrunk, CgroupTypes, Procs
  <2>4. PhaseFact(r)'
    BY <2>2 DEF PhaseFact
  <2> QED BY <1>1, <2>3, <2>4, FadedEnds
<1> QED BY <1>2, <1>3 DEF start_net_proxy

(* What holds of the cgroups holds of every run there is.                  *)
LEMMA CgroupInvInductive == CgroupSpec => []CgroupInv
<1>1. CgroupInit => CgroupInv
  <2> SUFFICES ASSUME CgroupInit PROVE CgroupInv
    OBVIOUS
  <2> USE DEF NoCgroup
  <2>1. CgroupTypes
    BY DEF CgroupInit, CgroupTypes, Phases, Over
  <2>2. IdsOnce /\ LiveApart /\ InSandboxLeaf
    BY DEF CgroupInit, IdsOnce, LiveApart, Live, Over, InSandboxLeaf, Procs
  <2>3. OpenedOwn
    BY DEF CgroupInit, OpenedOwn, Procs
  <2>4. PhaseFacts
    BY DEF CgroupInit, PhaseFacts, PhaseFact
  <2> QED BY <2>1, <2>2, <2>3, <2>4 DEF CgroupInv
<1>2. CgroupInv /\ [CgroupNext]_cvars => CgroupInv'
  <2> SUFFICES ASSUME CgroupInv, [CgroupNext]_cvars PROVE CgroupInv'
    OBVIOUS
  <2>1. CASE CgroupNext
    <3>1. PICK r \in Runners : CgroupStep(r)
      BY <2>1 DEF CgroupNext
    <3> QED
      BY <3>1, CreateKeeps, SweepKeeps, MakeKeeps, OpenProcsKeeps, MoveInKeeps, UndoKeeps, SpawnBoxKeeps,
         InstallRulesKeeps, StartNetProxyKeeps, StopKeeps, RemovingKeeps, DeathKeeps DEF CgroupStep
  <2>2. CASE UNCHANGED cvars
    <3>1. UNCHANGED <<id, made, where, phase, removing, procs, rule>>
      BY <2>2 DEF cvars
    <3>2. CgroupTypes' /\ IdsOnce'
      BY <3>1 DEF CgroupInv, CgroupTypes, IdsOnce
    <3>3. LiveApart' /\ InSandboxLeaf'
      BY <3>1 DEF CgroupInv, LiveApart, Live, Base, InSandboxLeaf
    <3>4. OpenedOwn'
      BY <3>1 DEF CgroupInv, OpenedOwn, ProxyLeaf, Dir
    <3>5. PhaseFacts'
      BY <3>1 DEF CgroupInv, PhaseFacts, PhaseFact, MakeLists, MakeOrder, ProxyLeaf, SandboxLeaf, Dir
    <3> QED BY <3>2, <3>3, <3>4, <3>5 DEF CgroupInv
  <2> QED BY <2>1, <2>2
<1> QED BY <1>1, <1>2, PTL DEF CgroupSpec

(* What a ruleset lets out is its own run's proxy and nothing else,        *)
(* however many runs there are and whatever their names and pids           *)
(* (cgroup.rs:215, launcher.rs:2172).                                      *)
THEOREM GateIsProxysHolds == CgroupSpec => []GateIsProxys
<1>1. CgroupInv => GateIsProxys
  <2> SUFFICES ASSUME CgroupInv, NEW r \in Runners
               PROVE  /\ phase[r] = "running" => where[r]["proxy"] = rule[r]
                      /\ rule[r] # NoCgroup => \A q \in Runners, p \in Procs :
                                                 where[q][p] = rule[r] => <<q, p>> = <<r, "proxy">>
                      /\ where[r]["box"] # NoCgroup =>
                           \A d \in AllDirs : id[d] = where[r]["box"] => d.leaf = "sandbox"
    BY DEF GateIsProxys
  <2> USE DEF NoCgroup
  <2>1. phase[r] = "running" => where[r]["proxy"] = rule[r]
    BY DEF CgroupInv, PhaseFacts, PhaseFact
  <2>2. ASSUME rule[r] # 0, NEW q \in Runners, NEW p \in Procs, where[q][p] = rule[r]
        PROVE  q = r /\ p = "proxy"
    <3>1. rule[r] = procs[r] /\ 2 <= procs[r]
      BY <2>2 DEF CgroupInv, OpenedOwn
    <3>2. p = "proxy"
      BY <2>2, <3>1 DEF CgroupInv, InSandboxLeaf, Procs
    <3> QED BY <2>2, <3>1, <3>2 DEF CgroupInv, OpenedOwn
  <2>3. ASSUME where[r]["box"] # 0, NEW d \in AllDirs, id[d] = where[r]["box"]
        PROVE  d.leaf = "sandbox"
    <3>1. where[r]["box"] >= 2
      BY <2>3 DEF CgroupInv, IdsOnce
    <3> QED BY <2>3, <3>1 DEF CgroupInv, InSandboxLeaf
  <2> QED BY <2>1, <2>2, <2>3
<1> QED BY <1>1, CgroupInvInductive, PTL

-----------------------------------------------------------------------------
(* The descriptors of a start.                                             *)

(* The parts an allocator has once m of its spawn's list are made.         *)
MadeOf(s, m) == {Parts[s][i] : i \in 1..m} \cup (IF s = "app" THEN {"socket"} ELSE {})
(* The names of what can be open, a descriptor, and the types.             *)
Whats == [spawn : Names \cup {"nobody", "caller", "bubbler"}, part : AllParts \cup {"", "stray"}]
Entry == [what : Whats, cloexec : BOOLEAN]
SpawnTypes ==
  /\ table \in [Numbers -> [what : Whats, cloexec : BOOLEAN]]
  /\ alloc \in [Names -> [AllParts -> Nat]]
  /\ step \in [at : 1..6, do : {"make", "window", "spawn", "after"}]
  /\ parts \in 0..Len(Parts[Now])
  /\ DOMAIN held = Names
  /\ outcome \in {"starting", "failed", "up"}
(* A number an allocator has is open there, as what it was made for.       *)
AllocsOpen ==
  /\ outcome = "failed" => \A n \in Numbers : table[n] = Unused
  /\ outcome # "failed" =>
       \A s \in Names, p \in AllParts :
         alloc[s][p] # None => alloc[s][p] \in Numbers /\ table[alloc[s][p]].what = What(s, p)
(* What is open for a spawn is in its allocator.                           *)
OpenAlloced ==
  \A n \in Numbers, s \in Names, p \in AllParts : table[n].what = What(s, p) => alloc[s][p] = n
(* The spawns to come have nothing yet but the control socket.             *)
AllocsLater ==
  \A s \in Names, p \in AllParts :
    (\E i \in (step.at + 1)..6 : Spawns[i] = s) /\ <<s, p>> # <<"app", "socket">> => alloc[s][p] = None
(* The control socket waits for the sandbox.                               *)
SocketKept == step.at < 3 => alloc["app"]["socket"] # None
(* The spawn at hand has what was made of its list so far, and from then   *)
(* on its own parts.                                                       *)
AllocsNow ==
  outcome = "starting" =>
    \A p \in AllParts : alloc[Now][p] # None <=>
      p \in (IF step.do = "make" THEN MadeOf(Now, parts) ELSE OwnParts(Now))
(* The window: nothing but what this spawn is given is inherited.          *)
WindowShut ==
  outcome = "starting" =>
    /\ step.do \in {"make", "window"} =>
         \A p \in Bare : alloc[Now][p] # None => ~table[alloc[Now][p]].cloexec
    /\ step.do = "spawn" =>
         \A n \in Numbers : Open(n) => (table[n].cloexec <=> n \notin Numbered(Now))
(* What the children have.                                                 *)
HeldOwn ==
  /\ \A s \in Names : held[s] \in {{}, {What(s, p) : p \in OwnParts(s)}}
  /\ step.at > 3 \/ (step.at = 3 /\ step.do = "after") => held["app"] # {}
  /\ outcome = "up" => step.at = 6
  /\ \A i \in step.at..6 : held[Spawns[i]] # {} => i = step.at /\ (outcome # "starting" \/ step.do = "after")
(* What only the child may hold is no longer the allocator's.              *)
SoleGiven ==
  \A s \in Names, p \in AllParts :
    What(s, p) \in Sole /\ alloc[s][p] # None => held[s] = {} \/ (Now = s /\ outcome # "up")
SpawnInv == SpawnTypes /\ AllocsOpen /\ OpenAlloced /\ AllocsLater /\ SocketKept /\ AllocsNow /\ WindowShut
            /\ HeldOwn /\ SoleGiven

(* The six spawns.                                                         *)
LEMMA SpawnsFacts ==
  /\ Len(Spawns) = 6
  /\ Names = {"bus", "wl", "app", "pasta", "nft", "netproxy"}
  /\ \A i \in 1..6 : Spawns[i] \in Names /\ (Spawns[i] = "app" <=> i = 3)
  /\ \A i, j \in 1..6 : Spawns[i] = Spawns[j] => i = j
<1>1. DOMAIN Spawns = 1..6 /\ Len(Spawns) = 6
  BY DEF Spawns
<1>2. Spawns[1] = "bus" /\ Spawns[2] = "wl" /\ Spawns[3] = "app" /\ Spawns[4] = "pasta"
      /\ Spawns[5] = "nft" /\ Spawns[6] = "netproxy"
  BY DEF Spawns
<1>3. \A i \in 1..6 : i = 1 \/ i = 2 \/ i = 3 \/ i = 4 \/ i = 5 \/ i = 6
  OBVIOUS
<1>4. Names = {"bus", "wl", "app", "pasta", "nft", "netproxy"}
  <2>1. Names = {Spawns[i] : i \in 1..6}
    BY <1>1 DEF Names
  <2> QED BY <1>2, <1>3, <2>1
<1>5. \A i \in 1..6 : Spawns[i] \in Names /\ (Spawns[i] = "app" <=> i = 3)
  BY <1>2, <1>3, <1>4
<1>6. \A i, j \in 1..6 : Spawns[i] = Spawns[j] => i = j
  BY <1>2, <1>3
<1> QED BY <1>1, <1>4, <1>5, <1>6

(* The parts of a spawn are made one after the other, each of them once.   *)
LEMMA PartsFacts ==
  ASSUME NEW s \in Names
  PROVE  /\ Len(Parts[s]) \in Nat
         /\ MadeOf(s, 0) = IF s = "app" THEN {"socket"} ELSE {}
         /\ \A i \in 0..(Len(Parts[s]) - 1) :
              /\ Parts[s][i + 1] \in AllParts \ MadeOf(s, i)
              /\ MadeOf(s, i + 1) = MadeOf(s, i) \cup {Parts[s][i + 1]}
         /\ OwnParts(s) = MadeOf(s, Len(Parts[s])) \cup (IF s \in Bwraps THEN {"options"} ELSE {})
         /\ OwnParts(s) \subseteq AllParts
         /\ "options" \notin MadeOf(s, Len(Parts[s]))
<1>1. s = "bus" \/ s = "wl" \/ s = "app" \/ s = "pasta" \/ s = "nft" \/ s = "netproxy"
  BY SpawnsFacts
<1>2. /\ Parts["bus"] = <<"seccomp", "ready">> /\ Parts["wl"] = <<"listener", "seccomp", "ready">>
      /\ Parts["app"] = <<"seccomp", "info", "block">> /\ Parts["pasta"] = <<>> /\ Parts["nft"] = <<>>
      /\ Parts["netproxy"] = <<"ready">>
  BY DEF Parts
<1>3. MadeOf(s, 0) = IF s = "app" THEN {"socket"} ELSE {}
  BY DEF MadeOf
<1>11. /\ Len(Parts["bus"]) = 2 /\ Len(Parts["wl"]) = 3 /\ Len(Parts["app"]) = 3
       /\ Len(Parts["pasta"]) = 0 /\ Len(Parts["nft"]) = 0 /\ Len(Parts["netproxy"]) = 1
  <2>1. /\ Len(<<"seccomp", "ready">>) = 2 /\ Len(<<"listener", "seccomp", "ready">>) = 3
        /\ Len(<<"seccomp", "info", "block">>) = 3 /\ Len(<<>>) = 0 /\ Len(<<"ready">>) = 1
    OBVIOUS
  <2> QED BY <1>2, <2>1
<1>12. /\ Parts["bus"] \in Seq(AllParts) /\ Parts["wl"] \in Seq(AllParts) /\ Parts["app"] \in Seq(AllParts)
       /\ Parts["pasta"] \in Seq(AllParts) /\ Parts["nft"] \in Seq(AllParts) /\ Parts["netproxy"] \in Seq(AllParts)
  <2>1. "seccomp" \in AllParts /\ "ready" \in AllParts /\ "listener" \in AllParts /\ "info" \in AllParts
        /\ "block" \in AllParts
    BY DEF AllParts
  <2>2. /\ <<"seccomp", "ready">> \in Seq(AllParts) /\ <<"listener", "seccomp", "ready">> \in Seq(AllParts)
        /\ <<"seccomp", "info", "block">> \in Seq(AllParts)
        /\ <<>> \in Seq(AllParts) /\ <<"ready">> \in Seq(AllParts)
    BY <2>1
  <2> QED BY <1>2, <2>2
<1>4. Len(Parts[s]) \in 0..3 /\ DOMAIN Parts[s] = 1..Len(Parts[s])
  <2>1. Len(Parts[s]) \in 0..3
    BY <1>1, <1>11
  <2>2. Parts[s] \in Seq(AllParts)
    BY <1>1, <1>12
  <2> QED BY <2>1, <2>2, LenProperties
<1>5. ASSUME NEW i \in 0..(Len(Parts[s]) - 1)
      PROVE  MadeOf(s, i + 1) = MadeOf(s, i) \cup {Parts[s][i + 1]}
  <2>1. 1..(i + 1) = (1..i) \cup {i + 1}
    BY <1>4
  <2> QED BY <2>1 DEF MadeOf
<1>8. \A i \in 1..Len(Parts[s]) : Parts[s][i] \in {"seccomp", "ready", "listener", "info", "block"}
  <2>1. CASE s = "bus"
    BY <1>2, <2>1
  <2>2. CASE s = "wl"
    BY <1>2, <2>2
  <2>3. CASE s = "app"
    BY <1>2, <2>3
  <2>4. CASE s = "pasta" \/ s = "nft"
    BY <1>11, <2>4
  <2>5. CASE s = "netproxy"
    BY <1>2, <2>5
  <2> QED BY <1>1, <2>1, <2>2, <2>3, <2>4, <2>5
<1>6. ASSUME NEW i \in 0..(Len(Parts[s]) - 1)
      PROVE  Parts[s][i + 1] \in AllParts \ MadeOf(s, i)
  <2>1. i \in Nat /\ i + 1 \in 1..Len(Parts[s])
    <3> DEFINE L == Len(Parts[s])
    <3>1. L \in 0..3 /\ i \in 0..(L - 1)
      BY <1>4
    <3> HIDE DEF L
    <3>2. i + 1 \in 1..L
      BY <3>1
    <3> QED BY <3>1, <3>2 DEF L
  <2>2. \A j, k \in 1..Len(Parts[s]) : Parts[s][j] = Parts[s][k] => j = k
    <3>1. CASE s = "bus"
      BY <1>2, <3>1
    <3>2. CASE s = "wl"
      BY <1>2, <3>2
    <3>3. CASE s = "app"
      BY <1>2, <3>3
    <3>4. CASE s = "pasta" \/ s = "nft"
      BY <1>11, <3>4
    <3>5. CASE s = "netproxy"
      BY <1>2, <3>5
    <3> QED BY <1>1, <3>1, <3>2, <3>3, <3>4, <3>5
  <2>3. Parts[s][i + 1] \in {"seccomp", "ready", "listener", "info", "block"}
    BY <1>8, <2>1
  <2>4. Parts[s][i + 1] \notin {Parts[s][j] : j \in 1..i}
    BY <1>4, <2>1, <2>2
  <2> QED BY <2>3, <2>4 DEF MadeOf, AllParts
<1>7. OwnParts(s) = MadeOf(s, Len(Parts[s])) \cup (IF s \in Bwraps THEN {"options"} ELSE {})
  BY <1>4 DEF OwnParts, MadeOf
<1>9. MadeOf(s, Len(Parts[s])) \subseteq AllParts \ {"options"}
  BY <1>8 DEF MadeOf, AllParts
<1>10. OwnParts(s) \subseteq AllParts
  BY <1>7, <1>9 DEF AllParts
<1> QED BY <1>3, <1>4, <1>5, <1>6, <1>7, <1>9, <1>10

(* What only the child may hold is closed once it runs, and what is no     *)
(* bwrap is given at most the end of a pipe.                               *)
LEMMA SoleFacts ==
  ASSUME NEW s \in Names
  PROVE  /\ \A p \in AllParts : What(s, p) \in Sole => p \in CloseAfter(s)
         /\ s \notin Bwraps => OwnParts(s) \subseteq Bare
<1>1. \A p \in AllParts : What(s, p) \in Sole => p \in CloseAfter(s)
  BY DEF Sole, What, CloseAfter
<1>2. ASSUME s \notin Bwraps PROVE OwnParts(s) \subseteq Bare
  <2>1. s = "pasta" \/ s = "nft" \/ s = "netproxy"
    BY <1>2, SpawnsFacts DEF Bwraps, SidecarSpawns
  <2>2. Parts["pasta"] = <<>> /\ Parts["nft"] = <<>> /\ Parts["netproxy"] = <<"ready">>
    BY DEF Parts
  <2>3. OwnParts(s) = {Parts[s][i] : i \in DOMAIN Parts[s]}
    BY <1>2, <2>1 DEF OwnParts
  <2> QED BY <2>1, <2>2, <2>3 DEF Bare
<1> QED BY <1>1, <1>2

(* The kernel's number is free.                                            *)
LEMMA LeastIsFree ==
  ASSUME NEW t, FreeIn(t) # {}
  PROVE  Least(t) \in Numbers /\ t[Least(t)] = Unused
<1> DEFINE F == FreeIn(t)
<1>1. F \subseteq Nat /\ F # {}
  BY SpawnAssumption DEF FreeIn
<1> HIDE DEF F
<1>2. PICK n \in F : \A m \in F : ~(<<m, n>> \in OpToRel(<, Nat))
  BY <1>1, WFMin, NatLessThanWellFounded, Zenon
<1>3. \A m \in F : n <= m
  <2> SUFFICES ASSUME NEW m \in F PROVE n <= m
    OBVIOUS
  <2>1. ~(<<m, n>> \in OpToRel(<, Nat))
    BY <1>2, Zenon
  <2>2. m \in Nat /\ n \in Nat
    BY <1>1
  <2>3. ~(m < n)
    BY <2>1, <2>2 DEF OpToRel
  <2> QED BY <2>2, <2>3
<1>4. (CHOOSE k \in F : \A m \in F : k <= m) \in F
  BY <1>3
<1>5. Least(t) \in F
  BY <1>4 DEF Least, F
<1> QED BY <1>5 DEF F, FreeIn

(* The names of what is open are told apart.                               *)
LEMMA WhatFacts ==
  ASSUME NEW s \in Names, NEW p \in AllParts
  PROVE  /\ \A q \in Names, x \in AllParts : What(s, p) = What(q, x) => s = q /\ p = x
         /\ What(s, p) \in Whats /\ What(s, p) # Unused.what
         /\ What(s, p).spawn = s /\ What(s, p).part = p /\ s # "bubbler"
<1>1. s # "bubbler" /\ s # "nobody" /\ s # "caller"
  BY SpawnsFacts
<1>2. What(s, p) \in Whats /\ What(s, p).spawn = s /\ What(s, p).part = p
  BY DEF Whats, What
<1>3. Unused.what.spawn = "nobody"
  BY DEF Unused, What
<1>4. What(s, p) # Unused.what
  BY <1>1, <1>2, <1>3
<1>5. \A q \in Names, x \in AllParts : What(s, p) = What(q, x) => s = q /\ p = x
  BY DEF What
<1> QED BY <1>1, <1>2, <1>4, <1>5
(* The empty entry, and the ends of pipes that stay bubbler's.             *)
LEMMA UnusedFacts ==
  /\ Unused \in Entry
  /\ \A p \in Piped : What("bubbler", p) \in Whats /\ What("bubbler", p).spawn = "bubbler"
  /\ "nobody" \notin Names /\ Unused.what.spawn = "nobody"
<1>1. "nobody" \notin Names
  BY SpawnsFacts
<1> QED BY <1>1 DEF Unused, Entry, Whats, What, Piped, AllParts

(* What is opened takes the least free number, and no other changes.       *)
LEMMA PutFacts ==
  ASSUME NEW t \in [Numbers -> Entry], FreeIn(t) # {}, NEW w \in Whats, NEW c \in BOOLEAN
  PROVE  /\ Put(t, w, c) \in [Numbers -> Entry]
         /\ Put(t, w, c)[Least(t)] = [what |-> w, cloexec |-> c]
         /\ \A n \in Numbers \ {Least(t)} : Put(t, w, c)[n] = t[n]
<1> DEFINE l == Least(t)  e == [what |-> w, cloexec |-> c]
<1>1. l \in Numbers
  BY LeastIsFree
<1>2. e \in Entry
  BY DEF Entry
<1>3. Put(t, w, c) = [t EXCEPT ![l] = e]
  BY DEF Put
<1> HIDE DEF l, e
<1>4. /\ Put(t, w, c) \in [Numbers -> Entry] /\ Put(t, w, c)[l] = e
      /\ \A n \in Numbers \ {l} : Put(t, w, c)[n] = t[n]
  BY <1>1, <1>2, <1>3
<1> QED BY <1>4 DEF l, e

(* A step that gives the spawn a part of its own at a free number.         *)
Given(p, l, c) ==
  /\ l \in Numbers /\ table[l] = Unused
  /\ table' \in [Numbers -> Entry]
  /\ table'[l].what = What(Now, p) /\ table'[l].cloexec = c
  /\ \A n \in Numbers \ {l} : table'[n] = table[n] \/ (table[n] = Unused /\ table'[n].what.spawn = "bubbler")
  /\ alloc' = [alloc EXCEPT ![Now][p] = l]

(* The step the start is at.                                               *)
LEMMA NowFacts ==
  ASSUME SpawnTypes
  PROVE  Now \in Names /\ step.at \in 1..6
BY SpawnsFacts DEF SpawnTypes, Now

(* The allocators after it.                                                *)
LEMMA AllocGiven ==
  ASSUME SpawnTypes, NEW p \in AllParts, NEW l, NEW c, Given(p, l, c)
  PROVE  /\ alloc' \in [Names -> [AllParts -> Nat]]
         /\ alloc'[Now][p] = l /\ l # None
         /\ \A s \in Names, x \in AllParts : <<s, x>> # <<Now, p>> => alloc'[s][x] = alloc[s][x]
<1>1. l \in Nat /\ l # 0
  BY SpawnAssumption DEF Given
<1>2. Now \in Names
  BY NowFacts
<1> DEFINE k == Now
<1>3. alloc' = [alloc EXCEPT ![k] = [alloc[k] EXCEPT ![p] = l]]
  BY DEF Given
<1>4. alloc \in [Names -> [AllParts -> Nat]] /\ alloc[k] \in [AllParts -> Nat] /\ k \in Names
  BY <1>2 DEF SpawnTypes
<1> HIDE DEF k
<1>5. [alloc[k] EXCEPT ![p] = l] \in [AllParts -> Nat]
  BY <1>1, <1>4
<1>6. alloc' \in [Names -> [AllParts -> Nat]]
  BY <1>3, <1>4, <1>5
<1>7. alloc'[k] = [alloc[k] EXCEPT ![p] = l]
  BY <1>3, <1>4
<1>8. alloc'[k][p] = l /\ \A x \in AllParts \ {p} : alloc'[k][x] = alloc[k][x]
  BY <1>4, <1>7
<1>9. \A s \in Names \ {k} : alloc'[s] = alloc[s]
  BY <1>3, <1>4
<1> QED BY <1>1, <1>6, <1>8, <1>9 DEF k, None

(* It keeps the table and the allocators in step, and touches no other     *)
(* spawn.                                                                  *)
LEMMA GivenKeeps ==
  ASSUME SpawnInv, outcome = "starting", outcome' = outcome, held' = held,
         step'.at = step.at, step.do = "make", step'.do \in {"make", "window"},
         NEW p \in AllParts, NEW l, NEW c, Given(p, l, c), alloc[Now][p] = None, p \in Bare => ~c
  PROVE  /\ AllocsOpen' /\ OpenAlloced' /\ WindowShut' /\ HeldOwn' /\ SoleGiven'
         /\ AllocsLater' /\ SocketKept'
         /\ \A x \in AllParts : alloc'[Now][x] # None <=> (x = p \/ alloc[Now][x] # None)
<1>0. SpawnTypes /\ Now \in Names /\ table \in [Numbers -> Entry] /\ step.at \in 1..6 /\ Now' = Now
  BY NowFacts DEF SpawnInv, SpawnTypes, Entry, Now
<1>1. /\ alloc'[Now][p] = l /\ l # None
      /\ \A s \in Names, x \in AllParts : <<s, x>> # <<Now, p>> => alloc'[s][x] = alloc[s][x]
  BY <1>0, AllocGiven
<1>2. /\ l \in Numbers /\ table[l] = Unused /\ table'[l].what = What(Now, p) /\ table'[l].cloexec = c
      /\ \A n \in Numbers \ {l} : table'[n] = table[n] \/ (table[n] = Unused /\ table'[n].what.spawn = "bubbler")
  BY DEF Given
<1>3. ASSUME NEW s \in Names, NEW x \in AllParts, alloc[s][x] # None
      PROVE  /\ alloc[s][x] \in Numbers /\ table[alloc[s][x]].what = What(s, x)
             /\ alloc'[s][x] = alloc[s][x] /\ table'[alloc[s][x]] = table[alloc[s][x]]
  <2>1. alloc[s][x] \in Numbers /\ table[alloc[s][x]].what = What(s, x)
    BY <1>3 DEF SpawnInv, AllocsOpen
  <2>2. table[alloc[s][x]] # Unused
    BY <2>1, WhatFacts
  <2>3. alloc'[s][x] = alloc[s][x]
    BY <1>1, <1>3
  <2> QED BY <1>2, <2>1, <2>2, <2>3
<1>4. ASSUME NEW s \in Names, NEW x \in AllParts, alloc'[s][x] # None
      PROVE  alloc'[s][x] \in Numbers /\ table'[alloc'[s][x]].what = What(s, x)
  <2>1. CASE s = Now /\ x = p
    BY <1>1, <1>2, <2>1
  <2>2. CASE ~(s = Now /\ x = p)
    <3>1. alloc[s][x] # None
      BY <1>1, <1>4, <2>2
    <3> QED BY <1>3, <3>1
  <2> QED BY <2>1, <2>2
<1>5. AllocsOpen'
  BY <1>4 DEF AllocsOpen
<1>6. ASSUME NEW n \in Numbers, NEW s \in Names, NEW x \in AllParts, table'[n].what = What(s, x)
      PROVE  alloc'[s][x] = n
  <2>1. CASE n = l
    BY <1>0, <1>1, <1>2, <1>6, <2>1, WhatFacts
  <2>2. CASE n # l
    <3>1. table'[n] = table[n]
      BY <1>2, <1>6, <2>2, WhatFacts
    <3>2. alloc[s][x] = n
      BY <1>6, <3>1 DEF SpawnInv, OpenAlloced
    <3>3. ~(s = Now /\ x = p)
      BY <3>2, SpawnAssumption DEF None
    <3> QED BY <1>1, <3>2, <3>3
  <2> QED BY <2>1, <2>2
<1>7. OpenAlloced'
  BY <1>6 DEF OpenAlloced
<1>8. \A x \in AllParts : alloc'[Now][x] # None <=> (x = p \/ alloc[Now][x] # None)
  BY <1>0, <1>1
<1>9. ASSUME NEW x \in Bare, alloc'[Now][x] # None
      PROVE  ~table'[alloc'[Now][x]].cloexec
  <2>1. x \in AllParts
    BY DEF Bare, AllParts
  <2>2. CASE x = p
    BY <1>1, <1>2, <2>2
  <2>3. CASE x # p
    <3>1. alloc[Now][x] # None
      BY <1>8, <1>9, <2>1, <2>3
    <3>2. ~table[alloc[Now][x]].cloexec
      BY <3>1 DEF SpawnInv, WindowShut
    <3> QED BY <1>0, <1>3, <2>1, <3>1, <3>2
  <2> QED BY <2>2, <2>3
<1>10. WindowShut'
  BY <1>0, <1>9 DEF WindowShut
<1>11. HeldOwn'
  BY <1>0 DEF SpawnInv, HeldOwn
<1>12. SoleGiven'
  <2> SUFFICES ASSUME NEW s \in Names, NEW x \in AllParts, What(s, x) \in Sole, alloc'[s][x] # None, s # Now
               PROVE  held[s] = {}
    BY <1>0 DEF SoleGiven
  <2>1. alloc[s][x] # None
    BY <1>1
  <2> QED BY <2>1 DEF SpawnInv, SoleGiven
<1>13. AllocsLater'
  <2> SUFFICES ASSUME NEW s \in Names, NEW x \in AllParts, NEW i \in (step.at + 1)..6, Spawns[i] = s,
                      <<s, x>> # <<"app", "socket">>
               PROVE  alloc'[s][x] = None
    BY <1>0 DEF AllocsLater
  <2>1. s # Now
    <3>1. i \in 1..6 /\ i # step.at
      BY <1>0
    <3> QED BY <1>0, <3>1, SpawnsFacts DEF Now
  <2>2. alloc[s][x] = None
    BY <1>0 DEF SpawnInv, AllocsLater
  <2> QED BY <1>1, <2>1, <2>2
<1>14. SocketKept'
  <2> SUFFICES ASSUME step.at < 3 PROVE alloc'["app"]["socket"] # None
    BY <1>0 DEF SocketKept
  <2>1. "app" \in Names /\ "socket" \in AllParts /\ Now # "app"
    BY <1>0, SpawnsFacts DEF AllParts, Now
  <2>2. alloc["app"]["socket"] # None
    BY DEF SpawnInv, SocketKept
  <2> QED BY <1>1, <2>1, <2>2
<1> QED BY <1>5, <1>7, <1>8, <1>10, <1>11, <1>12, <1>13, <1>14

(* Each action keeps the invariant: a part made with the end of its pipe;  *)
LEMMA MakePartKeeps ==
  ASSUME SpawnInv, MakePart
  PROVE  SpawnInv'
<1> DEFINE p == Parts[Now][parts + 1]
           c == p \notin Bare
           t == Put(table, What(Now, p), c)
           l == Least(table)
<1>0. SpawnTypes /\ Now \in Names /\ table \in [Numbers -> Entry]
  BY NowFacts DEF SpawnInv, SpawnTypes, Entry
<1>1. /\ outcome = "starting" /\ step.do = "make" /\ parts < Len(Parts[Now]) /\ FreeIn(table) # {}
      /\ UNCHANGED <<step, held, outcome>> /\ parts' = parts + 1
  BY DEF MakePart, Idle
<1>2. /\ p \in Piped => FreeIn(t) # {}
      /\ alloc' = [alloc EXCEPT ![Now][p] = l]
      /\ table' = IF p \in Piped THEN Put(t, What("bubbler", p), TRUE) ELSE t
  BY DEF MakePart
<1>3. /\ p \in AllParts \ MadeOf(Now, parts) /\ parts \in Nat /\ parts + 1 \in 0..Len(Parts[Now])
      /\ MadeOf(Now, parts + 1) = MadeOf(Now, parts) \cup {p}
  <2> DEFINE L == Len(Parts[Now])
  <2>1. L \in Nat /\ parts \in 0..L /\ parts < L
    BY <1>0, <1>1, PartsFacts DEF SpawnTypes
  <2> HIDE DEF L
  <2>2. parts \in 0..(L - 1) /\ parts + 1 \in 0..L /\ parts \in Nat
    BY <2>1
  <2>3. parts \in 0..(Len(Parts[Now]) - 1)
    BY <2>2 DEF L
  <2> QED BY <1>0, <2>2, <2>3, PartsFacts DEF L
<1>4. alloc[Now][p] = None
  BY <1>1, <1>3 DEF SpawnInv, AllocsNow
<1> HIDE DEF p
<1>5. /\ t \in [Numbers -> Entry] /\ t[l] = [what |-> What(Now, p), cloexec |-> c]
      /\ \A n \in Numbers \ {l} : t[n] = table[n]
  <2>1. What(Now, p) \in Whats /\ c \in BOOLEAN
    BY <1>0, <1>3, WhatFacts
  <2> HIDE DEF c
  <2> QED BY <1>0, <1>1, <2>1, PutFacts
<1>6. l \in Numbers /\ table[l] = Unused
  BY <1>1, LeastIsFree
<1>7. t[l].what = What(Now, p) /\ t[l].cloexec = c /\ t[l] # Unused
  <2>1. t[l].what = What(Now, p) /\ t[l].cloexec = c
    BY <1>5
  <2> QED BY <1>0, <1>3, <2>1, WhatFacts
<1> HIDE DEF c, t, l
<1>8. Given(p, l, c)
  <2>1. CASE p \notin Piped
    BY <1>2, <1>5, <1>6, <1>7, <2>1 DEF Given
  <2>2. CASE p \in Piped
    <3> DEFINE k == Least(t)
               w == What("bubbler", p)
               b == TRUE
    <3>1. k \in Numbers /\ t[k] = Unused
      BY <1>2, <2>2, LeastIsFree
    <3>2. w \in Whats /\ w.spawn = "bubbler"
      BY <2>2, UnusedFacts
    <3>3. table' = Put(t, w, b) /\ b \in BOOLEAN /\ FreeIn(t) # {} /\ t \in [Numbers -> Entry]
      BY <1>2, <1>5, <2>2
    <3> HIDE DEF w, b
    <3>4. /\ table' \in [Numbers -> Entry] /\ table'[k] = [what |-> w, cloexec |-> b]
          /\ \A n \in Numbers \ {k} : table'[n] = t[n]
      BY <3>2, <3>3, PutFacts
    <3> HIDE DEF k
    <3>5. k # l /\ table[k] = Unused /\ table'[k].what.spawn = "bubbler" /\ table'[l] = t[l]
      BY <1>5, <1>6, <1>7, <3>1, <3>2, <3>4
    <3> QED BY <1>2, <1>5, <1>6, <1>7, <3>1, <3>4, <3>5 DEF Given
  <2> QED BY <2>1, <2>2
<1>9. p \in AllParts /\ (p \in Bare => ~c)
  BY <1>3 DEF c
<1>10. /\ AllocsOpen' /\ OpenAlloced' /\ WindowShut' /\ HeldOwn' /\ SoleGiven' /\ AllocsLater' /\ SocketKept'
       /\ \A x \in AllParts : alloc'[Now][x] # None <=> (x = p \/ alloc[Now][x] # None)
  BY <1>1, <1>4, <1>8, <1>9, GivenKeeps
<1>11. Now' = Now
  BY <1>1 DEF Now
<1>12. SpawnTypes'
  <2>1. table' \in [Numbers -> Entry] /\ alloc' \in [Names -> [AllParts -> Nat]]
    BY <1>0, <1>8, <1>9, AllocGiven DEF Given
  <2> QED BY <1>0, <1>1, <1>3, <1>11, <2>1 DEF SpawnTypes, Entry
<1>13. AllocsNow'
  <2>1. \A x \in AllParts : alloc[Now][x] # None <=> x \in MadeOf(Now, parts)
    BY <1>1 DEF SpawnInv, AllocsNow
  <2>2. \A x \in AllParts : alloc'[Now][x] # None <=> x \in MadeOf(Now, parts + 1)
    BY <1>3, <1>10, <2>1
  <2>3. MadeOf(Now, parts)' = MadeOf(Now, parts + 1)
    BY <1>1, <1>11 DEF MadeOf
  <2> QED BY <1>1, <1>11, <2>2, <2>3 DEF AllocsNow
<1> QED BY <1>10, <1>12, <1>13 DEF SpawnInv

(* the options;                                                            *)
LEMMA OptionsKeeps ==
  ASSUME SpawnInv, Options
  PROVE  SpawnInv'
<1>0. SpawnTypes /\ Now \in Names /\ table \in [Numbers -> Entry]
  BY NowFacts DEF SpawnInv, SpawnTypes, Entry
<1>1. /\ outcome = "starting" /\ step.do = "make" /\ parts = Len(Parts[Now])
      /\ UNCHANGED <<parts, held, outcome>> /\ step' = [step EXCEPT !.do = "window"]
  BY DEF Options, Idle, Do
<1>2. step'.at = step.at /\ step'.do = "window" /\ step' \in [at : 1..6, do : {"make", "window", "spawn", "after"}]
  BY <1>0, <1>1 DEF SpawnTypes
<1>3. Now' = Now
  BY <1>2 DEF Now
<1>4. \A x \in AllParts : alloc[Now][x] # None <=> x \in MadeOf(Now, Len(Parts[Now]))
  BY <1>1 DEF SpawnInv, AllocsNow
<1>5. CASE Now \in Bwraps
  <2> DEFINE p == "options"
             l == Least(table)
             w == What(Now, p)
             b == TRUE
  <2>1. FreeIn(table) # {} /\ alloc' = [alloc EXCEPT ![Now][p] = l] /\ table' = Put(table, w, b) /\ b \in BOOLEAN
    BY <1>5 DEF Options
  <2>2. p \in AllParts /\ p \notin Bare /\ w \in Whats
    BY <1>0, WhatFacts DEF AllParts, Bare
  <2>3. alloc[Now][p] = None
    BY <1>0, <1>4, <2>2, PartsFacts
  <2>4. OwnParts(Now) = MadeOf(Now, Len(Parts[Now])) \cup {p}
    BY <1>0, <1>5, PartsFacts
  <2>5. l \in Numbers /\ table[l] = Unused
    BY <2>1, LeastIsFree
  <2> HIDE DEF p, w, b
  <2>6. /\ table' \in [Numbers -> Entry] /\ table'[l] = [what |-> w, cloexec |-> b]
        /\ \A n \in Numbers \ {l} : table'[n] = table[n]
    BY <1>0, <2>1, <2>2, PutFacts
  <2> HIDE DEF l
  <2>7. Given(p, l, b)
    BY <2>1, <2>5, <2>6 DEF Given, w
  <2>8. /\ AllocsOpen' /\ OpenAlloced' /\ WindowShut' /\ HeldOwn' /\ SoleGiven' /\ AllocsLater' /\ SocketKept'
        /\ \A x \in AllParts : alloc'[Now][x] # None <=> (x = p \/ alloc[Now][x] # None)
    BY <1>1, <1>2, <2>2, <2>3, <2>7, GivenKeeps
  <2>9. alloc' \in [Names -> [AllParts -> Nat]]
    BY <1>0, <2>2, <2>7, AllocGiven
  <2>10. SpawnTypes'
    BY <1>0, <1>1, <1>2, <1>3, <2>6, <2>9 DEF SpawnTypes, Entry
  <2>11. AllocsNow'
    BY <1>1, <1>2, <1>3, <1>4, <2>4, <2>8 DEF AllocsNow
  <2> QED BY <2>8, <2>10, <2>11 DEF SpawnInv
<1>6. CASE Now \notin Bwraps
  <2>1. alloc' = alloc /\ table' = table
    BY <1>6 DEF Options
  <2>2. OwnParts(Now) = MadeOf(Now, Len(Parts[Now]))
    BY <1>0, <1>6, PartsFacts
  <2>3. SpawnTypes'
    BY <1>0, <1>1, <1>2, <1>3, <2>1 DEF SpawnTypes
  <2>4. AllocsNow'
    BY <1>1, <1>2, <1>3, <1>4, <2>1, <2>2 DEF AllocsNow
  <2>5. AllocsOpen' /\ OpenAlloced' /\ AllocsLater' /\ SocketKept'
    BY <1>1, <1>2, <2>1 DEF SpawnInv, AllocsOpen, OpenAlloced, AllocsLater, SocketKept
  <2>6. HeldOwn' /\ SoleGiven'
    BY <1>1, <1>2, <1>3, <2>1 DEF SpawnInv, HeldOwn, SoleGiven
  <2>7. WindowShut'
    BY <1>1, <1>2, <1>3, <2>1 DEF SpawnInv, WindowShut
  <2> QED BY <2>3, <2>4, <2>5, <2>6, <2>7 DEF SpawnInv
<1> QED BY <1>5, <1>6

(* the window opened and everything else shut;                             *)
LEMMA WindowKeeps ==
  ASSUME SpawnInv, Window
  PROVE  SpawnInv'
<1>0. SpawnTypes /\ Now \in Names /\ table \in [Numbers -> Entry]
  BY NowFacts DEF SpawnInv, SpawnTypes, Entry
<1>1. /\ outcome = "starting" /\ step.do = "window"
      /\ UNCHANGED <<alloc, parts, held, outcome>> /\ step' = [step EXCEPT !.do = "spawn"]
  BY DEF Window, Idle, Do
<1>2. step'.at = step.at /\ step'.do = "spawn" /\ step' \in [at : 1..6, do : {"make", "window", "spawn", "after"}]
  BY <1>0, <1>1 DEF SpawnTypes
<1>3. Now' = Now
  BY <1>2 DEF Now
<1>4. \A x \in AllParts : alloc[Now][x] # None <=> x \in OwnParts(Now)
  BY <1>1 DEF SpawnInv, AllocsNow
<1>5. table' = [n \in Numbers |->
        IF table[n] = Unused THEN Unused
        ELSE IF n \notin Numbered(Now) THEN [table[n] EXCEPT !.cloexec = TRUE]
        ELSE IF Now \in Bwraps THEN [table[n] EXCEPT !.cloexec = FALSE] ELSE table[n]]
  BY DEF Window, Open, intended
<1>6. ASSUME NEW n \in Numbers
      PROVE  table'[n] \in Entry /\ table'[n].what = table[n].what
             /\ (table[n] # Unused =>
                   /\ n \notin Numbered(Now) => table'[n].cloexec = TRUE
                   /\ n \in Numbered(Now) => table'[n].cloexec = IF Now \in Bwraps THEN FALSE ELSE table[n].cloexec)
  <2>1. table[n] \in Entry
    BY <1>0
  <2>2. CASE table[n] = Unused
    BY <1>5, <2>1, <2>2
  <2>3. CASE table[n] # Unused /\ n \notin Numbered(Now)
    <3>1. table'[n] = [table[n] EXCEPT !.cloexec = TRUE]
      BY <1>5, <2>3
    <3> QED BY <2>1, <2>3, <3>1 DEF Entry
  <2>4. CASE table[n] # Unused /\ n \in Numbered(Now) /\ Now \in Bwraps
    <3>1. table'[n] = [table[n] EXCEPT !.cloexec = FALSE]
      BY <1>5, <2>4
    <3> QED BY <2>1, <2>4, <3>1 DEF Entry
  <2>5. CASE table[n] # Unused /\ n \in Numbered(Now) /\ Now \notin Bwraps
    <3>1. table'[n] = table[n]
      BY <1>5, <2>5
    <3> QED BY <2>1, <2>5, <3>1
  <2> QED BY <2>2, <2>3, <2>4, <2>5
<1>7. SpawnTypes'
  <2>1. table' \in [Numbers -> Entry]
    <3>1. DOMAIN table' = Numbers /\ \A n \in Numbers : table'[n] \in Entry
      BY <1>5, <1>6
    <3>2. table' = [n \in Numbers |-> table'[n]]
      BY <1>5
    <3> QED BY <3>1, <3>2
  <2> QED BY <1>0, <1>1, <1>2, <1>3, <2>1 DEF SpawnTypes, Entry
<1>8. AllocsOpen' /\ OpenAlloced' /\ AllocsLater' /\ SocketKept'
  <2>1. AllocsOpen'
    BY <1>1, <1>6 DEF SpawnInv, AllocsOpen
  <2>2. OpenAlloced'
    <3> SUFFICES ASSUME NEW n \in Numbers, NEW s \in Names, NEW x \in AllParts, table'[n].what = What(s, x)
                 PROVE  alloc[s][x] = n
      BY <1>1 DEF OpenAlloced
    <3>1. table[n].what = What(s, x)
      BY <1>6
    <3> QED BY <3>1 DEF SpawnInv, OpenAlloced
  <2> QED BY <1>1, <1>2, <2>1, <2>2 DEF SpawnInv, AllocsLater, SocketKept
<1>9. AllocsNow'
  BY <1>1, <1>2, <1>3, <1>4 DEF AllocsNow
<1>10. HeldOwn' /\ SoleGiven'
  BY <1>1, <1>2, <1>3 DEF SpawnInv, HeldOwn, SoleGiven
<1>11. ASSUME NEW n \in Numbers, table'[n] # Unused
       PROVE  table'[n].cloexec <=> n \notin Numbered(Now)
  <2>1. table[n] # Unused
    BY <1>5, <1>11
  <2>2. CASE n \notin Numbered(Now)
    BY <1>6, <2>1, <2>2
  <2>3. CASE n \in Numbered(Now)
    <3>1. PICK x \in AllParts : alloc[Now][x] = n
      BY <2>3 DEF Numbered
    <3>2. alloc[Now][x] # None
      BY <3>1, SpawnAssumption DEF None
    <3>3. Now \notin Bwraps => ~table[n].cloexec
      <4> SUFFICES ASSUME Now \notin Bwraps PROVE ~table[n].cloexec
        OBVIOUS
      <4>1. x \in Bare
        BY <1>0, <1>4, <3>2, SoleFacts
      <4> QED BY <1>1, <3>1, <3>2, <4>1 DEF SpawnInv, WindowShut
    <3>4. table'[n].cloexec = IF Now \in Bwraps THEN FALSE ELSE table[n].cloexec
      BY <1>6, <2>1, <2>3
    <3> QED BY <2>3, <3>3, <3>4
  <2> QED BY <2>2, <2>3
<1>12. WindowShut'
  <2>1. Numbered(Now)' = Numbered(Now)
    BY <1>1, <1>3 DEF Numbered
  <2> QED BY <1>2, <1>11, <2>1 DEF WindowShut, Open
<1> QED BY <1>7, <1>8, <1>9, <1>10, <1>12 DEF SpawnInv

(* the spawn, whose child has what the window left open;                   *)
LEMMA SpawnKeeps ==
  ASSUME SpawnInv, Spawn
  PROVE  SpawnInv'
<1>0. SpawnTypes /\ Now \in Names /\ table \in [Numbers -> Entry] /\ step.at \in 1..6
  BY NowFacts DEF SpawnInv, SpawnTypes, Entry
<1> DEFINE out == {table[n].what : n \in {m \in Numbers : Open(m) /\ ~table[m].cloexec}}
<1>1. /\ outcome = "starting" /\ step.do = "spawn" /\ held' = [held EXCEPT ![Now] = out]
      /\ UNCHANGED <<table, alloc, parts, outcome>> /\ step' = [step EXCEPT !.do = "after"]
  BY DEF Spawn, Idle, Do
<1>2. step'.at = step.at /\ step'.do = "after" /\ step' \in [at : 1..6, do : {"make", "window", "spawn", "after"}]
  BY <1>0, <1>1 DEF SpawnTypes
<1>3. Now' = Now
  BY <1>2 DEF Now
<1>4. \A x \in AllParts : alloc[Now][x] # None <=> x \in OwnParts(Now)
  BY <1>1 DEF SpawnInv, AllocsNow
<1>5. out = {What(Now, x) : x \in OwnParts(Now)}
  <2>1. ASSUME NEW n \in Numbers, Open(n), ~table[n].cloexec
        PROVE  \E x \in OwnParts(Now) : table[n].what = What(Now, x)
    <3>1. n \in Numbered(Now)
      BY <1>1, <2>1 DEF SpawnInv, WindowShut
    <3>2. PICK x \in AllParts : alloc[Now][x] = n
      BY <3>1 DEF Numbered
    <3>3. alloc[Now][x] # None
      BY <3>2, SpawnAssumption DEF None
    <3>4. table[n].what = What(Now, x)
      BY <1>0, <1>1, <3>2, <3>3 DEF SpawnInv, AllocsOpen
    <3> QED BY <1>4, <3>3, <3>4
  <2>2. ASSUME NEW x \in OwnParts(Now)
        PROVE  \E n \in Numbers : Open(n) /\ ~table[n].cloexec /\ table[n].what = What(Now, x)
    <3>1. x \in AllParts
      BY <1>0, PartsFacts
    <3>2. alloc[Now][x] # None
      BY <1>4, <3>1
    <3>3. alloc[Now][x] \in Numbers /\ table[alloc[Now][x]].what = What(Now, x)
      BY <1>0, <1>1, <3>1, <3>2 DEF SpawnInv, AllocsOpen
    <3>4. Open(alloc[Now][x])
      BY <1>0, <3>1, <3>3, WhatFacts DEF Open
    <3>5. alloc[Now][x] \in Numbered(Now)
      BY <3>1, <3>2 DEF Numbered
    <3>6. ~table[alloc[Now][x]].cloexec
      BY <1>1, <3>3, <3>4, <3>5 DEF SpawnInv, WindowShut
    <3> QED BY <3>3, <3>4, <3>6
  <2> QED BY <2>1, <2>2
<1> HIDE DEF out
<1>6. DOMAIN held' = Names /\ held'[Now] = out /\ \A s \in Names \ {Now} : held'[s] = held[s]
  BY <1>0, <1>1 DEF SpawnTypes
<1>7. SpawnTypes'
  BY <1>0, <1>1, <1>2, <1>3, <1>6 DEF SpawnTypes
<1>8. AllocsOpen' /\ OpenAlloced' /\ AllocsLater' /\ SocketKept'
  BY <1>1, <1>2 DEF SpawnInv, AllocsOpen, OpenAlloced, AllocsLater, SocketKept
<1>9. AllocsNow' /\ WindowShut'
  BY <1>1, <1>2, <1>3, <1>4 DEF AllocsNow, WindowShut
<1>10. HeldOwn'
  <2>1. \A s \in Names : held'[s] \in {{}, {What(s, x) : x \in OwnParts(s)}}
    BY <1>5, <1>6 DEF SpawnInv, HeldOwn
  <2>2. step.at >= 3 => held'["app"] # {}
    <3>1. CASE step.at = 3
      <4>1. Now = "app"
        BY <3>1, SpawnsFacts DEF Now
      <4>2. "socket" \in OwnParts("app")
        BY DEF OwnParts
      <4> QED BY <1>5, <1>6, <4>1, <4>2
    <3>2. CASE step.at > 3
      <4>1. Now # "app" /\ "app" \in Names
        BY <1>0, <3>2, SpawnsFacts DEF Now
      <4> QED BY <1>0, <1>6, <3>2, <4>1 DEF SpawnInv, HeldOwn
    <3> QED BY <1>0, <3>1, <3>2
  <2>3. ASSUME NEW i \in step.at..6, held'[Spawns[i]] # {}
        PROVE  i = step.at
    <3>1. i \in 1..6 /\ Spawns[i] \in Names
      BY <1>0, SpawnsFacts
    <3>2. CASE Spawns[i] = Now
      BY <1>0, <3>1, <3>2, SpawnsFacts DEF Now
    <3>3. CASE Spawns[i] # Now
      BY <1>6, <2>3, <3>1, <3>3 DEF SpawnInv, HeldOwn
    <3> QED BY <3>2, <3>3
  <2> QED BY <1>0, <1>1, <1>2, <2>1, <2>2, <2>3 DEF SpawnInv, HeldOwn
<1>11. SoleGiven'
  BY <1>1, <1>3, <1>6 DEF SpawnInv, SoleGiven
<1> QED BY <1>7, <1>8, <1>9, <1>10, <1>11 DEF SpawnInv

(* the spawn that fails.                                                   *)
LEMMA SpawnFailsKeeps ==
  ASSUME SpawnInv, SpawnFails
  PROVE  SpawnInv'
<1>0. SpawnTypes /\ Now \in Names
  BY NowFacts DEF SpawnInv
<1>1. /\ outcome = "starting" /\ outcome' = "failed" /\ table' = [n \in Numbers |-> Unused]
      /\ UNCHANGED <<step, alloc, parts, held>>
  BY DEF SpawnFails, Idle, Close
<1>2. Now' = Now
  BY <1>1 DEF Now
<1>3. SpawnTypes'
  BY <1>0, <1>1, <1>2, UnusedFacts DEF SpawnTypes, Entry
<1>4. AllocsOpen' /\ AllocsLater' /\ SocketKept' /\ AllocsNow' /\ WindowShut'
  BY <1>1 DEF SpawnInv, AllocsOpen, AllocsLater, SocketKept, AllocsNow, WindowShut
<1>5. OpenAlloced'
  BY <1>1, WhatFacts DEF OpenAlloced
<1>6. HeldOwn' /\ SoleGiven'
  BY <1>1, <1>2 DEF SpawnInv, HeldOwn, SoleGiven
<1> QED BY <1>3, <1>4, <1>5, <1>6 DEF SpawnInv

(* From one spawn to the next: nothing of the one is left that only its    *)
(* child may hold, and the next begins with what it had.                   *)
MovesOn ==
  \/ step.at < 6 /\ step' = [at |-> step.at + 1, do |-> "make"] /\ outcome' = outcome
  \/ step.at = 6 /\ step' = step /\ outcome' = "up"
LEMMA MovesOnKeeps ==
  ASSUME SpawnInv, outcome = "starting", held' = held, parts' = 0, MovesOn,
         step.at = 3 => step.do = "after",
         \A s \in Names, x \in AllParts : alloc'[s][x] = alloc[s][x] \/ (s = Now /\ alloc'[s][x] = None),
         \A x \in AllParts : What(Now, x) \in Sole => alloc'[Now][x] = None
  PROVE  /\ step' \in [at : 1..6, do : {"make", "window", "spawn", "after"}] /\ parts' \in 0..Len(Parts[Now'])
         /\ AllocsLater' /\ SocketKept' /\ AllocsNow' /\ WindowShut' /\ HeldOwn' /\ SoleGiven'
<1>0. /\ SpawnTypes /\ Now \in Names /\ step.at \in 1..6
      /\ step \in [at : 1..6, do : {"make", "window", "spawn", "after"}]
  BY NowFacts DEF SpawnInv, SpawnTypes
<1>1. step'.at \in 1..6 /\ step'.at >= step.at /\ step' \in [at : 1..6, do : {"make", "window", "spawn", "after"}]
  <2>1. CASE step.at < 6 /\ step' = [at |-> step.at + 1, do |-> "make"]
    BY <1>0, <2>1
  <2>2. CASE step' = step
    BY <1>0, <2>2
  <2> QED BY <2>1, <2>2 DEF MovesOn
<1>2. Now' \in Names
  BY <1>1, SpawnsFacts DEF Now
<1>3. parts' \in 0..Len(Parts[Now'])
  BY <1>2, PartsFacts
<1>4. AllocsLater'
  <2> SUFFICES ASSUME NEW s \in Names, NEW x \in AllParts, NEW i \in (step'.at + 1)..6, Spawns[i] = s,
                      <<s, x>> # <<"app", "socket">>
               PROVE  alloc'[s][x] = None
    BY DEF AllocsLater
  <2>1. i \in (step.at + 1)..6
    BY <1>0, <1>1
  <2>2. alloc[s][x] = None
    BY <2>1 DEF SpawnInv, AllocsLater
  <2> QED BY <2>2
<1>5. SocketKept'
  <2> SUFFICES ASSUME step'.at < 3 PROVE alloc'["app"]["socket"] # None
    BY DEF SocketKept
  <2>1. step.at < 3
    BY <1>0, <1>1
  <2>2. "app" \in Names /\ "socket" \in AllParts /\ Now # "app"
    BY <1>0, <2>1, SpawnsFacts DEF AllParts, Now
  <2>3. alloc["app"]["socket"] # None
    BY <2>1 DEF SpawnInv, SocketKept
  <2> QED BY <2>2, <2>3
<1>6. ASSUME outcome' = "starting"
      PROVE  /\ step.at < 6 /\ step'.at = step.at + 1 /\ step'.do = "make" /\ Now' # Now
             /\ \A x \in AllParts : alloc'[Now'][x] # None <=> x \in MadeOf(Now', 0)
  <2>1. step.at < 6 /\ step' = [at |-> step.at + 1, do |-> "make"]
    BY <1>6 DEF MovesOn
  <2>2. step'.at = step.at + 1 /\ step'.do = "make"
    BY <2>1
  <2>3. Now' # Now
    BY <1>0, <1>1, <2>2, SpawnsFacts DEF Now
  <2>4. \A x \in AllParts : alloc'[Now'][x] = alloc[Now'][x]
    BY <1>2, <2>3
  <2>5. MadeOf(Now', 0) = IF Now' = "app" THEN {"socket"} ELSE {}
    BY <1>2, PartsFacts
  <2>6. \A x \in AllParts : <<Now', x>> # <<"app", "socket">> => alloc[Now'][x] = None
    <3>1. step'.at \in (step.at + 1)..6 /\ Spawns[step'.at] = Now'
      BY <1>0, <1>1, <2>2 DEF Now
    <3> QED BY <1>2, <3>1 DEF SpawnInv, AllocsLater
  <2>7. Now' = "app" => alloc["app"]["socket"] # None
    <3> SUFFICES ASSUME Now' = "app" PROVE step.at < 3
      BY DEF SpawnInv, SocketKept
    <3>1. step'.at = 3
      BY <1>1, SpawnsFacts DEF Now
    <3> QED BY <1>0, <2>2, <3>1
  <2>8. \A x \in AllParts : alloc'[Now'][x] # None <=> x \in MadeOf(Now', 0)
    BY <2>4, <2>5, <2>6, <2>7
  <2> QED BY <2>1, <2>2, <2>3, <2>8
<1>7. AllocsNow'
  <2> SUFFICES ASSUME outcome' = "starting", NEW x \in AllParts
               PROVE  alloc'[Now'][x] # None <=> x \in (IF step'.do = "make" THEN MadeOf(Now', parts') ELSE OwnParts(Now'))
    BY DEF AllocsNow, MadeOf
  <2> QED BY <1>6
<1>8. WindowShut'
  <2> SUFFICES ASSUME outcome' = "starting", NEW x \in Bare, alloc'[Now'][x] # None
               PROVE  FALSE
    BY <1>6 DEF WindowShut
  <2>1. x \in AllParts /\ x # "socket"
    BY DEF Bare, AllParts
  <2>2. x \in MadeOf(Now', 0)
    BY <1>6, <2>1
  <2> QED BY <1>2, <2>1, <2>2, PartsFacts
<1>9. HeldOwn'
  <2>1. \A s \in Names : held'[s] \in {{}, {What(s, x) : x \in OwnParts(s)}}
    BY DEF SpawnInv, HeldOwn
  <2>2. step'.at > 3 \/ (step'.at = 3 /\ step'.do = "after") => held'["app"] # {}
    <3>1. step'.at > 3 \/ (step'.at = 3 /\ step'.do = "after") => step.at >= 3
      <4>1. CASE step.at < 6 /\ step' = [at |-> step.at + 1, do |-> "make"]
        <5>1. step'.at = step.at + 1 /\ step'.do = "make"
          BY <4>1
        <5> QED BY <1>0, <5>1
      <4>2. CASE step.at = 6
        BY <4>2
      <4> QED BY <4>1, <4>2 DEF MovesOn
    <3> QED BY <1>0, <3>1 DEF SpawnInv, HeldOwn
  <2>3. outcome' = "up" => step'.at = 6
    BY DEF MovesOn
  <2>4. ASSUME NEW i \in step'.at..6, held'[Spawns[i]] # {}
        PROVE  i = step'.at /\ outcome' # "starting"
    <3>1. i \in step.at..6
      BY <1>0, <1>1
    <3>2. i = step.at
      BY <2>4, <3>1 DEF SpawnInv, HeldOwn
    <3>3. step'.at = step.at
      BY <1>0, <1>1, <3>2
    <3>4. outcome' # "starting"
      BY <1>0, <1>6, <3>3
    <3> QED BY <3>2, <3>3, <3>4
  <2> QED BY <2>1, <2>2, <2>3, <2>4 DEF HeldOwn
<1>10. SoleGiven'
  <2> SUFFICES ASSUME NEW s \in Names, NEW x \in AllParts, What(s, x) \in Sole, alloc'[s][x] # None
               PROVE  held[s] = {}
    BY DEF SoleGiven
  <2>1. s # Now
    OBVIOUS
  <2>2. alloc[s][x] # None
    BY <2>1
  <2> QED BY <2>1, <2>2 DEF SpawnInv, SoleGiven
<1> QED BY <1>1, <1>3, <1>4, <1>5, <1>7, <1>8, <1>9, <1>10

(* Once the child runs, bubbler's copies go with their numbers.            *)
LEMMA AfterKeeps ==
  ASSUME SpawnInv, After
  PROVE  SpawnInv'
<1> DEFINE gone == CloseAfter(Now)
           shut == {alloc[Now][p] : p \in gone}
           rest == {alloc[Now][p] : p \in AllParts \ gone} \ {None}
           stays == Close(table, shut)
<1>0. SpawnTypes /\ Now \in Names /\ step.at \in 1..6 /\ table \in [Numbers -> Entry]
      /\ alloc \in [Names -> [AllParts -> Nat]]
  BY NowFacts DEF SpawnInv, SpawnTypes, Entry
<1>1. outcome = "starting" /\ step.do = "after" /\ held' = held /\ parts' = 0
  BY DEF After, Idle
<1>2. MovesOn
  BY <1>0, SpawnsFacts DEF After, MovesOn
<1>3. gone \subseteq AllParts
  BY DEF CloseAfter, AllParts
<1>4. table' = [n \in Numbers |-> IF stays[n] # Unused /\ n \in rest THEN [stays[n] EXCEPT !.cloexec = TRUE] ELSE stays[n]]
  BY DEF After
<1>5. alloc' = [alloc EXCEPT ![Now] = [p \in AllParts |-> IF p \in gone THEN None ELSE alloc[Now][p]]]
  BY DEF After
<1>6. stays = [n \in Numbers |-> IF n \in shut THEN Unused ELSE table[n]]
  BY DEF Close
<1> HIDE DEF stays
<1>7. ASSUME NEW n \in Numbers
      PROVE  /\ table'[n] \in Entry
             /\ n \in shut => table'[n] = Unused
             /\ n \notin shut => table'[n].what = table[n].what
  <2>1. table[n] \in Entry /\ Unused \in Entry
    BY <1>0, UnusedFacts
  <2>2. stays[n] \in Entry /\ (n \in shut => stays[n] = Unused) /\ (n \notin shut => stays[n] = table[n])
    BY <1>6, <2>1
  <2> HIDE DEF shut, rest
  <2>3. CASE stays[n] # Unused /\ n \in rest
    <3>1. table'[n] = [stays[n] EXCEPT !.cloexec = TRUE]
      BY <1>4, <2>3
    <3>2. table'[n] \in Entry /\ table'[n].what = stays[n].what
      BY <2>2, <3>1 DEF Entry
    <3> QED BY <2>2, <2>3, <3>2
  <2>4. CASE ~(stays[n] # Unused /\ n \in rest)
    BY <1>4, <2>2, <2>4
  <2> QED BY <2>3, <2>4
<1>8. /\ alloc' \in [Names -> [AllParts -> Nat]]
      /\ \A x \in AllParts : alloc'[Now][x] = IF x \in gone THEN None ELSE alloc[Now][x]
      /\ \A s \in Names \ {Now} : alloc'[s] = alloc[s]
  <2> DEFINE k == Now
             f == [p \in AllParts |-> IF p \in gone THEN None ELSE alloc[k][p]]
  <2>1. f \in [AllParts -> Nat] /\ k \in Names
    BY <1>0 DEF None
  <2>2. alloc' = [alloc EXCEPT ![k] = f]
    BY <1>5
  <2>3. \A x \in AllParts : f[x] = IF x \in gone THEN None ELSE alloc[k][x]
    OBVIOUS
  <2> HIDE DEF k, f
  <2>4. alloc' \in [Names -> [AllParts -> Nat]] /\ alloc'[k] = f /\ \A s \in Names \ {k} : alloc'[s] = alloc[s]
    BY <1>0, <2>1, <2>2
  <2> QED BY <2>3, <2>4 DEF k
<1> HIDE DEF gone
<1>9. ASSUME NEW s \in Names, NEW x \in AllParts, alloc[s][x] # None
      PROVE  /\ alloc[s][x] \in Numbers /\ table[alloc[s][x]].what = What(s, x)
             /\ alloc[s][x] \in shut <=> s = Now /\ x \in gone
  <2>1. \A q \in Names, y \in AllParts :
          alloc[q][y] # None => alloc[q][y] \in Numbers /\ table[alloc[q][y]].what = What(q, y)
    BY <1>1 DEF SpawnInv, AllocsOpen
  <2>2. ASSUME alloc[s][x] \in shut PROVE s = Now /\ x \in gone
    <3>1. PICK p \in gone : alloc[Now][p] = alloc[s][x]
      BY <2>2
    <3>2. What(Now, p) = What(s, x) /\ p \in AllParts
      BY <1>0, <1>3, <1>9, <2>1, <3>1
    <3> QED BY <1>0, <3>1, <3>2, WhatFacts
  <2> QED BY <1>9, <2>1, <2>2
<1>10. AllocsOpen'
  <2>1. ASSUME NEW s \in Names, NEW x \in AllParts, alloc'[s][x] # None
        PROVE  alloc'[s][x] \in Numbers /\ table'[alloc'[s][x]].what = What(s, x)
    <3>1. alloc'[s][x] = alloc[s][x] /\ ~(s = Now /\ x \in gone)
      BY <1>8, <2>1
    <3>2. alloc[s][x] \in Numbers /\ table[alloc[s][x]].what = What(s, x) /\ alloc[s][x] \notin shut
      BY <1>9, <2>1, <3>1
    <3> HIDE DEF shut
    <3> QED BY <1>7, <3>1, <3>2
  <2>2. outcome' # "failed"
    BY <1>1, <1>2 DEF MovesOn
  <2> QED BY <2>1, <2>2 DEF AllocsOpen
<1>11. OpenAlloced'
  <2> SUFFICES ASSUME NEW n \in Numbers, NEW s \in Names, NEW x \in AllParts, table'[n].what = What(s, x)
               PROVE  alloc'[s][x] = n
    BY DEF OpenAlloced
  <2>1. table'[n] # Unused
    BY WhatFacts
  <2>2. n \notin shut
    BY <1>7, <2>1
  <2>3. table[n].what = What(s, x)
    BY <1>7, <2>2
  <2>4. alloc[s][x] = n
    BY <2>3 DEF SpawnInv, OpenAlloced
  <2>5. ~(s = Now /\ x \in gone)
    BY <2>2, <2>4
  <2> QED BY <1>8, <2>4, <2>5
<1>12. \A s \in Names, x \in AllParts : alloc'[s][x] = alloc[s][x] \/ (s = Now /\ alloc'[s][x] = None)
  BY <1>8
<1>13. \A x \in AllParts : What(Now, x) \in Sole => alloc'[Now][x] = None
  BY <1>0, <1>8, SoleFacts DEF gone
<1>14. /\ step' \in [at : 1..6, do : {"make", "window", "spawn", "after"}] /\ parts' \in 0..Len(Parts[Now'])
       /\ AllocsLater' /\ SocketKept' /\ AllocsNow' /\ WindowShut' /\ HeldOwn' /\ SoleGiven'
  BY <1>1, <1>2, <1>12, <1>13, MovesOnKeeps
<1>15. SpawnTypes'
  <2>1. table' \in [Numbers -> Entry]
    <3>1. table' = [n \in Numbers |-> table'[n]]
      BY <1>4
    <3> QED BY <1>7, <3>1
  <2>2. outcome' \in {"starting", "failed", "up"} /\ DOMAIN held' = Names
    BY <1>0, <1>1, <1>2 DEF MovesOn, SpawnTypes
  <2> QED BY <1>8, <1>14, <2>1, <2>2 DEF SpawnTypes, Entry
<1> QED BY <1>10, <1>11, <1>14, <1>15 DEF SpawnInv

(* A spawn the run has no use for has been given nothing.                  *)
LEMMA SkipKeeps ==
  ASSUME SpawnInv, Skip
  PROVE  SpawnInv'
<1>0. SpawnTypes /\ Now \in Names /\ step.at \in 1..6
  BY NowFacts DEF SpawnInv
<1>1. /\ outcome = "starting" /\ step.do = "make" /\ parts = 0 /\ Now # "app"
      /\ UNCHANGED <<table, alloc, parts, held>>
  BY DEF Skip, Idle
<1>2. MovesOn
  BY <1>0, SpawnsFacts DEF Skip, MovesOn
<1>3. step.at # 3
  BY <1>0, <1>1, SpawnsFacts DEF Now
<1>4. \A x \in AllParts : alloc[Now][x] = None
  <2>1. MadeOf(Now, 0) = {}
    BY <1>0, <1>1, PartsFacts
  <2> QED BY <1>1, <2>1 DEF SpawnInv, AllocsNow
<1>5. /\ step' \in [at : 1..6, do : {"make", "window", "spawn", "after"}] /\ parts' \in 0..Len(Parts[Now'])
      /\ AllocsLater' /\ SocketKept' /\ AllocsNow' /\ WindowShut' /\ HeldOwn' /\ SoleGiven'
  BY <1>1, <1>2, <1>3, <1>4, MovesOnKeeps
<1>6. outcome' # "failed" /\ outcome' \in {"starting", "failed", "up"}
  BY <1>1, <1>2 DEF MovesOn
<1>7. AllocsOpen' /\ OpenAlloced'
  BY <1>1, <1>6 DEF SpawnInv, AllocsOpen, OpenAlloced
<1>8. SpawnTypes'
  BY <1>0, <1>1, <1>5, <1>6 DEF SpawnTypes
<1> QED BY <1>5, <1>7, <1>8 DEF SpawnInv

(* At the start there is what the caller left, and the control socket.     *)
LEMMA SpawnInitFacts ==
  ASSUME SpawnInit
  PROVE  SpawnInv
<1>1. PICK k \in 0..MaxStrays :
        /\ table = [n \in Numbers |->
                     IF n <= k THEN [what |-> What("caller", "stray"), cloexec |-> FALSE]
                     ELSE IF n = k + 1 THEN [what |-> What("app", "socket"), cloexec |-> TRUE] ELSE Unused]
        /\ alloc = [s \in Names |-> [p \in AllParts |-> IF s = "app" /\ p = "socket" THEN k + 1 ELSE None]]
  BY DEF SpawnInit
<1>2. step = [at |-> 1, do |-> "make"] /\ parts = 0 /\ held = [s \in Names |-> {}] /\ outcome = "starting"
  BY DEF SpawnInit
<1>3. k \in Nat /\ k + 1 \in Numbers /\ k + 1 # 0
  BY SpawnAssumption
<1>4. step.at = 1 /\ step.do = "make" /\ Now \in Names /\ Now # "app"
  BY <1>2, SpawnsFacts DEF Now
<1>5. "app" \in Names /\ "socket" \in AllParts
  BY SpawnsFacts DEF AllParts
<1>6. /\ What("app", "socket") \in Whats /\ What("app", "socket").spawn = "app"
      /\ What("caller", "stray") \in Whats /\ What("caller", "stray").spawn = "caller"
  BY <1>5 DEF What, Whats
<1>7. ASSUME NEW n \in Numbers
      PROVE  /\ table[n] \in Entry
             /\ n = k + 1 => table[n].what = What("app", "socket")
             /\ n # k + 1 => table[n].what.spawn \notin Names
  <2>0. "caller" \notin Names /\ n \in Nat
    BY SpawnsFacts, SpawnAssumption
  <2>1. CASE n <= k
    <3>1. table[n] = [what |-> What("caller", "stray"), cloexec |-> FALSE]
      BY <1>1, <2>1
    <3>2. table[n] \in Entry /\ table[n].what = What("caller", "stray")
      BY <1>6, <3>1 DEF Entry
    <3> QED BY <1>3, <1>6, <2>0, <2>1, <3>2
  <2>2. CASE n = k + 1
    <3>1. table[n] = [what |-> What("app", "socket"), cloexec |-> TRUE]
      BY <1>1, <1>3, <2>2
    <3> QED BY <1>6, <2>2, <3>1 DEF Entry
  <2>3. CASE ~(n <= k) /\ n # k + 1
    <3>1. table[n] = Unused
      BY <1>1, <2>3
    <3> QED BY <2>3, <3>1, UnusedFacts
  <2> QED BY <2>1, <2>2, <2>3
<1>8. \A s \in Names, x \in AllParts : alloc[s][x] = IF s = "app" /\ x = "socket" THEN k + 1 ELSE None
  BY <1>1
<1>9. SpawnTypes
  <2>1. table \in [Numbers -> Entry]
    <3>1. table = [n \in Numbers |-> table[n]]
      BY <1>1
    <3> QED BY <1>7, <3>1
  <2>2. alloc \in [Names -> [AllParts -> Nat]]
    BY <1>1, <1>3 DEF None
  <2>3. parts \in 0..Len(Parts[Now])
    BY <1>2, <1>4, PartsFacts
  <2> QED BY <1>2, <2>1, <2>2, <2>3 DEF SpawnTypes, Entry
<1>10. AllocsOpen
  BY <1>2, <1>3, <1>7, <1>8 DEF AllocsOpen
<1>11. OpenAlloced
  <2> SUFFICES ASSUME NEW n \in Numbers, NEW s \in Names, NEW x \in AllParts, table[n].what = What(s, x)
               PROVE  alloc[s][x] = n
    BY DEF OpenAlloced
  <2>1. n = k + 1
    BY <1>7, WhatFacts
  <2>2. What(s, x) = What("app", "socket")
    BY <1>7, <2>1
  <2>3. s = "app" /\ x = "socket"
    BY <1>5, <2>2, WhatFacts
  <2> QED BY <1>8, <2>1, <2>3
<1>12. AllocsLater /\ SocketKept
  BY <1>3, <1>5, <1>8 DEF AllocsLater, SocketKept, None
<1>13. AllocsNow /\ WindowShut
  <2>1. \A x \in AllParts : alloc[Now][x] = None
    BY <1>4, <1>8
  <2>2. MadeOf(Now, parts) = {}
    BY <1>2, <1>4, PartsFacts
  <2>3. Bare \subseteq AllParts
    BY DEF Bare, AllParts
  <2> QED BY <1>4, <2>1, <2>2, <2>3 DEF AllocsNow, WindowShut
<1>14. \A i \in 1..6 : held[Spawns[i]] = {}
  BY <1>2, SpawnsFacts
<1>15. HeldOwn /\ SoleGiven
  <2>1. \A s \in Names : held[s] = {}
    BY <1>2
  <2>2. SoleGiven
    BY <2>1 DEF SoleGiven
  <2>3. \A i \in step.at..6 : held[Spawns[i]] = {}
    BY <1>4, <1>14
  <2>4. outcome # "up" /\ ~(step.at > 3) /\ step.at # 3
    BY <1>2, <1>4
  <2>5. HeldOwn
    BY <2>1, <2>3, <2>4 DEF HeldOwn
  <2> QED BY <2>2, <2>5
<1> QED BY <1>9, <1>10, <1>11, <1>12, <1>13, <1>15 DEF SpawnInv

(* A step of nothing keeps it too.                                         *)
LEMMA SpawnStays ==
  ASSUME SpawnInv, UNCHANGED fvars
  PROVE  SpawnInv'
<1>1. /\ table' = table /\ step' = step /\ alloc' = alloc /\ parts' = parts /\ held' = held
      /\ outcome' = outcome /\ Now' = Now
  BY DEF fvars, Now
<1>2. SpawnTypes' /\ AllocsOpen' /\ OpenAlloced' /\ AllocsLater' /\ SocketKept'
  BY <1>1 DEF SpawnInv, SpawnTypes, AllocsOpen, OpenAlloced, AllocsLater, SocketKept
<1>3. AllocsNow' /\ HeldOwn' /\ SoleGiven'
  BY <1>1 DEF SpawnInv, AllocsNow, HeldOwn, SoleGiven, MadeOf
<1>4. WindowShut'
  BY <1>1 DEF SpawnInv, WindowShut, Numbered, Open
<1> QED BY <1>2, <1>3, <1>4 DEF SpawnInv

(* What the invariant says of the children.                                *)
LEMMA SpawnInvGives ==
  ASSUME SpawnInv
  PROVE  EachItsOwn
<1>0. SpawnTypes /\ Now \in Names /\ table \in [Numbers -> Entry]
  BY NowFacts DEF SpawnInv, SpawnTypes, Entry
<1>1. \A s \in Names : held[s] # {} => held[s] = {What(s, p) : p \in OwnParts(s)}
  BY DEF SpawnInv, HeldOwn
<1>2. \A s \in Names : \A w \in held[s] : w.spawn = s
  <2> SUFFICES ASSUME NEW s \in Names, NEW w \in held[s] PROVE w.spawn = s
    OBVIOUS
  <2>1. PICK p \in OwnParts(s) : w = What(s, p)
    BY <1>1
  <2> QED BY <2>1 DEF What
<1>3. outcome = "up" => held["app"] # {}
  BY DEF SpawnInv, HeldOwn
<1>4. ASSUME NEW n \in Numbers, Open(n), table[n].what \in Sole,
             held[table[n].what.spawn] # {}, Idle \/ Now # table[n].what.spawn
      PROVE  FALSE
  <2>1. \E s \in Names, p \in AllParts : table[n].what = What(s, p)
    <3>1. /\ "wl" \in Names /\ "app" \in Names /\ "netproxy" \in Names
          /\ "listener" \in AllParts /\ "socket" \in AllParts /\ "info" \in AllParts /\ "ready" \in AllParts
      BY SpawnsFacts DEF AllParts
    <3>2. \/ table[n].what = What("wl", "listener") \/ table[n].what = What("app", "socket")
          \/ table[n].what = What("app", "info") \/ table[n].what = What("netproxy", "ready")
      BY <1>4 DEF Sole
    <3> QED BY <3>1, <3>2
  <2>2. PICK s \in Names, p \in AllParts : table[n].what = What(s, p)
    BY <2>1
  <2>3. table[n].what.spawn = s
    BY <2>2, WhatFacts
  <2>4. alloc[s][p] = n /\ alloc[s][p] # None
    BY <2>2, SpawnAssumption DEF SpawnInv, OpenAlloced, None
  <2>5. Now = s /\ outcome # "up"
    BY <1>4, <2>2, <2>3, <2>4 DEF SpawnInv, SoleGiven
  <2>6. outcome = "failed"
    BY <1>0, <1>4, <2>3, <2>5 DEF Idle, SpawnTypes
  <2> QED BY <1>4, <2>6 DEF SpawnInv, AllocsOpen, Open
<1> QED BY <1>1, <1>2, <1>3, <1>4 DEF EachItsOwn

(* Each child of a start inherits what was made for it and nothing else,   *)
(* whatever the caller left open and wherever the start gives up, and once *)
(* it runs bubbler keeps no copy of what would make a dead child look live *)
(* (launcher.rs, RealAlloc and the sweep of spawning()).                   *)
THEOREM EachItsOwnHolds == SpawnSpec => []EachItsOwn
<1>1. SpawnInit => SpawnInv
  BY SpawnInitFacts
<1>2. SpawnInv /\ [SpawnNext]_fvars => SpawnInv'
  BY MakePartKeeps, OptionsKeeps, WindowKeeps, SpawnKeeps, SpawnFailsKeeps, AfterKeeps,
     SkipKeeps, SpawnStays DEF SpawnNext
<1>3. SpawnInv => EachItsOwn
  BY SpawnInvGives
<1> QED BY <1>1, <1>2, <1>3, PTL DEF SpawnSpec
=============================================================================
