----------------------------- MODULE MCLauncher -----------------------------
(***************************************************************************)
(* A start for TLC.  A behaviour is one run of the launcher, of an         *)
(* instance with one kind of sidecar or with all of them (part "run"); or  *)
(* one of what a start sets up around the sandbox: the rules of the        *)
(* network, the syscall filter, the quoting of a program (one state per    *)
(* input), the cgroups, the sidecar directories, the descriptors and the   *)
(* launcher entries (behaviours).  No part reads a variable of another;    *)
(* the others stay where they start.                                       *)
(***************************************************************************)
EXTENDS Launcher, Cgroups, SpawnFds, Integers, SequencesExt, TLC

CONSTANTS TreeNodes, LEFTOVER_BUDGET, READ_BATCH, MaxStarts, Shells, MaxJobs, MaxEdits, QuoteLen

VARIABLES part, input,
          par, dir, name, now, todo, top, batch, inner, subs, lifted, budget, starts, before,
          user, system, known, stage, job, jobs, edits
bvars == <<par, dir, name, now, todo, top, batch, inner, subs, lifted, budget, starts, before>>
dvars == <<user, system, known, stage, job, jobs, edits>>

(* --------------------------------- inputs ------------------------------- *)

Bits == 4 :> 2 @@ 6 :> 4
E == INSTANCE Egress WITH MappedHi <- 1, Names <- {"user", "run", "sandbox", "proxy"}
V4(n) == E!Addr(4, n)
V6(n) == E!Addr(6, n)
Spelled == [addr : {V4(0), V4(1), V4(2), V6(0), V6(4), V6(8), V6(9)}, len : {<<>>, <<0>>, <<1>>, <<2>>, <<3>>}]
Outs == [dest : UNION {Range(E!Cidr(s)) : s \in Spelled},
         port : {<<>>, <<[t |-> "int", v |-> 53]>>, <<[t |-> "int", v |-> 80]>>},
         proto : {<<>>, <<[t |-> "str", v |-> "udp"]>>}]
Networks ==
  {c \in [mode : {"isolated"}, dns : {<<>>, <<V4(2), V6(9)>>}, allow_out : {<<>>} \cup {<<o>> : o \in Outs},
          forwards : {<<>>, <<[port |-> 80, udp |-> FALSE], [port |-> 3128, udp |-> TRUE]>>},
          allow_hosts : {<<>>, <<[host |-> "h", port |-> 443]>>}, no_ipv6 : BOOLEAN,
          outbound : {"allow", "deny"}] : E!G!NetworkHolds(c, TRUE)}
Owns == {<<"user">>, <<"a|b">>, <<>>}
Packets(own) ==
  {[cgroup |-> c, lo |-> f = "lo", ct |-> f = "ct", addr |-> a, l4 |-> l, port |-> p] :
     c \in {E!SANDBOX_LEAF(own, "run"), E!PROXY_LEAF(own, "run"), E!base(own, "run")},
     f \in {"lo", "ct", ""}, a \in {V4(0), V4(1), V4(2), V6(0), V6(8), V6(9)}, l \in {"tcp", "udp", "nd"},
     p \in {53, 80}}

S == INSTANCE Seccomp WITH
       Number <- [keyctl |-> 250, clone3 |-> 435, ioctl |-> 16, personality |-> 135, read |-> 0]
Syscalls == {"keyctl", "clone3", "listns", "ioctl", "personality", "read", "unknown"}
Everything == <<"keyctl", "clone3", "listns", "ioctl", "open_tree_attr", "fchroot">>
Denies == [name : Syscalls, errno : {"EPERM", "ENOSYS"}]
Filters == [allow : {<<>>, Everything} \cup {<<a>> : a \in Syscalls} \cup {<<a, "ioctl">> : a \in Syscalls},
            deny : {<<>>} \cup {<<d>> : d \in Denies} \cup {<<d, [d EXCEPT !.errno = "EPERM"]>> : d \in Denies},
            disable : BOOLEAN]
Calls == [name : Syscalls \ {"unknown"}, abi : {S!X86_64, S!I386, S!X32},
          arg : {0, 1, 8, -1, S!TIOCSTI}]

(* ------------------------------ behaviours ------------------------------ *)

\* Two runs at a time: two instances at once, or a pid used again by the same one.
RunInstance == <<<<"a">>, <<"a", "b">>, <<"a">>>>
RunPid == <<"1", "2", "1">>
RunSets == {{1, 2}, {1, 3}}
B == INSTANCE SidecarDirs WITH at <- now, Nodes <- TreeNodes

K(k, v) == [k |-> k, loc |-> "", v |-> v]
H(g) == [k |-> "[", loc |-> "", v |-> <<g>>]
Blank == [k |-> "", loc |-> "", v |-> <<>>]
App == <<H("Desktop Entry"), K("Name", <<"App">>), [k |-> "Name", loc |-> "de", v |-> <<"App">>],
         K("Exec", <<"app", "%U">>), K("DBusActivatable", <<"true">>), Blank,
         H("Desktop Action new"), K("Exec", <<"app", "--new">>)>>
Handler == <<H("Desktop Entry"), K("Exec", <<"app", "--url">>), K("TryExec", <<"app">>),
             K("NoDisplay", <<"true">>)>>
HiddenEntry == <<H("Desktop Entry"), K("Exec", <<"app">>), K("Hidden", <<"true">>)>>
EntryFiles == <<"app", "bubbler-a", "bubbler-b", "org.app">>
D == INSTANCE Desktop WITH at <- stage,
       Files <- EntryFiles, Texts <- {App, Handler, HiddenEntry}, Exe <- "/usr/bin/bubbler",
       Installed <- <<[f \in Range(EntryFiles) |->
                        IF f = "app" THEN App ELSE IF f = "org.app" THEN Handler ELSE <<>>]>>,
       Instances <- [a |-> [command |-> "app", exact |-> "app", own |-> "bubbler-a", hint |-> <<>>],
                     b |-> [command |-> "app", exact |-> "app", own |-> "bubbler-b", hint |-> <<"org.app">>]],
       SearchPath <- <<[found |-> FALSE, real |-> ""], [found |-> TRUE, real |-> "/usr/bin/bubbler"]>>
Programs == UNION {[1..n -> {"x", " ", "'", "\\", "%", "$"}] : n \in 1..QuoteLen}

(* --------------------------------- the sum ------------------------------ *)

Quiet ==
  /\ CgroupInit /\ B!SidecarInit /\ SpawnInit /\ D!DesktopInit
  /\ part # "fds" => table[1].cloexec        \* without a stray will do
StartInit ==
  /\ \/ part = "network" /\ input \in [cfg : Networks, own : Owns]
     \/ part = "syscalls" /\ input \in [cfg : Filters, log : BOOLEAN]
     \/ part = "quoting" /\ input \in Programs
     \/ part = "cgroups" /\ input \in RunSets
     \/ part \in {"dirs", "fds", "entries"} /\ input = <<>>
  /\ Quiet
StartNext ==
  /\ UNCHANGED <<part, input>>
  /\ \/ part = "cgroups" /\ (\E r \in input : CgroupStep(r)) /\ UNCHANGED <<bvars, fvars, dvars>>
     \/ part = "dirs" /\ B!SidecarNext /\ UNCHANGED <<cvars, fvars, dvars>>
     \/ part = "fds" /\ SpawnNext /\ UNCHANGED <<cvars, bvars, dvars>>
     \/ part = "entries" /\ D!DesktopNext /\ UNCHANGED <<cvars, bvars, fvars>>

(* A packet leaves exactly when the `network` node says so (EgressHeld), and  *)
(* the application finds the proxy there (OpeningHeld; network.rs:700).       *)
EgressAsWritten ==
  part = "network" => /\ E!EgressHeld(input.cfg, input.own, "run", Packets(input.own))
                      /\ E!OpeningHeld(input.cfg, input.own, "run")
(* Every call is answered as the `seccomp` node asks (seccomp.rs:290).        *)
SyscallsAsked == part = "syscalls" => S!SyscallsAsAsked(input.cfg, input.log, Calls)
(* What the two filters of a sandbox let through is what its config says.     *)
FiltersAsWritten == EgressAsWritten /\ SyscallsAsked
(* A removal that runs out still shrinks what is there (launcher.rs:3030).    *)
LeftoversShrink == part = "dirs" => B!LeftoversShrink
(* An entry of bubbler's starts bubbler and nothing else, and the program it  *)
(* names is the one a launcher reads there (desktop.rs:313, desktop.rs:164).  *)
Contained == /\ part = "entries" => D!Contained
             /\ part = "quoting" => D!QuotedReadsBack(input)

-----------------------------------------------------------------------------
(* The whole.                                                              *)

Desktop  == {"dbus", "portals", "wayland", "tty"}
Audio    == {"dbus", "pw", "pulse"}
Filtered == {"pasta", "deny", "netproxy", "tty"}
Routed   == {"portals", "dbus", "pasta"}

FewConfigs == {{}, Desktop, Audio, Filtered, Routed, Grants}

startvars == <<part, input, cvars, bvars, fvars, dvars>>
MCInit ==
  /\ Init
  /\ \/ part = "run" /\ input = <<>> /\ Quiet
     \/ grants = {} /\ StartInit
MCNext ==
  \/ part = "run" /\ Next /\ UNCHANGED startvars
  \/ StartNext /\ UNCHANGED vars
\* The launcher's fairness: what is set up around the sandbox has no liveness
\* property, and is checked for safety alone.
MCSpec == MCInit /\ [][MCNext]_<<vars, startvars>> /\ Fairness
=============================================================================
