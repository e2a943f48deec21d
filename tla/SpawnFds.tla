------------------------------ MODULE SpawnFds ------------------------------
(***************************************************************************)
(* The descriptors of a start (launcher.rs, bubbler-init/fds.rs): bubbler  *)
(* spawns the sidecars, the sandbox, pasta, nft and the egress proxy one   *)
(* after another from one descriptor table, into which whoever started it  *)
(* has put descriptors of its own.                                         *)
(*                                                                         *)
(* The table maps a number to what is open there and whether an exec       *)
(* closes it; the kernel gives the least free number.  What is open is     *)
(* named by the spawn it was made for and its part there.                  *)
(***************************************************************************)
EXTENDS Naturals, Sequences, FiniteSets

CONSTANTS Numbers,     \* descriptor numbers above stdio (bound)
          MaxStrays    \* descriptors the caller left open (bound)
ASSUME SpawnAssumption ==
  MaxStrays \in Nat /\ Numbers \subseteq Nat \ {0} /\ 1..(MaxStrays + 1) \subseteq Numbers

SidecarSpawns == {"bus", "wl"}                    \* spawned before the sandbox, in this order
Bwraps == SidecarSpawns \cup {"app"}              \* what a RealAlloc is made for
Spawns == <<"bus", "wl", "app", "pasta", "nft", "netproxy">>
None == 0

\* The parts of each spawn's argv that are descriptors, in the order they are
\* made; the control socket was dup'ed for the sandbox before all of them.
Parts == [bus |-> <<"seccomp", "ready">>, wl |-> <<"listener", "seccomp", "ready">>,
          app |-> <<"seccomp", "info", "block">>, pasta |-> <<>>, nft |-> <<>>,
          netproxy |-> <<"ready">>]
\* Parts whose other end, made with them, stays bubbler's and close-on-exec.
Piped == {"ready", "info", "block"}
\* Parts that are not close-on-exec from the moment they are made.
Bare == {"ready", "info", "block"}

VARIABLES table, step, alloc, parts, held, outcome
fvars == <<table, step, alloc, parts, held, outcome>>
\* table:  number -> [what, cloexec], or Unused
\* step:   what bubbler is about to do for the spawn at Spawns[step.at]
\* alloc:  spawn -> part -> the number the allocator has for it, None if it has none
\* parts:  parts of the spawn made so far
\* held:   child -> what its table holds
\* outcome: "starting", "failed" or "up"

What(s, p) == [spawn |-> s, part |-> p]
Unused == [what |-> What("nobody", ""), cloexec |-> TRUE]
Open(n) == table[n] # Unused
FreeIn(t) == {n \in Numbers : t[n] = Unused}
Least(t) == CHOOSE n \in FreeIn(t) : \A m \in FreeIn(t) : n <= m
Put(t, w, c) == [t EXCEPT ![Least(t)] = [what |-> w, cloexec |-> c]]
AllParts == {"socket", "listener", "seccomp", "info", "block", "ready", "options"}
Names == {Spawns[i] : i \in DOMAIN Spawns}

SpawnInit ==
  /\ \E k \in 0..MaxStrays :
       /\ table = [n \in Numbers |->
                    IF n <= k THEN [what |-> What("caller", "stray"), cloexec |-> FALSE]
                    ELSE IF n = k + 1 THEN [what |-> What("app", "socket"), cloexec |-> TRUE] ELSE Unused]
       /\ alloc = [s \in Names |-> [p \in AllParts |->
                    IF s = "app" /\ p = "socket" THEN k + 1 ELSE None]]
  /\ step = [at |-> 1, do |-> "make"] /\ parts = 0
  /\ held = [s \in Names |-> {}] /\ outcome = "starting"

Now == Spawns[step.at]
Do(d) == step' = [step EXCEPT !.do = d]
Idle == outcome # "starting"
Numbered(s) == {alloc[s][p] : p \in AllParts} \ {None}
Close(t, ns) == [n \in Numbers |-> IF n \in ns THEN Unused ELSE t[n]]

(* RealAlloc: data(), listener(), ready_pipe(), info_pipe(), block_pipe(), *)
(* each part of the argv in turn; keep() notes its number.                 *)
MakePart ==
  /\ ~Idle /\ step.do = "make" /\ parts < Len(Parts[Now]) /\ FreeIn(table) # {}
  /\ LET p == Parts[Now][parts + 1]
         t == Put(table, What(Now, p), p \notin Bare)
     IN /\ p \in Piped => FreeIn(t) # {}
        /\ alloc' = [alloc EXCEPT ![Now][p] = Least(table)]
        /\ table' = IF p \in Piped THEN Put(t, What("bubbler", p), TRUE) ELSE t
  /\ parts' = parts + 1 /\ UNCHANGED <<step, held, outcome>>

(* options(): bwrap's, in a sealed memfd, before the window opens.         *)
Options ==
  /\ ~Idle /\ step.do = "make" /\ parts = Len(Parts[Now]) /\ Do("window")
  /\ IF Now \in Bwraps
     THEN /\ FreeIn(table) # {}
          /\ alloc' = [alloc EXCEPT ![Now]["options"] = Least(table)]
          /\ table' = Put(table, What(Now, "options"), TRUE)
     ELSE UNCHANGED <<alloc, table>>
  /\ UNCHANGED <<parts, held, outcome>>

\* intended(): what the spawn is to inherit.
intended == Numbered(Now)
(* inheritable(true) and spawning(): the window is opened for this spawn's *)
(* descriptors, and closed for every other there is.                       *)
Window ==
  /\ ~Idle /\ step.do = "window" /\ Do("spawn")
  /\ table' = [n \in Numbers |->
       IF ~Open(n) THEN Unused
       ELSE IF n \notin intended THEN [table[n] EXCEPT !.cloexec = TRUE]
       ELSE IF Now \in Bwraps THEN [table[n] EXCEPT !.cloexec = FALSE] ELSE table[n]]
  /\ UNCHANGED <<alloc, parts, held, outcome>>

\* The child has what exec left it.
Spawn ==
  /\ ~Idle /\ step.do = "spawn" /\ Do("after")
  /\ held' = [held EXCEPT ![Now] = {table[n].what : n \in {m \in Numbers : Open(m) /\ ~table[m].cloexec}}]
  /\ UNCHANGED <<table, alloc, parts, outcome>>
\* It could not be started, or there is no number left for one of its parts:
\* the run is over, and every descriptor goes.
SpawnFails ==
  /\ ~Idle /\ step.do # "after" /\ outcome' = "failed"
  /\ table' = Close(table, Numbers)
  /\ UNCHANGED <<step, alloc, parts, held>>

\* Mutant: bubbler keeps its copies of what the child was given.
CloseAfterKept(s) == {"options"}
\* close_options(), close_listener(), and for the sandbox the control socket
\* and the info pipe: bubbler's copies go and their numbers with them.
CloseAfter(s) ==
  {"options"} \cup (IF s = "wl" THEN {"listener"} ELSE {})
  \cup (IF s = "app" THEN {"socket", "info"} ELSE {})
  \cup (IF s = "netproxy" THEN {"ready"} ELSE {})
After ==
  /\ ~Idle /\ step.do = "after"
  /\ LET gone == CloseAfter(Now)
         rest == {alloc[Now][p] : p \in AllParts \ gone} \ {None}
         kept == Close(table, {alloc[Now][p] : p \in gone})
     IN \* inheritable(false)
        /\ table' = [n \in Numbers |-> IF kept[n] # Unused /\ n \in rest
                                       THEN [kept[n] EXCEPT !.cloexec = TRUE] ELSE kept[n]]
        /\ alloc' = [alloc EXCEPT ![Now] = [p \in AllParts |-> IF p \in gone THEN None ELSE @[p]]]
  /\ parts' = 0 /\ UNCHANGED held
  /\ \/ step.at < Len(Spawns) /\ step' = [at |-> step.at + 1, do |-> "make"] /\ UNCHANGED outcome
     \/ step.at = Len(Spawns) /\ outcome' = "up" /\ UNCHANGED step

\* A run whose configuration has no use for this one; there is always a sandbox.
Skip ==
  /\ ~Idle /\ step.do = "make" /\ parts = 0 /\ Now # "app"
  /\ IF step.at < Len(Spawns) THEN step' = [at |-> step.at + 1, do |-> "make"] /\ UNCHANGED outcome
     ELSE outcome' = "up" /\ UNCHANGED step
  /\ UNCHANGED <<table, alloc, parts, held>>

SpawnNext == MakePart \/ Options \/ Window \/ Spawn \/ SpawnFails \/ After \/ Skip
SpawnSpec == SpawnInit /\ [][SpawnNext]_fvars

-----------------------------------------------------------------------------
OwnParts(s) == {Parts[s][i] : i \in DOMAIN Parts[s]} \cup (IF s \in Bwraps THEN {"options"} ELSE {})
               \cup (IF s = "app" THEN {"socket"} ELSE {})
\* What only the child may hold: the socket its clients reach it by, and the
\* end whose closing says that it is gone.
Sole == {What("wl", "listener"), What("app", "socket"), What("app", "info"), What("netproxy", "ready")}

(* Each descriptor is inherited by the one process it was made for: a      *)
(* child holds every descriptor its argv names, and neither what another   *)
(* was given nor what bubbler's caller left open; and once it runs bubbler *)
(* keeps no copy of what would make a dead child look live.                *)
EachItsOwn ==
  /\ \A s \in Names : held[s] # {} => held[s] = {What(s, p) : p \in OwnParts(s)}
  /\ \A s \in Names : \A w \in held[s] : w.spawn = s
  /\ outcome = "up" => held["app"] # {}
  /\ \A n \in Numbers : Open(n) /\ table[n].what \in Sole =>
       ~(held[table[n].what.spawn] # {} /\ (Idle \/ Now # table[n].what.spawn))
=============================================================================
