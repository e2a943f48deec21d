---------------------------- MODULE SidecarDirs ----------------------------
(***************************************************************************)
(* The directory a sidecar writes in, made afresh by every start of its    *)
(* instance (launcher.rs): what a dead run left at its name is renamed     *)
(* aside and removed with earlier leftovers as far as a budget reaches, by *)
(* passes that lift what lies deep into the top directory.                 *)
(*                                                                         *)
(* The entries are nodes with a place, a kind and a name; a name is a      *)
(* number, as the lift gives them, and a sidecar may give the same ones.   *)
(* A link is an entry that is no directory.  InstanceDir is the one that   *)
(* bubbler owns, Side the sidecar's name there and Aside the names that    *)
(* are given to what was found at it.                                      *)
(***************************************************************************)
EXTENDS Integers, Sequences, FiniteSets, FiniteSetsExt

CONSTANTS Nodes,           \* entries there can be (bound)
          LEFTOVER_BUDGET, READ_BATCH,
          MaxStarts        \* starts (bound)

InstanceDir == 0
Nowhere == -1
NoNode == -1
Side == -1
Aside(k) == -2 - k         \* leftover_name(): the k-th name beside it

VARIABLES
  par,      \* node -> the directory it is in: a node, InstanceDir or Nowhere
  dir,      \* node -> whether it is a directory
  name,     \* node -> its name
  at,       \* what the start or the teardown is doing
  todo,     \* leftovers still to remove
  top, batch, inner, subs,   \* remove_tree(): the tree, the names read, the
                             \* directory being emptied and the names read there
  lifted,   \* the next number to lift to
  budget,
  starts,
  before    \* history: the weight of what this start found to remove
svars == <<par, dir, name, at, todo, top, batch, inner, subs, lifted, budget, starts, before>>
tree == <<par, dir, name>>
walk == <<top, batch, inner, subs, lifted>>

In(d) == {n \in Nodes : par[n] = d}
NamedAt(d, x) == {n \in In(d) : name[n] = x}
Free == {n \in Nodes : par[n] = Nowhere}
IsLeftover(n) == par[n] = InstanceDir /\ name[n] # Side
Leftovers == {n \in Nodes : IsLeftover(n)}
\* How deep a node lies below the instance's directory.
Depth(n) ==
  LET up[k \in 0..Cardinality(Nodes)] ==
        IF k = 0 THEN n ELSE IF up[k - 1] \in Nodes THEN par[up[k - 1]] ELSE up[k - 1]
  IN Cardinality({k \in DOMAIN up : up[k] \in Nodes})
RootOf(n) ==
  LET up[k \in 0..Cardinality(Nodes)] ==
        IF k = 0 THEN n ELSE IF par[up[k - 1]] \in Nodes THEN par[up[k - 1]] ELSE up[k - 1]
  IN up[Cardinality(Nodes)]
\* What there is to remove: every entry once for itself and once per level.
Weight == MapThenSumSet(LAMBDA n : IF par[n] # Nowhere /\ IsLeftover(RootOf(n)) THEN Depth(n) ELSE 0, Nodes)

SidecarInit ==
  /\ par = [n \in Nodes |-> Nowhere] /\ dir = [n \in Nodes |-> FALSE] /\ name = [n \in Nodes |-> 0]
  /\ at = "down" /\ todo = {} /\ top = NoNode /\ batch = {} /\ inner = NoNode /\ subs = {}
  /\ lifted = 0 /\ budget = 0 /\ starts = 0 /\ before = 0

\* The first name of a sequence of them that is free in a directory.
FirstFree(d, from) == CHOOSE k \in from..(from + Cardinality(Nodes)) :
                        NamedAt(d, k) = {} /\ \A j \in from..(k - 1) : NamedAt(d, j) # {}
AsideFree == CHOOSE k \in 0..Cardinality(Nodes) :
               NamedAt(InstanceDir, Aside(k)) = {}
               /\ \A j \in 0..(k - 1) : NamedAt(InstanceDir, Aside(j)) # {}

(* fresh_sidecar_dir(): statat, and move_aside() or straight to            *)
(* clear_leftovers(), which reads the instance's directory once.           *)
Start ==
  /\ at = "down" /\ starts < MaxStarts /\ starts' = starts + 1
  /\ LET there == NamedAt(InstanceDir, Side)
     IN name' = [n \in Nodes |-> IF n \in there THEN Aside(AsideFree) ELSE name[n]]
  /\ todo' = In(InstanceDir) /\ budget' = LEFTOVER_BUDGET
  /\ UNCHANGED <<par, dir, walk>>
  /\ at' = "clear" /\ before' = Weight'

(* remove_tree() on the next of them; unlink_or_open() unlinks what is no  *)
(* directory and opens, whatever its mode was, what is one.                *)
NextTree ==
  /\ at = "clear" /\ top = NoNode /\ todo # {}
  /\ \E n \in todo :
       /\ todo' = todo \ {n} /\ lifted' = 0
       /\ IF dir[n] THEN top' = n /\ UNCHANGED par
          ELSE par' = [par EXCEPT ![n] = Nowhere] /\ UNCHANGED top
  /\ UNCHANGED <<dir, name, at, batch, inner, subs, budget, starts, before>>

\* entry_names(): up to a batch of the names, in the order of the directory.
Batches(d) ==
  {s \in SUBSET In(d) : Cardinality(s) = IF Cardinality(In(d)) < READ_BATCH THEN Cardinality(In(d))
                                         ELSE READ_BATCH}

ReadTop ==
  /\ top # NoNode /\ inner = NoNode /\ batch = {}
  /\ IF In(top) = {} THEN par' = [par EXCEPT ![top] = Nowhere] /\ top' = NoNode /\ UNCHANGED batch
     ELSE batch' \in Batches(top) /\ UNCHANGED <<par, top>>
  /\ UNCHANGED <<dir, name, at, todo, inner, subs, lifted, budget, starts, before>>

\* spend(): EAGAIN once there is nothing left; the tree is left as it is.
Spent ==
  /\ budget = 0 /\ top # NoNode /\ ((batch # {} /\ inner = NoNode) \/ subs # {})
  /\ top' = NoNode /\ batch' = {} /\ inner' = NoNode /\ subs' = {}
  /\ UNCHANGED <<tree, at, todo, lifted, budget, starts, before>>

NextEntry ==
  /\ top # NoNode /\ inner = NoNode /\ budget > 0 /\ budget' = budget - 1
  /\ \E n \in batch :
       /\ batch' = batch \ {n}
       /\ IF dir[n] THEN inner' = n /\ UNCHANGED par
          ELSE par' = [par EXCEPT ![n] = Nowhere] /\ UNCHANGED inner
  /\ UNCHANGED <<dir, name, at, todo, top, subs, lifted, starts, before>>

ReadInner ==
  /\ inner # NoNode /\ subs = {}
  /\ IF In(inner) = {} THEN par' = [par EXCEPT ![inner] = Nowhere] /\ inner' = NoNode /\ UNCHANGED subs
     ELSE subs' \in Batches(inner) /\ UNCHANGED <<par, inner>>
  /\ UNCHANGED <<dir, name, at, todo, top, batch, lifted, budget, starts, before>>

\* Mutant: a directory is lifted onto its own name.
LiftAsIs(n) == par' = [par EXCEPT ![n] = top] /\ UNCHANGED <<name, lifted>>
\* rename_to_free(): never onto an entry that is there.
Lift(n) ==
  LET k == FirstFree(top, lifted)
  IN par' = [par EXCEPT ![n] = top] /\ name' = [name EXCEPT ![n] = k] /\ lifted' = k + 1

NextSub ==
  /\ inner # NoNode /\ budget > 0 /\ budget' = budget - 1
  /\ \E n \in subs :
       /\ subs' = subs \ {n}
       /\ IF dir[n] THEN Lift(n) ELSE par' = [par EXCEPT ![n] = Nowhere] /\ UNCHANGED <<name, lifted>>
  /\ UNCHANGED <<dir, at, todo, top, batch, inner, starts, before>>

(* The directory is made, and the sidecar started in it.                   *)
MakeFresh ==
  /\ at = "clear" /\ top = NoNode /\ todo = {}
  /\ \E n \in Free :
       /\ par' = [par EXCEPT ![n] = InstanceDir] /\ dir' = [dir EXCEPT ![n] = TRUE]
       /\ name' = [name EXCEPT ![n] = Side]
       /\ \A m \in Free : n <= m
  /\ at' = "up" /\ before' = 0
  /\ UNCHANGED <<todo, walk, budget, starts>>

(* The sidecar, while it is up, writes what it likes in its directory      *)
(* (a bound: there is always a node left for the directories to come).     *)
Writes ==
  /\ at = "up" /\ Cardinality(Free) > MaxStarts - starts
  /\ LET n == CHOOSE m \in Free : \A k \in Free : m <= k
     IN \E d \in {e \in Nodes : dir[e] /\ par[e] # Nowhere /\ name[RootOf(e)] = Side}, x \in {0, 1}, b \in BOOLEAN :
          /\ NamedAt(d, x) = {}
          /\ par' = [par EXCEPT ![n] = d] /\ dir' = [dir EXCEPT ![n] = b] /\ name' = [name EXCEPT ![n] = x]
  /\ UNCHANGED <<at, todo, walk, budget, starts, before>>

\* The run ends: remove_sidecar_dir(), with a budget of its own; or bubbler is
\* killed.
TearDown ==
  /\ at = "up" /\ at' \in {"clear_end", "down"}
  /\ IF at' = "down" THEN UNCHANGED <<top, lifted, budget, before>>
     ELSE /\ \E n \in NamedAt(InstanceDir, Side) : top' = n
          /\ lifted' = 0 /\ budget' = LEFTOVER_BUDGET /\ before' = 0
  /\ UNCHANGED <<tree, todo, batch, inner, subs, starts>>
TornDown ==
  /\ at = "clear_end" /\ top = NoNode /\ at' = "down"
  /\ UNCHANGED <<tree, todo, walk, budget, starts, before>>
\* bubbler is killed while it clears.
Cut ==
  /\ at \in {"clear", "clear_end"} /\ at' = "down" /\ before' = 0
  /\ todo' = {} /\ top' = NoNode /\ batch' = {} /\ inner' = NoNode /\ subs' = {}
  /\ UNCHANGED <<tree, lifted, budget, starts>>

Walk == NextTree \/ ReadTop \/ Spent \/ NextEntry \/ ReadInner \/ NextSub
SidecarNext == Start \/ Walk \/ MakeFresh \/ Writes \/ TearDown \/ TornDown \/ Cut

-----------------------------------------------------------------------------
(* remove_tree(): "a call that fails with EAGAIN once it is spent has      *)
(* still shrunk the tree".  A start that could not remove all of what the  *)
(* sidecars of dead runs left has removed some of it, or brought it nearer *)
(* the top; nothing is lost sight of, no entry is hidden by another of its *)
(* name, and the directory the sidecar gets is new and empty.              *)
LeftoversShrink ==
  /\ at = "clear" /\ top = NoNode /\ todo = {} => Leftovers = {} \/ Weight < before
  /\ \A m, n \in Nodes : par[m] # Nowhere /\ par[m] = par[n] /\ name[m] = name[n] => m = n
  /\ \A n \in Nodes : par[n] # Nowhere => par[RootOf(n)] = InstanceDir
=============================================================================
