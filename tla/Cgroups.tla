------------------------------ MODULE Cgroups ------------------------------
(***************************************************************************)
(* The cgroups of runs with an `allow-host` (cgroup.rs): each makes a      *)
(* directory with two leaves below the cgroup it was started in, moves     *)
(* itself into one, has nftables resolve the other to an id and starts the *)
(* egress proxy in it; at the end it moves back and removes all three.  A  *)
(* run begins by sweeping what earlier runs of its instance left.          *)
(*                                                                         *)
(* An instance's name is the sequence of its words between dashes, and a   *)
(* directory's name that sequence with the pid behind it.  A cgroup's id   *)
(* is the number of its making.  The kernel removes a cgroup only while it *)
(* holds neither a process nor a child.                                    *)
(***************************************************************************)
EXTENDS Naturals, Sequences, SequencesExt, FiniteSets

CONSTANTS Runners, Instance, Pid   \* the runs there are, and the name and pid of each
ASSUME CgroupAssumption == Instance \in [Runners -> Seq(STRING)] /\ Pid \in [Runners -> STRING]

Base(r) == Append(Instance[r], Pid[r])
Dir(b, leaf) == [base |-> b, leaf |-> leaf]       \* leaf is "" for the parent of the two
Dirs(b) == {Dir(b, ""), Dir(b, "sandbox"), Dir(b, "proxy")}
RemoveOrder(b) == <<Dir(b, "proxy"), Dir(b, "sandbox"), Dir(b, "")>>
MakeOrder(b) == <<Dir(b, ""), Dir(b, "sandbox"), Dir(b, "proxy")>>
AllDirs == UNION {Dirs(Base(r)) : r \in Runners}
NoCgroup == 0                  \* no such cgroup; where a process that is not there is
Home == 1                      \* the cgroup every run is started in
Procs == {"bubbler", "box", "proxy"}   \* of a run; the box is all of the sandbox

VARIABLES
  id,      \* directory -> the id of the cgroup there, NoCgroup if there is none
  made,    \* cgroups made so far
  where,   \* run, process -> the id of the cgroup it is in
  phase,   \* where each run is
  removing, \* the directories it is about to make or remove
  procs,   \* the cgroup whose cgroup.procs it holds open
  rule     \* the cgroup its ruleset accepts
cvars == <<id, made, where, phase, removing, procs, rule>>

CgroupInit ==
  /\ id = [d \in AllDirs |-> NoCgroup] /\ made = 0
  /\ where = [r \in Runners |-> [p \in Procs |-> NoCgroup]]
  /\ phase = [r \in Runners |-> "idle"] /\ removing = [r \in Runners |-> <<>>]
  /\ procs = [r \in Runners |-> NoCgroup] /\ rule = [r \in Runners |-> NoCgroup]

Over == {"idle", "failed", "done", "killed"}
Live(r) == phase[r] \notin Over
Go(r, to) == phase' = [phase EXCEPT ![r] = to]
Then(r, list) == removing' = [removing EXCEPT ![r] = list]
Populated(c) == \E q \in Runners, p \in Procs : where[q][p] = c
Children(d) == {e \in Dirs(d.base) : d.leaf = "" /\ e.leaf # "" /\ id[e] # NoCgroup}
Removable(d) == id[d] # NoCgroup /\ ~Populated(id[d]) /\ Children(d) = {}
Move(r, p, c) == where' = [where EXCEPT ![r][p] = c]

\* sweep(): every directory whose name starts as this instance's do.
Swept(r) ==
  {b \in {Base(q) : q \in Runners} : IsStrictPrefix(Instance[r], b) /\ id[Dir(b, "")] # NoCgroup}

(* create(): the instance is not running when it starts.                   *)
Create(r) ==
  /\ phase[r] = "idle"
  /\ \A q \in Runners \ {r} : Live(q) => Instance[q] # Instance[r] /\ Pid[q] # Pid[r]
  /\ Move(r, "bubbler", Home) /\ Go(r, "sweep")
  /\ \E order \in SetToSeqs(Swept(r)) :
       Then(r, FlattenSeq([i \in DOMAIN order |-> RemoveOrder(order[i])]))
  /\ UNCHANGED <<id, made, procs, rule>>

\* remove(): one directory, if the kernel lets it go.
RemoveNext(r) ==
  /\ removing[r] # <<>> /\ Then(r, Tail(removing[r]))
  /\ id' = IF Removable(Head(removing[r])) THEN [id EXCEPT ![Head(removing[r])] = NoCgroup] ELSE id

Sweep(r) ==
  /\ phase[r] = "sweep"
  /\ \/ RemoveNext(r) /\ UNCHANGED phase
     \/ removing[r] = <<>> /\ Then(r, MakeOrder(Base(r))) /\ Go(r, "make") /\ UNCHANGED id
  /\ UNCHANGED <<made, where, procs, rule>>

\* Mutant: a directory that is already there is taken as it is.
MakeOrUse(r) ==
  /\ phase[r] = "make" /\ removing[r] # <<>>
  /\ LET d == Head(removing[r])
     IN \/ /\ id[d] = NoCgroup /\ (d.leaf = "" \/ id[Dir(d.base, "")] # NoCgroup)
           /\ id' = [id EXCEPT ![d] = made + 2] /\ made' = made + 1
        \/ id[d] # NoCgroup /\ UNCHANGED <<id, made>>
  /\ Then(r, Tail(removing[r]))
  /\ UNCHANGED <<phase, where, procs, rule>>
(* create_under(): the three in order; one that is there, or whose parent  *)
(* is not, undoes the others.                                              *)
Make(r) ==
  /\ phase[r] = "make" /\ removing[r] # <<>>
  /\ LET d == Head(removing[r])
     IN \/ /\ id[d] = NoCgroup /\ (d.leaf = "" \/ id[Dir(d.base, "")] # NoCgroup)
           /\ id' = [id EXCEPT ![d] = made + 2] /\ made' = made + 1
           /\ Then(r, Tail(removing[r])) /\ UNCHANGED phase
        \/ /\ id[d] # NoCgroup \/ (d.leaf # "" /\ id[Dir(d.base, "")] = NoCgroup)
           /\ Then(r, RemoveOrder(Base(r))) /\ Go(r, "undo") /\ UNCHANGED <<id, made>>
  /\ UNCHANGED <<where, procs, rule>>

\* The proxy leaf's cgroup.procs, opened so that the proxy has only to write.
OpenProcs(r) ==
  /\ phase[r] = "make" /\ removing[r] = <<>>
  /\ procs' = [procs EXCEPT ![r] = id[Dir(Base(r), "proxy")]]
  /\ IF id[Dir(Base(r), "proxy")] # NoCgroup THEN Go(r, "move") /\ UNCHANGED removing
     ELSE Then(r, RemoveOrder(Base(r))) /\ Go(r, "undo")
  /\ UNCHANGED <<id, made, where, rule>>

\* write_pid(): bubbler into the sandbox's leaf, and what it spawns with it.
MoveIn(r) ==
  /\ phase[r] = "move"
  /\ LET leaf == id[Dir(Base(r), "sandbox")]
     IN IF leaf # NoCgroup THEN Move(r, "bubbler", leaf) /\ Go(r, "spawn") /\ UNCHANGED removing
        ELSE Then(r, RemoveOrder(Base(r))) /\ Go(r, "undo") /\ UNCHANGED where
  /\ UNCHANGED <<id, made, procs, rule>>

Undo(r) ==
  /\ phase[r] = "undo"
  /\ \/ RemoveNext(r) /\ UNCHANGED <<phase, where>>
     \/ removing[r] = <<>> /\ Go(r, "failed") /\ Move(r, "bubbler", NoCgroup) /\ UNCHANGED <<id, removing>>
  /\ UNCHANGED <<made, procs, rule>>

(* launch(): bwrap is started in bubbler's cgroup, nftables resolves the   *)
(* path of the rule, and the proxy writes its pid before it execs; what    *)
(* fails ends the run.                                                     *)
SpawnBox(r) ==
  /\ phase[r] = "spawn" /\ Go(r, "rules")
  /\ Move(r, "box", where[r]["bubbler"])
  /\ UNCHANGED <<id, made, removing, procs, rule>>
install_rules(r) ==
  /\ phase[r] = "rules"
  /\ LET leaf == id[Dir(Base(r), "proxy")]
     IN IF leaf = NoCgroup THEN Go(r, "stop") /\ UNCHANGED rule
        ELSE rule' = [rule EXCEPT ![r] = leaf] /\ Go(r, "proxy")
  /\ UNCHANGED <<id, made, where, removing, procs>>
start_net_proxy(r) ==
  /\ phase[r] = "proxy"
  /\ IF procs[r] \in {id[d] : d \in AllDirs} THEN Move(r, "proxy", procs[r]) /\ Go(r, "running")
     ELSE Go(r, "stop") /\ UNCHANGED where
  /\ UNCHANGED <<id, made, removing, procs, rule>>

(* The sandbox has exited and the proxy was stopped; release() moves back  *)
(* and tries the three until they are gone or its deadline has passed.     *)
Stop(r) ==
  /\ phase[r] \in {"running", "spawn"} /\ Go(r, "stop")
  /\ UNCHANGED <<id, made, where, removing, procs, rule>>
MoveOut(r) ==
  /\ phase[r] = "stop" /\ Go(r, "release")
  /\ where' = [where EXCEPT ![r]["proxy"] = NoCgroup, ![r]["bubbler"] = Home]
  /\ Then(r, RemoveOrder(Base(r)))
  /\ UNCHANGED <<id, made, procs, rule>>
\* One that will not go ends the pass, and the next begins with the first.
Removing(r) ==
  /\ phase[r] = "release"
  /\ \/ /\ removing[r] # <<>> /\ id[Head(removing[r])] # NoCgroup /\ ~Removable(Head(removing[r]))
        /\ Then(r, RemoveOrder(Base(r))) /\ UNCHANGED <<id, phase, where>>
     \/ /\ removing[r] # <<>> /\ (Removable(Head(removing[r])) \/ id[Head(removing[r])] = NoCgroup)
        /\ RemoveNext(r) /\ UNCHANGED <<phase, where>>
     \/ /\ \/ removing[r] = <<>>
           \/ removing[r] = RemoveOrder(Base(r))    \* the deadline
        /\ Go(r, "done") /\ Move(r, "bubbler", NoCgroup) /\ Then(r, <<>>) /\ UNCHANGED id
  /\ UNCHANGED <<made, procs, rule>>

(* bubbler is killed, at any moment; what it started dies with it, later.  *)
Killed(r) ==
  /\ Live(r) /\ Go(r, "killed") /\ Move(r, "bubbler", NoCgroup) /\ Then(r, <<>>)
  /\ UNCHANGED <<id, made, procs, rule>>
Dies(r) ==
  /\ phase[r] \in {"release", "done", "killed", "stop"}
  /\ \E p \in {"box", "proxy"} : where[r][p] # NoCgroup /\ Move(r, p, NoCgroup)
  /\ UNCHANGED <<id, made, phase, removing, procs, rule>>

CgroupStep(r) ==
  \/ Create(r) \/ Sweep(r) \/ Make(r) \/ OpenProcs(r) \/ MoveIn(r) \/ Undo(r)
  \/ SpawnBox(r) \/ install_rules(r) \/ start_net_proxy(r)
  \/ Stop(r) \/ MoveOut(r) \/ Removing(r) \/ Killed(r) \/ Dies(r)
CgroupNext == \E r \in Runners : CgroupStep(r)
CgroupSpec == CgroupInit /\ [][CgroupNext]_cvars

-----------------------------------------------------------------------------
(* What a ruleset lets out is its own run's proxy and nothing else: while  *)
(* the sandbox runs its proxy is in the very cgroup nftables resolved, no  *)
(* other process is or ever will be, and no sandbox lies above it, however *)
(* pids and names are used again and whoever was killed in between.        *)
GateIsProxys ==
  \A r \in Runners :
    /\ phase[r] = "running" => where[r]["proxy"] = rule[r]
    /\ rule[r] # NoCgroup => \A q \in Runners, p \in Procs : where[q][p] = rule[r] => <<q, p>> = <<r, "proxy">>
    /\ where[r]["box"] # NoCgroup => \A d \in AllDirs : id[d] = where[r]["box"] => d.leaf = "sandbox"
=============================================================================
