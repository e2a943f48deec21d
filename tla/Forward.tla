------------------------------ MODULE Forward ------------------------------
(***************************************************************************)
(* Handing host files to the sandbox (forward.rs, and forwarded_or() of    *)
(* the command line): the plan of an argument list becomes candidates,     *)
(* every candidate is opened, one AddFull call per permission exports what *)
(* was opened, and the arguments are rewritten to the paths inside.  The   *)
(* file system may change at any time, the plan is only a snapshot of it.  *)
(*                                                                         *)
(* A path is a model value; what it names is a node of the disk.           *)
(***************************************************************************)
EXTENDS DbusSession

CONSTANTS Plans,    \* the plans to try: sequences of entries
          Nodes,    \* what a path may name: [kind, file]
          MaxSwaps  \* bound: changes of the file system

(* The program of a command line is never forwarded (forwarded_or() plans  *)
(* the arguments behind it), and a file is a regular one or is not.        *)
Regular(file) == \A n \in Nodes : n.file = file => n.kind = "file"
ASSUME PlansAssumption ==
  /\ \A p \in Plans :
       /\ p \in Seq([kind : {"forward", "rename", "untouched"}, path : STRING, write : BOOLEAN])
       /\ p # <<>> /\ p[1].kind = "untouched"
       /\ \A i \in DOMAIN p : Regular(p[i].path)
  /\ \A n \in Nodes : n \in [kind : STRING, file : STRING] /\ (n.kind = "file" => Regular(n.file))

VARIABLES plan,    \* the plan of the argument list, the program first
          disk,    \* path -> node
          swaps,   \* changes so far
          phase,   \* where forwarded_or() is
          opened,  \* register()'s `open`: [index, file] in candidate order
          done,    \* register()'s answers: candidate -> answer
          sets,    \* the permission sets still to call for
          broken,  \* the session may not be used again
          argv     \* what the command is started with

fvars == <<svars, plan, disk, swaps, phase, opened, done, sets, broken, argv>>
mine == <<plan, phase, opened, done, sets, broken, argv>>

\* What of s stands at the places in I, in order.
Picked(s, I) ==
  LET f[n \in 0..Len(s)] ==
        IF n = 0 THEN <<>> ELSE IF n \in I THEN Append(f[n - 1], s[n]) ELSE f[n - 1]
  IN  f[Len(s)]

\* The files to ask the portal for, each with the argument it stands for.
Candidates(p) ==
  Picked([i \in 1..Len(p) |-> [arg |-> i, path |-> p[i].path, write |-> p[i].write]],
         {i \in DOMAIN p : p[i].kind = "forward"})
CandidatesOf == [p \in Plans |-> Candidates(p)]
candidates == CandidatesOf[plan]

None == [tag |-> "none", id |-> ""]
Failed(why) == [tag |-> why, id |-> ""]

\* permission_sets(): in the order they first occur.
PermissionSets(cands) ==
  IF cands = <<>> THEN <<>>
  ELSE LET first == cands[1].write IN
       IF \A i \in DOMAIN cands : cands[i].write = first THEN <<first>>
       ELSE <<first, ~first>>

ForwardInit ==
  /\ SessionInit
  /\ plan \in Plans
  /\ disk = [path \in {c.path : c \in Elements(candidates)} |->
               [kind |-> "file", file |-> path]]
  /\ swaps = 0 /\ phase = "start" /\ opened = <<>> /\ sets = <<>>
  /\ done = <<>> /\ broken = FALSE /\ argv = <<>>

\* Another process replaces what a path names.  Once every candidate is
\* open the disk is not read again.
Swap(path, node) ==
  /\ phase \in {"start", "connect", "open"} /\ Len(done) < Len(candidates)
  /\ swaps < MaxSwaps /\ swaps' = swaps + 1
  /\ disk' = [disk EXCEPT ![path] = node]
  /\ UNCHANGED <<svars, mine>>

----------------------------------------------------------------------------
\* rewrite(): renames out of the plan, then the exported files.
Rewritten(forwards) ==
  [i \in DOMAIN plan |->
     CASE \E f \in forwards : f.index = i ->
            [in |-> "doc", of |-> (CHOOSE f \in forwards : f.index = i).id]
       [] plan[i].kind = "rename" -> [in |-> "home", of |-> plan[i].path]
       [] OTHER -> [in |-> "given", of |-> plan[i].path]]

Finish(answers) ==
  /\ phase' = "done"
  /\ argv' = Rewritten({[index |-> candidates[i].arg, id |-> answers[i].id] :
                          i \in {j \in DOMAIN answers : answers[j].tag = "ok"}})

\* forwarded_or(): without a candidate, or without the grant, no session.
Begin(granted) ==
  /\ phase = "start"
  /\ IF granted /\ candidates # <<>>
     THEN phase' = "connect" /\ UNCHANGED argv
     ELSE Finish(<<>>)
  /\ UNCHANGED <<svars, plan, disk, swaps, opened, done, sets, broken>>

\* portal_session() failed: nothing is forwarded.
NoSession ==
  /\ phase = "connect" /\ step = "ready" /\ result.tag # "open"
  /\ Finish(<<>>)
  /\ UNCHANGED <<svars, plan, disk, swaps, opened, done, sets, broken>>

\* open_path(): what the path names now, checked on the descriptor.
Opens(node) == node.kind = "file"
OpenedWith(i) == disk[candidates[i].path]

OpenNext ==
  /\ phase = "connect" /\ step = "ready" /\ result.tag = "open"
  /\ phase' = "open"
  /\ sets' = PermissionSets(candidates)
  /\ UNCHANGED <<svars, plan, disk, swaps, opened, done, broken, argv>>

Open ==
  /\ phase = "open" /\ Len(done) < Len(candidates)
  /\ LET i == Len(done) + 1 IN
       IF Opens(OpenedWith(i))
       THEN /\ opened' = Append(opened, [index |-> i,
                                         file |-> OpenedWith(i).file])
            /\ done' = Append(done, None)
       ELSE done' = Append(done, Failed("unopened")) /\ UNCHANGED opened
  /\ UNCHANGED <<svars, plan, disk, swaps, phase, sets, broken, argv>>

----------------------------------------------------------------------------
(* One call per permission set.                                             *)

Group == Picked(opened, {k \in DOMAIN opened : candidates[opened[k].index].write = Head(sets)})

AllGroup(answer) ==
  done' = [i \in DOMAIN done |->
             IF \E k \in DOMAIN Group : Group[k].index = i
             THEN answer ELSE done[i]]

\* An empty group is passed over, and a broken session fails the rest.
PassOver ==
  /\ phase = "open" /\ Len(done) = Len(candidates) /\ sets # <<>>
  /\ \/ Group = <<>> /\ UNCHANGED done
     \/ Group # <<>> /\ broken /\ AllGroup(Failed("bus"))
  /\ sets' = Tail(sets)
  /\ UNCHANGED <<svars, plan, disk, swaps, phase, opened, broken, argv>>

AddFull ==
  /\ phase = "open" /\ Len(done) = Len(candidates) /\ sets # <<>>
  /\ Group # <<>> /\ ~broken
  /\ phase' = "calling"
  /\ Call([k \in DOMAIN Group |-> Group[k].file], Head(sets))
  /\ UNCHANGED <<plan, disk, swaps, opened, done, sets, broken, argv>>

\* The group and the ids it was answered with, side by side.
Zipped(ids) ==
  [i \in DOMAIN done |->
     IF \E k \in DOMAIN Group : Group[k].index = i
     THEN [tag |-> "ok",
           id |-> ids[CHOOSE k \in DOMAIN Group : Group[k].index = i]]
     ELSE done[i]]

\* A refusal and a call never sent leave the session usable.
Breaks(tag) == tag \notin {"ok", "remote", "unsent"}

\* document_ids() holds the answer to one id per file.
Answered ==
  /\ phase = "calling" /\ step = "ready"
  /\ phase' = "open" /\ sets' = Tail(sets)
  /\ broken' = Breaks(result.tag)
  /\ IF result.tag = "ok" /\ Len(result.ids) = Len(Group)
     THEN done' = Zipped(result.ids)
     ELSE AllGroup(Failed(IF result.tag = "ok" THEN "answer" ELSE result.tag))
  /\ UNCHANGED <<svars, plan, disk, swaps, opened, argv>>

Registered ==
  /\ phase = "open" /\ Len(done) = Len(candidates) /\ sets = <<>>
  /\ Finish(done)
  /\ UNCHANGED <<svars, plan, disk, swaps, opened, done, sets, broken>>

Register == \/ \E granted \in BOOLEAN : Begin(granted)
            \/ NoSession \/ OpenNext \/ Open \/ PassOver \/ AddFull
            \/ Answered \/ Registered

SessionSteps == (phase = "connect" /\ Connect) \/ AuthLine \/ Send \/ Receive
                \/ TimeOut \/ Closed

Rest == UNCHANGED <<mine, disk, swaps>>

ForwardNext == \/ Register
               \/ (SessionSteps \/ Expire \/ World) /\ Rest
               \/ \E path \in DOMAIN disk, node \in Nodes : Swap(path, node)
               \/ phase = "done" /\ UNCHANGED fvars

ForwardSpec == ForwardInit /\ [][ForwardNext]_fvars

(* The command line is one thread that only waits in poll(2), with what is  *)
(* left of the deadline; time passes.  The bus and the service need do      *)
(* nothing.                                                                 *)
ForwardFairness == /\ WF_fvars(Register)
                   /\ WF_fvars(SessionSteps /\ Rest)
                   /\ WF_fvars(Expire /\ Rest)

----------------------------------------------------------------------------
ForwardTypeOK ==
  /\ SessionTypeOK
  /\ phase \in {"start", "connect", "open", "calling", "done"}
  /\ Len(done) <= Len(candidates) /\ broken \in BOOLEAN

(* An argument is replaced by a document of its own file, exported by the   *)
(* service with the permission its own plan asked for, whoever else answers *)
(* on the bus and whatever fails to open (register(), forward.rs:317); what *)
(* is exported was a regular file when it was opened, and an argument the   *)
(* plan leaves alone never becomes a document (rewrite()).                  *)
OwnFile ==
  /\ \A i \in DOMAIN done : done[i].tag = "ok" =>
       \E k \in DOMAIN opened :
         /\ opened[k].index = i /\ done[i].id = opened[k].file
         /\ [file |-> opened[k].file, write |-> candidates[i].write] \in exports
  /\ \A e \in exports, n \in Nodes : n.file = e.file => n.kind = "file"
  /\ \A n \in DOMAIN argv : argv[n].in = "doc" =>
       plan[n].kind = "forward" /\ [file |-> argv[n].of, write |-> plan[n].write] \in exports

(* After a failure that may have left an answer unread the connection       *)
(* carries no further call (register()'s `broken`, forward.rs:278).         *)
BrokenSilent ==
  (\E i \in DOMAIN done : done[i].tag = "wire") => step = "ready"

(* A path given to the command is the user's own file or stays as it was:   *)
(* no answer out of turn, from a stranger or from a service that has left   *)
(* is taken for the one asked for (forward.rs, dbus_wire.rs).               *)
ForwardedOwn == OwnFile /\ BrokenSilent /\ NotToCorpse

(* The command line is never held: every candidate has been given an        *)
(* answer and the command starts, whatever the bus, the service and the     *)
(* stranger do (one CALL_TIMEOUT per call, dbus_wire.rs:1386).              *)
ForwardEnds == <>(phase = "done"
                  /\ \A i \in DOMAIN done : done[i].tag # "none")

-----------------------------------------------------------------------------
(* The instance TLC checks: argument lists of a program and three arguments, *)
(* two files of either permission around one of the other, or one that needs *)
(* no portal before two; and a path may come to name another file or no      *)
(* regular file.                                                             *)
Entry(kind, path, write) == [kind |-> kind, path |-> path, write |-> write]
Program == Entry("untouched", "prog", FALSE)
MCPlans ==
  {<<Program, Entry("forward", "a", TRUE), Entry("forward", "b", FALSE),
     Entry("forward", "c", TRUE)>>,
   <<Program, Entry("rename", "a", FALSE), Entry("forward", "b", FALSE),
     Entry("forward", "c", FALSE)>>}
MCNodes == {[kind |-> "file", file |-> "z"], [kind |-> "proc", file |-> "p"]}
ForwardFairSpec == ForwardSpec /\ ForwardFairness
=============================================================================
