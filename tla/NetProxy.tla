------------------------------ MODULE NetProxy ------------------------------
(***************************************************************************)
(* The egress proxy of a sandbox without a network (crates/bubbler-net-    *)
(* proxy): one thread accepts, up to MAX_TUNNELS others read a CONNECT     *)
(* request each, judge its target by the run's allowlist, resolve and dial *)
(* it and carry bytes both ways until each direction is done.              *)
(*                                                                         *)
(* A name or an address is a sequence of labels.  A request is none, part, *)
(* bad or whole, in the client's socket before it is read.  Tunnel data is *)
(* counted in units.  Header, dial, write and idle deadlines and the       *)
(* resolver's budget are steps that may be taken at any moment.            *)
(***************************************************************************)
EXTENDS Naturals, Sequences, FiniteSets

CONSTANTS
  N,          \* connections the sandbox makes (bound)
  MaxTunnels, \* MAX_TUNNELS
  Allow,      \* the allowlist: [labels, wildcard, port]
  Targets,    \* what requests ask for: [host, port]
  Answers,    \* what resolvers answer: [ours, rcode, cut, records]
  Inward,     \* addresses inside the namespace
  Attempts,   \* tries of one question: TRIES of each resolver
  MaxCnames,  \* MAX_CNAMES
  Chunk,      \* CHUNK: units one direction holds
  MaxUnits    \* units sent each way in a tunnel (bound)

ASSUME ProxyAssumption ==
  /\ N \in Nat /\ MaxTunnels \in Nat \ {0} /\ Attempts \in Nat \ {0}
  /\ MaxCnames \in Nat \ {0} /\ Chunk \in Nat \ {0} /\ MaxUnits \in Nat

(* A request names a host of at least one label.                           *)
ASSUME NamesAssumption ==
  /\ \A t \in Targets : t.host \in Seq(STRING) \ {<<>>}
  /\ \A e \in Allow : e.labels \in Seq(STRING) /\ e.wildcard \in BOOLEAN
  /\ \A a \in Answers :
       a.records \in Seq([owner : Seq(STRING), kind : {"addr", "cname"}, to : Seq(STRING)])

Conns == 1..N
Dirs  == {"out", "back"}   \* named for where the bytes come from: the client, the upstream
None  == "none"
Nowhere == <<>>            \* no address
NoTarget == [host |-> <<>>, port |-> 0]

VARIABLES
  pc,        \* where each connection is, or the thread that serves it
  live,      \* the tunnels counted
  status,    \* what a refusal is about to answer
  \* the request
  wire,      \* what of a request has arrived: "none", "part", "bad" or "whole"
  target,    \* what a whole one asks for
  buffered,  \* units that came behind the request
  \* the dial
  question,  \* "A" or "AAAA"
  tries,     \* tries of it made
  answered,  \* a resolver has answered
  addrs,     \* addresses still to dial
  late,      \* a connect timed out
  upstream,  \* the address the tunnel goes to
  \* the tunnel, per direction
  src,       \* units in the source's socket
  eof,       \* the source has ended its half
  buf,       \* units held
  srcDone, sinkDone,
  shut,      \* the sink's write end was shut down
  sent, got  \* history: units the source sent and the sink took

control == <<pc, live, status>>
dial    == <<question, tries, answered, addrs, late, upstream>>
tunnel  == <<src, eof, buf, srcDone, sinkDone, shut, sent, got>>
request == <<wire, target>>
vars    == <<pc, live, status, wire, target, buffered, question, tries, answered, addrs, late,
             upstream, src, eof, buf, srcDone, sinkDone, shut, sent, got>>

Threads == {"request", "judge", "ask", "dial", "open", "relay", "refuse", "drop"}

Init ==
  /\ pc = [c \in Conns |-> "idle"] /\ live = 0
  /\ status = [c \in Conns |-> None]
  /\ wire = [c \in Conns |-> "none"] /\ target = [c \in Conns |-> NoTarget]
  /\ buffered = [c \in Conns |-> 0]
  /\ question = [c \in Conns |-> "A"] /\ tries = [c \in Conns |-> 0]
  /\ answered = [c \in Conns |-> FALSE] /\ addrs = [c \in Conns |-> <<>>]
  /\ late = [c \in Conns |-> FALSE] /\ upstream = [c \in Conns |-> Nowhere]
  /\ src = [c \in Conns |-> [d \in Dirs |-> 0]]
  /\ eof = [c \in Conns |-> [d \in Dirs |-> FALSE]]
  /\ buf = [c \in Conns |-> [d \in Dirs |-> 0]]
  /\ srcDone = [c \in Conns |-> [d \in Dirs |-> FALSE]]
  /\ sinkDone = [c \in Conns |-> [d \in Dirs |-> FALSE]]
  /\ shut = [c \in Conns |-> [d \in Dirs |-> FALSE]]
  /\ sent = [c \in Conns |-> [d \in Dirs |-> 0]]
  /\ got = [c \in Conns |-> [d \in Dirs |-> 0]]

Go(c, to) == pc' = [pc EXCEPT ![c] = to]

-----------------------------------------------------------------------------
(* Names and addresses.                                                    *)

(* HostPattern.matches(): a wildcard covers exactly one label.             *)
Covers(p, host) == (IF p.wildcard THEN Tail(host) ELSE host) = p.labels

(* Allowlist.matches(): name and port are one grant.                       *)
Granted(t) == \E e \in Allow : e.port = t.port /\ Covers(e, t.host)

(* The addresses an answer holds for some names, in its order.             *)
AddressesOf(records, names) ==
  LET upTo[i \in 0..Len(records)] ==
        IF i = 0 THEN <<>>
        ELSE IF records[i].kind = "addr" /\ records[i].owner \in names
        THEN Append(upTo[i - 1], records[i].to)
        ELSE upTo[i - 1]
  IN  upTo[Len(records)]

(* The first CNAME of a name: <<>> or <<the name it stands for>>.          *)
Alias(records, name) ==
  LET of == {i \in 1..Len(records) : records[i].kind = "cname" /\ records[i].owner = name}
  IN  IF of = {} THEN <<>> ELSE <<records[CHOOSE i \in of : \A j \in of : i <= j].to>>

(* Mutant: every address of an answer is taken, whoever owns it.           *)
ChainAll(name, records) == AddressesOf(records, {records[i].owner : i \in 1..Len(records)})

(* chain(): the addresses of the first name with any, from the one asked   *)
(* about along the first CNAME of each, MAX_CNAMES names at most.          *)
Hops(name, records) ==
  LET hop[k \in 0..MaxCnames] ==
        IF k = 0 THEN <<name>> ELSE IF hop[k - 1] = <<>> THEN <<>> ELSE Alias(records, hop[k - 1][1])
  IN  hop
Chain(name, records) ==
  LET hop == Hops(name, records)
      with == {k \in 0..(MaxCnames - 1) : hop[k] # <<>> /\ AddressesOf(records, {hop[k][1]}) # <<>>}
  IN  IF with = {} THEN <<>>
      ELSE AddressesOf(records, {hop[CHOOSE k \in with : \A j \in with : k <= j][1]})

(* checked(): the id and the question are the ones asked, and the answer   *)
(* is one, be it "no such name".                                           *)
Checked(a) == a.ours /\ a.rcode \in {0, 3}

-----------------------------------------------------------------------------
(* serve(), the accepting thread, which also writes the 503s: as long as   *)
(* one is being written nothing is accepted.                               *)
Accepting(c) ==
  /\ pc[c] = "queued"
  /\ \A d \in Conns : pc[d] # "turned" /\ (pc[d] = "queued" => c <= d)

(* A spawn that fails drops the closure, and with it the slot it took.     *)
Accept(c) ==
  /\ Accepting(c)
  /\ \/ live >= MaxTunnels /\ Go(c, "turned") /\ UNCHANGED live
     \/ live < MaxTunnels /\ Go(c, "request") /\ live' = live + 1
     \/ live < MaxTunnels /\ Go(c, "done") /\ UNCHANGED live
  /\ UNCHANGED <<status, request, buffered, dial, tunnel>>

TurnAway(c) ==
  /\ pc[c] = "turned"
  /\ Go(c, "done")
  /\ UNCHANGED <<live, status, request, buffered, dial, tunnel>>

-----------------------------------------------------------------------------
(* tunnel(), one thread per connection.                                    *)
RefuseWith(c, s) == Go(c, "refuse") /\ status' = [status EXCEPT ![c] = s]

(* read_request(): the last read may bring units of the tunnel with it.    *)
ReadRequest(c) ==
  /\ pc[c] = "request"
  /\ \/ /\ wire[c] = "whole"
        /\ \E k \in 0..src[c]["out"] :
             /\ buffered' = [buffered EXCEPT ![c] = k]
             /\ src' = [src EXCEPT ![c]["out"] = @ - k]
        /\ Go(c, "judge") /\ UNCHANGED status
     \/ wire[c] = "bad" /\ RefuseWith(c, "4xx") /\ UNCHANGED <<buffered, src>>
     \/ /\ wire[c] \in {"none", "part"} /\ eof[c]["out"]
        /\ Go(c, "drop") /\ UNCHANGED <<status, buffered, src>>
  /\ UNCHANGED <<live, request, dial, eof, buf, srcDone, sinkDone, shut, sent, got>>

(* Mutant: each read has the whole deadline, so a client that keeps        *)
(* writing never meets it.                                                 *)
HeaderDeadlineEach(c) ==
  /\ pc[c] = "request" /\ wire[c] = "none"
  /\ RefuseWith(c, "408")
  /\ UNCHANGED <<live, request, buffered, dial, tunnel>>

HeaderDeadline(c) ==
  /\ pc[c] = "request"
  /\ RefuseWith(c, "408")
  /\ UNCHANGED <<live, request, buffered, dial, tunnel>>

Judge(c) ==
  /\ pc[c] = "judge"
  /\ \/ Granted(target[c]) /\ Go(c, "ask") /\ UNCHANGED status
     \/ ~Granted(target[c]) /\ RefuseWith(c, "403")
  /\ UNCHANGED <<live, request, buffered, dial, tunnel>>

(* resolve_at(): A, then AAAA; an answer to either is enough.              *)
NextQuestion(c, found, ok) ==
  /\ addrs' = [addrs EXCEPT ![c] = @ \o found]
  /\ answered' = [answered EXCEPT ![c] = @ \/ ok]
  /\ tries' = [tries EXCEPT ![c] = 0]
  /\ \/ question[c] = "A" /\ question' = [question EXCEPT ![c] = "AAAA"] /\ UNCHANGED <<pc, status>>
     \/ /\ question[c] = "AAAA" /\ UNCHANGED question
        /\ \/ answered'[c] /\ Go(c, "dial") /\ UNCHANGED status
           \/ ~answered'[c] /\ RefuseWith(c, "502")

(* ask() and once(): a try that is answered, over TCP if the datagram was  *)
(* cut short, ends the question; one that is lost or not our answer is     *)
(* followed by the next, of this resolver or of the one after it.          *)
Ask(c) ==
  /\ pc[c] = "ask"
  /\ \/ \E a, b \in Answers :
          /\ Checked(a) /\ IF a.cut THEN Checked(b) ELSE b = a
          /\ NextQuestion(c, Chain(target[c].host, b.records), TRUE)
     \/ /\ tries[c] + 1 < Attempts
        /\ tries' = [tries EXCEPT ![c] = @ + 1]
        /\ UNCHANGED <<question, answered, addrs, pc, status>>
     \/ tries[c] + 1 = Attempts /\ NextQuestion(c, <<>>, FALSE)
  /\ UNCHANGED <<live, request, buffered, late, upstream, tunnel>>

(* The budget is spent: this question and any after it fail.               *)
BudgetSpent(c) ==
  /\ pc[c] = "ask"
  /\ \/ answered[c] /\ Go(c, "dial") /\ UNCHANGED status
     \/ ~answered[c] /\ RefuseWith(c, "502")
  /\ UNCHANGED <<live, request, buffered, dial, tunnel>>

(* The locals of dial() and resolve_at() end with the dial.                *)
DialOver(c) ==
  /\ addrs' = [addrs EXCEPT ![c] = <<>>] /\ late' = [late EXCEPT ![c] = FALSE]
  /\ answered' = [answered EXCEPT ![c] = FALSE]
  /\ question' = [question EXCEPT ![c] = "A"]

(* dial(): the addresses in turn, those inside the namespace passed over.  *)
Dial(c) ==
  /\ pc[c] = "dial"
  /\ \/ /\ addrs[c] = <<>> /\ DialOver(c)
        /\ RefuseWith(c, IF late[c] THEN "504" ELSE "502") /\ UNCHANGED upstream
     \/ /\ addrs[c] # <<>> /\ Head(addrs[c]) \notin Inward /\ DialOver(c)
        /\ Go(c, "open") /\ upstream' = [upstream EXCEPT ![c] = Head(addrs[c])]
        /\ UNCHANGED status
     \/ /\ addrs[c] # <<>> /\ addrs' = [addrs EXCEPT ![c] = Tail(@)]
        /\ \/ Head(addrs[c]) \in Inward /\ UNCHANGED late
           \/ /\ Head(addrs[c]) \notin Inward   \* the connect fails or times out
              /\ late' \in {late, [late EXCEPT ![c] = TRUE]}
        /\ UNCHANGED <<pc, status, question, answered, upstream>>
  /\ UNCHANGED <<live, request, buffered, tries, tunnel>>

(* The one deadline of the dial has passed before the next address.        *)
DialDeadline(c) ==
  /\ pc[c] = "dial" /\ \E i \in 1..Len(addrs[c]) : addrs[c][i] \notin Inward
  /\ RefuseWith(c, "504") /\ DialOver(c)
  /\ UNCHANGED <<live, request, buffered, tries, upstream, tunnel>>

(* open(): the 200, then what came behind the request; either write may    *)
(* fail or meet its deadline.                                              *)
Open(c) ==
  /\ pc[c] = "open"
  /\ \/ Go(c, "drop") /\ UNCHANGED <<got, buffered>>
     \/ /\ Go(c, "relay")
        /\ got' = [got EXCEPT ![c]["out"] = @ + buffered[c]]
        /\ buffered' = [buffered EXCEPT ![c] = 0]
  /\ UNCHANGED <<live, status, request, dial, src, eof, buf, srcDone, sinkDone, shut, sent>>

(* refuse(): written or, at its deadline, not; either way it is over.      *)
Refuse(c) ==
  /\ pc[c] = "refuse"
  /\ Go(c, "drop")
  /\ UNCHANGED <<live, status, request, buffered, dial, tunnel>>

(* The thread ends: its sockets are closed and its slot is given back.     *)
Drop(c) ==
  /\ pc[c] = "drop"
  /\ Go(c, "done") /\ live' = live - 1
  /\ status' = [status EXCEPT ![c] = None] /\ wire' = [wire EXCEPT ![c] = "none"]
  /\ target' = [target EXCEPT ![c] = NoTarget]
  /\ buffered' = [buffered EXCEPT ![c] = 0]
  /\ question' = [question EXCEPT ![c] = "A"] /\ tries' = [tries EXCEPT ![c] = 0]
  /\ answered' = [answered EXCEPT ![c] = FALSE] /\ addrs' = [addrs EXCEPT ![c] = <<>>]
  /\ late' = [late EXCEPT ![c] = FALSE] /\ upstream' = [upstream EXCEPT ![c] = Nowhere]
  /\ LET none == [d \in Dirs |-> 0]
         no   == [d \in Dirs |-> FALSE]
     IN  /\ src' = [src EXCEPT ![c] = none] /\ buf' = [buf EXCEPT ![c] = none]
         /\ sent' = [sent EXCEPT ![c] = none] /\ got' = [got EXCEPT ![c] = none]
         /\ eof' = [eof EXCEPT ![c] = no] /\ shut' = [shut EXCEPT ![c] = no]
         /\ srcDone' = [srcDone EXCEPT ![c] = no] /\ sinkDone' = [sinkDone EXCEPT ![c] = no]

-----------------------------------------------------------------------------
(* relay::run().  A pass serves a direction where it was asked to, and     *)
(* what it asks of one direction nothing but that direction changes: the   *)
(* steps of a pass are taken one by one.                                   *)
InRelay(c) == pc[c] = "relay"

WantsRead(c, d)  == ~srcDone[c][d] /\ buf[c][d] = 0 /\ ~sinkDone[c][d]
WantsWrite(c, d) == buf[c][d] > 0 /\ ~sinkDone[c][d]

Least(a, b) == IF a < b THEN a ELSE b

(* Dir.read_from(): a buffer's worth, or the end of the source.            *)
ReadFrom(c, d) ==
  /\ InRelay(c) /\ WantsRead(c, d)
  /\ \/ /\ src[c][d] > 0
        /\ \E k \in 1..Least(Chunk, src[c][d]) :
             /\ buf' = [buf EXCEPT ![c][d] = k]
             /\ src' = [src EXCEPT ![c][d] = @ - k]
        /\ UNCHANGED srcDone
     \/ /\ src[c][d] = 0 /\ eof[c][d]
        /\ srcDone' = [srcDone EXCEPT ![c][d] = TRUE]
        /\ UNCHANGED <<buf, src>>
  /\ UNCHANGED <<control, request, buffered, dial, eof, sinkDone, shut, sent, got>>

(* Dir.write_to(): as much as the sink takes; one that fails ends the      *)
(* direction, what was held with it.                                       *)
WriteTo(c, d) ==
  /\ InRelay(c) /\ WantsWrite(c, d)
  /\ \/ /\ \E k \in 1..buf[c][d] :
             /\ buf' = [buf EXCEPT ![c][d] = @ - k]
             /\ got' = [got EXCEPT ![c][d] = @ + k]
        /\ UNCHANGED <<srcDone, sinkDone>>
     \/ /\ buf' = [buf EXCEPT ![c][d] = 0]
        /\ srcDone' = [srcDone EXCEPT ![c][d] = TRUE]
        /\ sinkDone' = [sinkDone EXCEPT ![c][d] = TRUE]
        /\ UNCHANGED got
  /\ UNCHANGED <<control, request, buffered, dial, src, eof, shut, sent>>

(* Mutant: the sink is shut as soon as the source has ended.               *)
CloseSinkEarly(c, d) ==
  /\ InRelay(c) /\ ~sinkDone[c][d] /\ (srcDone[c][d] \/ eof[c][d])
  /\ sinkDone' = [sinkDone EXCEPT ![c][d] = TRUE]
  /\ shut' = [shut EXCEPT ![c][d] = TRUE]
  /\ UNCHANGED <<control, request, buffered, dial, src, eof, buf, srcDone, sent, got>>

(* Dir.close_sink(): the sink's write end only, once the last unit is out. *)
CloseSink(c, d) ==
  /\ InRelay(c) /\ ~sinkDone[c][d] /\ srcDone[c][d] /\ buf[c][d] = 0
  /\ sinkDone' = [sinkDone EXCEPT ![c][d] = TRUE]
  /\ shut' = [shut EXCEPT ![c][d] = TRUE]
  /\ UNCHANGED <<control, request, buffered, dial, src, eof, buf, srcDone, sent, got>>

(* Both directions are done...                                             *)
RelayOver(c) ==
  /\ InRelay(c) /\ \A d \in Dirs : sinkDone[c][d]
  /\ Go(c, "drop")
  /\ UNCHANGED <<live, status, request, buffered, dial, tunnel>>

(* ... or nothing has moved for IDLE.                                      *)
Idle(c) ==
  /\ InRelay(c)
  /\ Go(c, "drop")
  /\ UNCHANGED <<live, status, request, buffered, dial, tunnel>>

-----------------------------------------------------------------------------
(* The application, and the host it talks to.                              *)
Connect(c) ==
  /\ pc[c] = "idle" /\ \A d \in Conns : d < c => pc[d] # "idle"
  /\ Go(c, "queued")
  /\ UNCHANGED <<live, status, request, buffered, dial, tunnel>>

(* What a client sends before it is accepted is what it sends after, for   *)
(* nothing has read it.                                                    *)
Connected(c) == pc[c] \in Threads \ {"drop"}

SendRequest(c) ==
  /\ Connected(c) /\ ~eof[c]["out"] /\ wire[c] \in {"none", "part"}
  /\ \/ \E w \in {"part", "bad"} : wire' = [wire EXCEPT ![c] = w] /\ UNCHANGED target
     \/ /\ wire' = [wire EXCEPT ![c] = "whole"]
        /\ \E t \in Targets : target' = [target EXCEPT ![c] = t]
  /\ UNCHANGED <<control, buffered, dial, tunnel>>

Talking(c, d) == IF d = "out" THEN Connected(c) /\ wire[c] = "whole" ELSE InRelay(c)

Send(c, d) ==
  /\ Talking(c, d) /\ ~eof[c][d] /\ sent[c][d] < MaxUnits
  /\ sent' = [sent EXCEPT ![c][d] = @ + 1]
  /\ src' = [src EXCEPT ![c][d] = @ + 1]
  /\ UNCHANGED <<control, request, buffered, dial, eof, buf, srcDone, sinkDone, shut, got>>

(* A source ends its half, or resets the connection and takes what is      *)
(* unread with it.                                                         *)
End(c, d) ==
  /\ IF d = "out" THEN Connected(c) \/ pc[c] = "turned" ELSE InRelay(c)
  /\ ~eof[c][d]
  /\ eof' = [eof EXCEPT ![c][d] = TRUE]
  /\ \/ UNCHANGED <<src, sent>>
     \/ /\ src' = [src EXCEPT ![c][d] = 0]
        /\ sent' = [sent EXCEPT ![c][d] = @ - src[c][d]]
  /\ UNCHANGED <<control, request, buffered, dial, buf, srcDone, sinkDone, shut, got>>

-----------------------------------------------------------------------------
Serving(c) ==
  \/ ReadRequest(c) \/ Judge(c) \/ Ask(c) \/ Dial(c) \/ Open(c) \/ Refuse(c) \/ Drop(c)
  \/ RelayOver(c)
  \/ \E d \in Dirs : ReadFrom(c, d) \/ WriteTo(c, d) \/ CloseSink(c, d)

Deadline(c) == HeaderDeadline(c) \/ BudgetSpent(c) \/ DialDeadline(c) \/ Idle(c)

Outside(c) ==
  \/ Connect(c) \/ SendRequest(c)
  \/ \E d \in Dirs : Send(c, d) \/ End(c, d)

Ended == (\A c \in Conns : pc[c] = "done") /\ UNCHANGED vars

Next == (\E c \in Conns : Accept(c) \/ TurnAway(c) \/ Serving(c) \/ Deadline(c) \/ Outside(c))
        \/ Ended

(* The threads are scheduled and the deadlines pass.  Nothing is assumed   *)
(* of the application, of the host it talks to or of the resolvers.        *)
Fairness == \A c \in Conns :
  /\ WF_vars(Accept(c)) /\ WF_vars(TurnAway(c)) /\ WF_vars(Deadline(c))
  /\ WF_vars(Judge(c)) /\ WF_vars(Dial(c)) /\ WF_vars(Open(c)) /\ WF_vars(Refuse(c))
  /\ WF_vars(Drop(c))

Spec == Init /\ [][Next]_vars
FairSpec == Spec /\ Fairness

-----------------------------------------------------------------------------
Statuses == {"4xx", "403", "408", "502", "504"}

PerDir(S) == [Conns -> [Dirs -> S]]
TypeOK ==
  /\ pc \in [Conns -> {"idle", "queued", "turned", "done"} \cup Threads]
  /\ live \in 0..MaxTunnels
  /\ status \in [Conns -> {None} \cup Statuses]
  /\ wire \in [Conns -> {"none", "part", "bad", "whole"}] /\ target \in [Conns -> Targets \cup {NoTarget}]
  /\ buffered \in [Conns -> Nat]
  /\ question \in [Conns -> {"A", "AAAA"}] /\ tries \in [Conns -> 0..(Attempts - 1)]
  /\ answered \in [Conns -> BOOLEAN] /\ late \in [Conns -> BOOLEAN]
  /\ addrs \in [Conns -> Seq(Seq(STRING))] /\ upstream \in [Conns -> Seq(STRING)]
  /\ src \in PerDir(Nat) /\ buf \in PerDir(0..Chunk) /\ sent \in PerDir(0..MaxUnits) /\ got \in PerDir(Nat)
  /\ eof \in PerDir(BOOLEAN) /\ shut \in PerDir(BOOLEAN)
  /\ srcDone \in PerDir(BOOLEAN) /\ sinkDone \in PerDir(BOOLEAN)

(* Live: a slot is taken for exactly as long as a thread serves a          *)
(* connection, whichever way it ends and whether or not it could be        *)
(* started: the limit never wears away.                                    *)
SlotsCounted == live = Cardinality({c \in Conns : pc[c] \in Threads})

(* The names an answer leads to from one: those in every set that holds it *)
(* and, with a name, all its CNAMEs.  What a resolver gives for a name is  *)
(* what an answer to us holds for any name it leads to.                    *)
Names(a, name) == {name} \cup {a.records[i].owner : i \in 1..Len(a.records)}
                         \cup {a.records[i].to : i \in 1..Len(a.records)}
Closed(a, S) ==
  \A i \in 1..Len(a.records) : a.records[i].kind = "cname" /\ a.records[i].owner \in S => a.records[i].to \in S
Leads(a, name) ==
  {n \in Names(a, name) : \A S \in SUBSET Names(a, name) : name \in S /\ Closed(a, S) => n \in S}
GivenBy(a, name) ==
  {a.records[i].to : i \in {j \in 1..Len(a.records) :
     a.records[j].kind = "addr" /\ a.records[j].owner \in Leads(a, name)}}
Vouched(name) == UNION {GivenBy(a, name) : a \in {b \in Answers : Checked(b)}}

(* Every tunnel goes where the run's configuration lets it: to an address  *)
(* outside the namespace which a resolver gave for the very name and port  *)
(* of one entry of the allowlist, a wildcard standing for one label.       *)
DialledIsGranted ==
  \A c \in Conns : upstream[c] # Nowhere =>
    /\ upstream[c] \notin Inward
    /\ upstream[c] \in Vouched(target[c].host)
    /\ \E e \in Allow :
         /\ e.port = target[c].port
         /\ \/ ~e.wildcard /\ target[c].host = e.labels
            \/ e.wildcard /\ target[c].host = <<Head(target[c].host)>> \o e.labels

(* Nothing of a tunnel is lost on the way, what came behind the request    *)
(* included, and an end is passed on only after everything before it: a    *)
(* client that has sent its last byte still has it delivered.              *)
TunnelIntact ==
  \A c \in Conns, d \in Dirs :
    InRelay(c) =>
      /\ shut[c][d] \/ ~sinkDone[c][d] => sent[c][d] = src[c][d] + buf[c][d] + got[c][d]
      /\ shut[c][d] => eof[c][d] /\ got[c][d] = sent[c][d]

(* A tunnel goes only where it may, and loses nothing on the way.          *)
TunnelTrue == DialledIsGranted /\ TunnelIntact /\ SlotsCounted

(* Each direction of each tunnel is a stream between the application and   *)
(* the host, whatever relay::run() holds, reads and shuts in between: a    *)
(* half-close of one side reaches the other only behind the data before    *)
(* it, and leaves the other direction as it is (relay.rs:178).             *)
PerStream(f) == [s \in Conns \X Dirs |-> f[s[1]][s[2]]]
EndToEnd == INSTANCE Stream WITH Streams <- Conns \X Dirs, given <- PerStream(sent),
              taken <- PerStream(got), ended <- PerStream(eof), closed <- PerStream(shut)
TunnelsAreStreams == EndToEnd!Spec

(* A slot comes back: whatever the client, the resolvers and the upstream  *)
(* do or leave undone, no thread serves a connection for ever, unless its  *)
(* tunnel never falls silent (MaxUnits).                                   *)
SlotReturned == \A c \in Conns : pc[c] \in Threads ~> pc[c] = "done"

(* The accepting thread is never held up: every connection is taken or     *)
(* turned away.                                                            *)
Taken == \A c \in Conns : pc[c] = "queued" ~> pc[c] \in Threads \cup {"done"}

(* No connection waits for ever, neither to be taken nor to be over.       *)
ServedInTime == SlotReturned /\ Taken

=============================================================================
