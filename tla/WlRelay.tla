------------------------------- MODULE WlRelay -------------------------------
(***************************************************************************)
(* The carrying half of bubbler-wl-proxy (relay.rs): one thread, one poll  *)
(* loop, any number of connections, each a client, the upstream connection *)
(* opened for it, and a queue in either direction.                         *)
(*                                                                         *)
(* A message is its number on its side and is Size units long; it owns one *)
(* descriptor, which bears the message's number.  What the policy says of  *)
(* a message is any verdict here: WlPolicy is where verdicts come from.    *)
(***************************************************************************)
EXTENDS WlPolicy, SequencesExt, FiniteSetsExt

CONSTANTS Conns,          \* clients that may ever connect
          Says,           \* Says[c][s]: messages that peer may send
          MaxConnections, MaxQueue, MaxTotal, MaxFds,
          MaxBatch,       \* bound: units one recvmsg brings
          Cap,            \* units a peer's socket holds unread
          Shortages       \* bound: failing accepts and dials

ASSUME RelayAssumption ==
  MaxQueue \in Nat \ {0} /\ MaxBatch \in Nat \ {0} /\ Cap \in Nat

Sides == {"client", "server"}
Other(s) == IF s = "client" THEN "server" ELSE "client"
Size == 2                 \* units of one message: a header and a body

VARIABLES
  phase,     \* "idle", "queued" at the listener, "open", "gone"
  side,      \* Side: [buf, next, fds, out, eof]
  closing, broken,
  peer,      \* the far end: [sent, in, sock, shut, gone, clean], a batch of in
             \* [units, fds, from]; from, its first unit's place, is history
  pc,        \* where step() is: "poll", "serve", "reap", "accept"
  ready,     \* revents, as the sides they wake
  waiting,   \* the listener is readable
  dead, todo,
  backoff, short

rvars == <<phase, side, closing, broken, peer, pc, ready, waiting, dead, todo,
           backoff, short>>

Open == {c \in Conns : phase[c] = "open"}

NewSide == [buf |-> 0, next |-> 1, fds |-> << >>, out |-> << >>, eof |-> FALSE]
NewPeer == [sent |-> 0, in |-> << >>, sock |-> << >>,
            shut |-> FALSE, gone |-> FALSE, clean |-> TRUE]

RelayInit ==
  /\ phase = [c \in Conns |-> "idle"]
  /\ side = [c \in Conns |-> [s \in Sides |-> NewSide]]
  /\ closing = [c \in Conns |-> FALSE]
  /\ broken = [c \in Conns |-> FALSE]
  /\ peer = [c \in Conns |-> [s \in Sides |-> NewPeer]]
  /\ pc = "poll" /\ ready = {} /\ waiting = FALSE /\ dead = {} /\ todo = {}
  /\ backoff = FALSE /\ short = 0

-----------------------------------------------------------------------------
(* One side's queue.  A frame's descriptors ride with the first unit of it *)
(* that is written (flush); a frame cut short keeps none.                  *)

Unit(out, i) ==
  LET u == out[1].off + i - 1
      f == out[u \div Size + 1]
  IN  [m |-> f.m, part |-> (u % Size) + 1,
       fds |-> IF u % Size = f.off THEN f.fds ELSE << >>]

Bytes(out) == IF out = << >> THEN 0 ELSE Size * Len(out) - out[1].off

RestKeeps(out, k) ==
  LET u == k + out[1].off
      r == SubSeq(out, u \div Size + 1, Len(out))
  IN  IF r = << >> \/ u % Size = 0 THEN r ELSE [r EXCEPT ![1].off = u % Size]

Rest(out, k) ==
  LET u == k + out[1].off
      r == SubSeq(out, u \div Size + 1, Len(out))
  IN  IF r = << >> \/ u % Size = 0 THEN r
      ELSE [r EXCEPT ![1] = [m |-> @.m, off |-> u % Size, fds |-> << >>]]

(* What the side and its peer are after a flush; a write to a peer that has *)
(* gone is an error and moves nothing.                                      *)
Sent(sd, p) == Min({Cap - Len(p.sock), Bytes(sd.out)})
Flushed(sd, p) ==
  IF sd.out = << >> \/ p.gone THEN sd
  ELSE [sd EXCEPT !.out = Rest(@, Sent(sd, p))]
Taken(sd, p) ==
  IF sd.out = << >> \/ p.gone THEN p
  ELSE [p EXCEPT !.sock = @ \o [i \in 1 .. Sent(sd, p) |-> Unit(sd.out, i)]]

-----------------------------------------------------------------------------
(* Conn::flags, and what poll reports. *)

WantsIn(c, s) == /\ ~closing[c] /\ ~side[c][s].eof
                 /\ Bytes(side[c][Other(s)].out) < MaxQueue
WantsOut(c, s) == side[c][s].out # << >>
Polled(c, s) == WantsIn(c, s) \/ WantsOut(c, s)

Woken(c, s) ==
  /\ Polled(c, s)
  /\ \/ peer[c][s].gone
     \/ WantsIn(c, s) /\ (peer[c][s].in # << >> \/ peer[c][s].shut)
Writable(c, s) ==
  WantsOut(c, s) /\ (peer[c][s].gone \/ Len(peer[c][s].sock) < Cap)

Listening == Cardinality(Open) < MaxConnections /\ ~backoff
Pending == \E c \in Conns : phase[c] = "queued"

Returns ==
  \/ backoff
  \/ Listening /\ Pending
  \/ \E c \in Open, s \in Sides : Woken(c, s) \/ Writable(c, s)
  \/ ~Listening /\ \A c \in Open, s \in Sides : ~Polled(c, s)

Poll ==
  /\ pc = "poll" /\ Returns
  /\ backoff' = FALSE
  /\ waiting' = (Listening /\ Pending)
  /\ ready' = {cs \in Open \X Sides : Woken(cs[1], cs[2])}
  /\ todo' = Open
  /\ pc' = "serve"
  /\ UNCHANGED <<phase, side, closing, broken, peer, dead, short>>

-----------------------------------------------------------------------------
(* Conn::pump: one recvmsg, then every whole message it completes.  A       *)
(* ruling says which of them go on, in order, which is the last one looked  *)
(* at, and how that one ends it: the first that is refused or makes no      *)
(* sense, a message without its descriptor among them.                      *)

Received(sd, p) ==
  IF p.in = << >> THEN [sd EXCEPT !.eof = TRUE]
  ELSE [sd EXCEPT !.buf = @ + Head(p.in).units, !.fds = @ \o Head(p.in).fds]
Drained(p) == IF p.in = << >> THEN p ELSE [p EXCEPT !.in = Tail(@)]

Whole(sd) == sd.buf \div Size
Rising(n) == {k \in UNION {[1 .. m -> 1 .. n] : m \in 0 .. n} :
                \A i, j \in DOMAIN k : i < j => k[i] < k[j]}
Rulings(sd, s) ==
  {r \in [last : 1 .. Whole(sd) + 1, how : {"all", "refuse", "fault"}, on : Rising(Whole(sd))] :
     /\ \A i \in DOMAIN r.on : r.on[i] < r.last
     /\ r.how = "all" <=> r.last > Whole(sd)
     /\ r.last - 1 <= Len(sd.fds)
     /\ r.how = "refuse" => s = "client" /\ r.last <= Len(sd.fds)}
NoRuling == [last |-> 1, how |-> "all", on |-> << >>]

Faulty(sd, r) == Len(sd.fds) > MaxFds \/ r.how = "fault"
Refused(sd, r) == ~Faulty(sd, r) /\ r.how = "refuse"
Frames(sd, r) ==
  [j \in DOMAIN r.on |-> [m |-> sd.next + r.on[j] - 1, off |-> 0, fds |-> <<sd.fds[r.on[j]]>>]]
ErrorFrame == [m |-> 0, off |-> 0, fds |-> << >>]

(* How many messages the pump is done with, and what is left of its side.  *)
Looked(sd, r) == IF Refused(sd, r) THEN r.last ELSE Whole(sd)
Left(sd, r) ==
  [sd EXCEPT !.buf = @ - Size * Looked(sd, r), !.next = @ + Looked(sd, r),
             !.fds = SubSeq(@, Looked(sd, r) + 1, Len(@)),
             !.out = IF Refused(sd, r) THEN Append(@, ErrorFrame) ELSE @]

(* Conn state after a pump: both sides, the peer, closing and whether it failed. *)
Pumped(conn, s, r) ==
  LET sd == Received(conn.side[s], conn.peer[s])
      dst == [conn.side[Other(s)] EXCEPT !.out = @ \o Frames(sd, r)]
  IN  [side |-> [x \in Sides |-> IF x = s THEN Left(sd, r) ELSE dst],
       peer |-> [conn.peer EXCEPT ![s] = Drained(@)],
       closing |-> Refused(sd, r),
       fault |-> Faulty(sd, r)]

(* The pump of one side, if poll woke it, it has not ended and the client *)
(* has not been refused.                                                  *)
Step(conn, c, s, r) ==
  IF /\ <<c, s>> \in ready
     /\ ~conn.fault /\ ~conn.closing /\ ~conn.side[s].eof
  THEN Pumped(conn, s, r) ELSE conn

FinishedLate(sd, cl, br) ==
  \/ br
  \/ cl /\ sd["client"].out = << >>
  \/ sd["client"].eof /\ sd["server"].eof
     /\ sd["server"].out = << >> /\ sd["client"].out = << >>

Finished(sd, cl, br) ==
  \/ br
  \/ cl /\ sd["client"].out = << >>
  \/ sd["client"].eof /\ sd["server"].out = << >> /\ sd["client"].out = << >>
  \/ sd["server"].eof /\ sd["client"].out = << >>

(* Conn::service, for each connection there was at the poll: the client's  *)
(* pump, the server's, and a flush of both.                                *)
Verdicts(c, s) == IF <<c, s>> \in ready THEN Rulings(Received(side[c][s], peer[c][s]), s)
                  ELSE {NoRuling}
Before(c) == [side |-> side[c], peer |-> peer[c], closing |-> closing[c], fault |-> FALSE]
Turned(c, rc) == Step(Before(c), c, "client", rc)
Served(c, rc, rs) == Step(Turned(c, rc), c, "server", rs)
Fails(conn) == \E s \in Sides : conn.side[s].out # << >> /\ conn.peer[s].gone

Settle(c, end) ==
  LET sd == [s \in Sides |-> Flushed(end.side[s], end.peer[s])]
      p == [s \in Sides |-> Taken(end.side[s], end.peer[s])]
  IN  /\ side' = [side EXCEPT ![c] = IF end.fault THEN end.side ELSE sd]
      /\ peer' = [peer EXCEPT ![c] = IF end.fault THEN end.peer ELSE p]
      /\ closing' = [closing EXCEPT ![c] = end.closing]
      /\ broken' = [broken EXCEPT ![c] = ~end.fault /\ Fails(end)]
      /\ dead' = IF end.fault \/ Finished(sd, end.closing, Fails(end))
                 THEN dead \cup {c} ELSE dead
Serve ==
  /\ pc = "serve"
  /\ \E c \in todo : /\ todo' = todo \ {c}
                     /\ \E rc \in Verdicts(c, "client"), rs \in Verdicts(c, "server") :
                          Settle(c, Served(c, rc, rs))
  /\ UNCHANGED <<phase, pc, ready, waiting, backoff, short>>

-----------------------------------------------------------------------------
(* The rest of Relay::step: the total, and the connections that end, which *)
(* closes their sockets and all that is queued on them.                    *)

Queued(c) == Bytes(side[c]["client"].out) + Bytes(side[c]["server"].out)

Reap ==
  /\ pc = "serve" /\ todo = {}
  /\ LET live  == Open \ dead
         total == MapThenSumSet(Queued, live)
         fat   == {c \in live : \A d \in live : Queued(d) <= Queued(c)}
     IN  \E gone \in IF total > MaxTotal
                     THEN {dead \cup {c} : c \in fat} ELSE {dead} :
           /\ phase' = [c \in Conns |-> IF c \in gone THEN "gone" ELSE phase[c]]
           /\ side' = [c \in Conns |-> IF c \in gone
                         THEN [s \in Sides |-> NewSide] ELSE side[c]]
           /\ peer' = [c \in Conns |-> IF c \in gone
                         THEN [s \in Sides |-> NewPeer] ELSE peer[c]]
           /\ closing' = [c \in Conns |-> c \notin gone /\ closing[c]]
           /\ broken' = [c \in Conns |-> c \notin gone /\ broken[c]]
  /\ dead' = {} /\ ready' = {}
  /\ pc' = IF waiting THEN "accept" ELSE "poll"
  /\ UNCHANGED <<waiting, todo, backoff, short>>

(* Relay::accept, one connection of its loop. *)
AcceptDone ==
  /\ pc = "accept"
  /\ ~Pending \/ Cardinality(Open) >= MaxConnections
  /\ pc' = "poll" /\ waiting' = FALSE
  /\ UNCHANGED <<phase, side, closing, broken, peer, ready, dead, todo,
                 backoff, short>>

Accept(c) ==
  /\ pc = "accept" /\ phase[c] = "queued"
  /\ Cardinality(Open) < MaxConnections
  /\ \/ /\ phase' = [phase EXCEPT ![c] = "open"]
        /\ UNCHANGED <<pc, waiting, backoff, short, peer>>
     \/ \* the upstream queue is full: connect answers EAGAIN and the socket
        \* is kept, unconnected
        /\ short < Shortages /\ short' = short + 1
        /\ phase' = [phase EXCEPT ![c] = "open"]
        /\ peer' = [peer EXCEPT ![c]["server"].gone = TRUE]
        /\ UNCHANGED <<pc, waiting, backoff>>
     \/ \* no upstream socket: the client is let go
        /\ short < Shortages /\ short' = short + 1
        /\ phase' = [phase EXCEPT ![c] = "gone"]
        /\ UNCHANGED <<pc, waiting, backoff, peer>>
     \/ \* out of descriptors, before the accept or at the dial
        /\ short < Shortages /\ short' = short + 1
        /\ phase' \in {phase, [phase EXCEPT ![c] = "gone"]}
        /\ backoff' = TRUE
        /\ pc' = "poll" /\ waiting' = FALSE
        /\ UNCHANGED peer
  /\ UNCHANGED <<side, closing, broken, ready, dead, todo>>

-----------------------------------------------------------------------------
(* The peers.  A peer sends any part of its stream at a time, with the      *)
(* descriptors of the messages that begin in it or, once, with one too many *)
(* or none; it reads or not, shuts its writing side, and goes.              *)

Connect(c) ==
  /\ phase[c] = "idle"
  /\ phase' = [phase EXCEPT ![c] = "queued"]
  /\ UNCHANGED <<side, closing, broken, peer, pc, ready, waiting, dead, todo,
                 backoff, short>>

Talks(c, s) == phase[c] = "open" /\ ~peer[c][s].shut /\ ~peer[c][s].gone

\* Messages of which a unit is among the first so many, and their numbers.
Begun(units) == (units + Size - 1) \div Size
Numbered(a, b) == [i \in 1 .. b - a |-> a + i]
PeerSends(c, s) ==
  /\ Talks(c, s)
  /\ \E k \in 1 .. MaxBatch :
       LET p == peer[c][s]
           begun == Numbered(Begun(p.sent), Begun(p.sent + k))
       IN  /\ p.sent + k <= Size * Says[c][s]
           /\ \E f \in IF p.clean /\ s = "client" THEN {begun, begun \o <<0>>, << >>}
                       ELSE {begun} :
                peer' = [peer EXCEPT ![c][s] =
                  [p EXCEPT !.sent = @ + k, !.clean = @ /\ f = begun,
                            !.in = Append(@, [units |-> k, fds |-> f, from |-> p.sent])]]
  /\ UNCHANGED <<phase, side, closing, broken, pc, ready, waiting, dead, todo,
                 backoff, short>>

PeerReads(c, s) ==
  /\ phase[c] = "open" /\ ~peer[c][s].gone /\ peer[c][s].sock # << >>
  /\ peer' = [peer EXCEPT ![c][s].sock = << >>]
  /\ UNCHANGED <<phase, side, closing, broken, pc, ready, waiting, dead, todo,
                 backoff, short>>

PeerShuts(c, s) ==
  /\ s = "client" /\ Talks(c, s)
  /\ peer' = [peer EXCEPT ![c][s].shut = TRUE]
  /\ UNCHANGED <<phase, side, closing, broken, pc, ready, waiting, dead, todo,
                 backoff, short>>

PeerGoes(c, s) ==
  /\ phase[c] = "open" /\ ~peer[c][s].gone
  /\ peer' = [peer EXCEPT ![c][s].gone = TRUE, ![c][s].sock = << >>]
  /\ UNCHANGED <<phase, side, closing, broken, pc, ready, waiting, dead, todo,
                 backoff, short>>

Loop == Poll \/ Serve \/ Reap \/ AcceptDone \/ \E c \in Conns : Accept(c)
Peers == \E c \in Conns : \/ Connect(c)
                          \/ \E s \in Sides :
                               \/ PeerSends(c, s) \/ PeerReads(c, s)
                               \/ PeerShuts(c, s) \/ PeerGoes(c, s)
RelayNext == Loop \/ Peers

(* The loop is a thread of its own; the compositor keeps reading.  Nothing  *)
(* is assumed of a client.  The first conjunct is WF_rvars(Loop), with what *)
(* enables the loop and what tells its steps from a peer's written out.     *)
LoopEnabled == pc # "poll" \/ Returns
LoopSteps == \/ pc' # pc \/ todo' # todo
             \/ \E c \in Conns : phase[c] = "queued" /\ phase'[c] # "queued"
RelayFairness == /\ []<>~LoopEnabled \/ []<><<LoopSteps>>_rvars
                 /\ \A c \in Conns : WF_rvars(PeerReads(c, "server"))
RelaySpec == RelayInit /\ [][RelayNext]_rvars /\ RelayFairness

-----------------------------------------------------------------------------
(* A descriptor reaches the peer with the first unit of the message that   *)
(* owns it and with no other, whatever was dropped in between and however  *)
(* the message was cut up, as long as its sender attached it (pump, flush).*)
DescriptorsRide ==
  \A c \in Open, s \in Sides : peer[c][Other(s)].clean =>
    \A i \in DOMAIN peer[c][s].sock :
      LET u == peer[c][s].sock[i]
      IN  u.fds = IF u.part = 1 /\ u.m > 0 THEN <<u.m>> ELSE << >>

(* What the proxy holds for one direction stays within MaxQueue and the     *)
(* messages one batch completes, a refusal on top, though neither peer ever reads  *)
(* (Conn::flags).                                                           *)
QueueBounded ==
  \A c \in Open \ dead, s \in Sides :
    Bytes(side[c][s].out) <= MaxQueue - 1 + Size * ((Size - 1 + MaxBatch) \div Size)
                             + (IF closing[c] /\ s = "client" THEN Size ELSE 0)

(* A connection whose client has gone ends, what the client asked for last *)
(* delivered or not (Conn::finished).                                      *)
GoneEnds == \A c \in Conns : (phase[c] = "open" /\ peer[c]["client"].gone)
                               ~> (phase[c] = "gone")

(* A client at the listener is taken, or the proxy is full: a shortage of   *)
(* descriptors passes (Relay::wait_for_descriptors).                        *)
Admitted == \A c \in Conns :
  (phase[c] = "queued")
    ~> (phase[c] # "queued" \/ Cardinality(Open) = MaxConnections)

(* When the peers fall silent the loop comes to rest in poll: no descriptor *)
(* keeps waking it for nothing (step, the comment on POLLHUP).              *)
Rests == <>[](pc = "poll" /\ ~Returns)

(* Every byte of a message and its descriptors stay together, and what is   *)
(* held for a peer that does not read stays bounded (Conn).                 *)
RelayKept == DescriptorsRide /\ QueueBounded

(* What must eventually happen: clients are taken, the connections of those *)
(* that left end, and a loop with nothing to do stops turning (Relay).      *)
RelayRests == Admitted /\ GoneEnds /\ Rests

-----------------------------------------------------------------------------
(* The two halves of bubbler-wl-proxy side by side, for TLC: a behaviour is  *)
(* one of the policy between a client and a compositor, or one of the relay  *)
(* with any verdict for every message.  Neither half reads a variable of the *)
(* other.                                                                    *)
VARIABLE half

MCGlobals == [d |-> [iface |-> "device", version |-> 2],
              s |-> [iface |-> "secret", version |-> 1]]
MCTable == [device |-> 1, offer |-> 1, callback |-> 1, secret |-> 1]
MCSays == [c \in Conns |-> [client |-> 2, server |-> 1]]

ProxyInit == /\ half \in {"policy", "relay"} /\ PolicyInit /\ RelayInit
             /\ half = "relay" => client.honest
ProxyNext == /\ UNCHANGED half
             /\ \/ half = "policy" /\ PolicyNext /\ UNCHANGED rvars
                \/ half = "relay" /\ RelayNext /\ UNCHANGED pvars
ProxySpec == ProxyInit /\ [][ProxyNext]_<<half, pvars, rvars>> /\ RelayFairness
=============================================================================
