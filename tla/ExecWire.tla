------------------------------ MODULE ExecWire ------------------------------
(***************************************************************************)
(* The exec channel between bubbler and the supervisor (init/src/wire.rs,  *)
(* proto.rs): a length that carries the three descriptors, then the        *)
(* request; read in pieces on a connection that never blocks.  A byte is a *)
(* number.  What the client means is `meant`; what its socket still has is *)
(* `stream` (a byte with the descriptors that ride on it), `given` of it   *)
(* already with the kernel of this side.                                   *)
(***************************************************************************)
EXTENDS Naturals, Sequences, SequencesExt, FiniteSets

CONSTANTS MAX_REQUEST, Requests, Clients, CHUNK

REQUEST_FDS == 3
PREFIX == 4
FLAG_CTTY == 1

U32(n) == <<n % 256, n \div 256, 0, 0>>
Count(b) == IF b[3] # 0 \/ b[4] # 0 THEN MAX_REQUEST + 1 ELSE b[1] + 256 * b[2]
encode_request(r) ==
  U32(r.flags) \o U32(Len(r.argv)) \o FlattenSeq([i \in DOMAIN r.argv |-> U32(Len(r.argv[i])) \o r.argv[i]])
\* <<>> or <<request>>; every byte is accounted for.
RECURSIVE arguments(_, _, _, _)
arguments(buf, pos, argc, acc) ==
  LET len == Count(SubSeq(buf, pos + 1, pos + 4))
  IN IF argc = 0 THEN IF pos = Len(buf) THEN <<acc>> ELSE <<>>
     ELSE IF pos + 4 > Len(buf) THEN <<>> ELSE IF pos + 4 + len > Len(buf) THEN <<>>
     ELSE arguments(buf, pos + 4 + len, argc - 1, Append(acc, SubSeq(buf, pos + 5, pos + 4 + len)))
decode_request(buf) ==
  LET flags == SubSeq(buf, 1, 4)
      argc == Count(SubSeq(buf, 5, 8))
      argv == arguments(buf, 8, argc, <<>>)
  IN IF Len(buf) > MAX_REQUEST \/ Len(buf) < 8 THEN <<>>
     ELSE IF flags \notin {U32(0), U32(FLAG_CTTY)} \/ argc = 0 \/ argc > MAX_REQUEST \div 4 \/ argv = <<>> THEN <<>>
     ELSE <<[flags |-> Count(flags), argv |-> argv[1]]>>

\* send_request(): the length and the descriptors in one message, then the
\* payload.  Another client may do otherwise: `how` is honest, or one fault.
Sent(r, how) ==
  LET body == encode_request(r)
      payload == IF how = "longer" THEN body \o <<0>> ELSE IF how = "cut" THEN Front(body) ELSE body
      len == IF how = "huge" THEN MAX_REQUEST + 1 ELSE Len(body)
      fds == IF how = "fewer" THEN 2 ELSE REQUEST_FDS
      bytes == U32(len) \o payload
  IN [i \in DOMAIN bytes |->
        [b |-> bytes[i],
         fds |-> IF how = "late" THEN IF i = 2 THEN {1, 2, 3} ELSE {} ELSE IF i = 1 THEN 1..fds ELSE {}]]

VARIABLES
  meant, how,       \* what the client sends
  stream, given, eof,
  prefix, want, payload, fds,   \* Incoming
  verdict           \* "reading", "dropped" or "whole", and the request
wirevars == <<meant, how, stream, given, eof, prefix, want, payload, fds, verdict>>

WireInit ==
  /\ meant \in Requests /\ how \in Clients
  /\ stream = Sent(meant, how) /\ given = 0 /\ eof = FALSE
  /\ prefix = <<>> /\ want = <<>> /\ payload = <<>> /\ fds = {} /\ verdict = <<"reading">>

Drop == verdict' = <<"dropped">> /\ UNCHANGED <<prefix, want, payload, fds, stream, given>>
Take(n) == stream' = SubSeq(stream, n + 1, Len(stream)) /\ given' = given - n
Bytes(n) == [i \in 1..n |-> stream[i].b]
Prefix(n) ==
  LET all == prefix \o Bytes(n)
      have == fds \cup UNION {stream[i].fds : i \in 1..n}
  IN /\ Take(n) /\ prefix' = all /\ fds' = have
     /\ IF Len(all) < PREFIX THEN UNCHANGED <<want, verdict>>
        ELSE IF Cardinality(have) # REQUEST_FDS \/ Count(all) > MAX_REQUEST
        THEN verdict' = <<"dropped">> /\ UNCHANGED want
        ELSE want' = <<Count(all)>> /\ UNCHANGED verdict
     /\ UNCHANGED payload
\* The payload, never past its end; descriptors on it are lost.
Payload(n) ==
  /\ Take(n) /\ payload' = payload \o Bytes(n)
  /\ UNCHANGED <<prefix, want, fds, verdict>>
Least(a, b) == IF a < b THEN a ELSE b
\* read_step(): one read of the loop; a read that would block ends it.
ReadStep ==
  /\ verdict = <<"reading">>
  /\ IF want # <<>> /\ Len(payload) >= (IF want = <<>> THEN 0 ELSE want[1])
     THEN /\ verdict' = IF decode_request(payload) = <<>> THEN <<"dropped">>
                        ELSE <<"whole", decode_request(payload)[1], fds>>
          /\ UNCHANGED <<prefix, want, payload, fds, stream, given>>
     ELSE \/ given = 0 /\ eof /\ stream = <<>> /\ Drop
          \/ /\ given > 0 /\ want = <<>>
             /\ \E n \in 1..Least(given, PREFIX - Len(prefix)) : Prefix(n)
          \/ /\ given > 0 /\ want # <<>>
             /\ \E n \in 1..Least(Least(given, CHUNK), want[1] - Len(payload)) : Payload(n)
  /\ UNCHANGED <<meant, how, eof>>
\* The kernel: more of what was sent is here; the client has closed.
Arrive ==
  /\ given < Len(stream)
  /\ given' \in {given + 1, Len(stream)}
  /\ UNCHANGED <<meant, how, stream, eof, prefix, want, payload, fds, verdict>>
Close ==
  /\ ~eof /\ eof' = TRUE
  /\ UNCHANGED <<meant, how, stream, given, prefix, want, payload, fds, verdict>>
WireNext == ReadStep \/ Arrive \/ Close

-----------------------------------------------------------------------------
\* What bubbler itself sends.
Legal(r) == r.argv # <<>> /\ r.flags \in {0, FLAG_CTTY} /\ Len(encode_request(r)) <= MAX_REQUEST

(* However the bytes arrive, a request is taken as the client meant it and  *)
(* with its own three descriptors, or not at all; an honest one is never    *)
(* dropped.                                                                 *)
Assembled ==
  /\ verdict[1] = "whole" => verdict = <<"whole", meant, 1..REQUEST_FDS>>
  /\ how \in {"honest", "late"} /\ Legal(meant) => verdict # <<"dropped">>
=============================================================================
