-------------------------------- MODULE Dns --------------------------------
(***************************************************************************)
(* The egress proxy's DNS messages (net-proxy/src/dns.rs): the question it *)
(* writes, the answer it reads.  A byte is a number, a name the bytes of   *)
(* its text.  A refusal is <<>>, whatever the error, a result <<x>>; a     *)
(* field read is <<value, next>>, offsets count from 0.                    *)
(***************************************************************************)
EXTENDS Naturals, Sequences, SequencesExt

CONSTANTS MAX_NAME, MAX_LABEL, MAX_JUMPS, MAX_RECORDS, MAX_CNAMES

TYPE_A == 1
TYPE_CNAME == 5
TYPE_AAAA == 28
CLASS_IN == 1
DOT == 46

(* ------------------------------- questions ------------------------------ *)

\* What follows a step that may refuse.
Then(x, F(_)) == IF x = <<>> THEN <<>> ELSE F(x[1])

U16(n) == <<n \div 256, n % 256>>
stripped(name) == IF name # <<>> /\ Last(name) = DOT THEN Front(name) ELSE name
lower(text) == [i \in DOMAIN text |-> IF text[i] \in 65..90 THEN text[i] + 32 ELSE text[i]]
RECURSIVE labels(_)
labels(name) ==
  LET Cut(at) == <<SubSeq(name, 1, at - 1)>> \o labels(SubSeq(name, at + 1, Len(name)))
  IN IF DOT \in Range(name) THEN Cut(Min({i \in DOMAIN name : name[i] = DOT})) ELSE <<name>>
encode_name(name) ==
  LET Wire(text, parts) ==
        IF text = <<>> \/ Len(text) > MAX_NAME \/ \E i \in DOMAIN parts : Len(parts[i]) \notin 1..MAX_LABEL THEN <<>>
        ELSE <<FlattenSeq([i \in DOMAIN parts |-> <<Len(parts[i])>> \o parts[i]]) \o <<0>>>>
      Of(text) == Wire(text, labels(text))
  IN Of(stripped(name))
question(name, qtype, id) ==
  Then(encode_name(name), LAMBDA wire :
    <<U16(id) \o U16(256) \o U16(1) \o <<0, 0, 0, 0, 0, 0>> \o wire \o U16(qtype) \o U16(CLASS_IN)>>)

(* -------------------------------- answers ------------------------------- *)

u16(msg, at) == IF at + 2 > Len(msg) THEN <<>> ELSE <<msg[at + 1] * 256 + msg[at + 2], at + 2>>

\* A name under way: the text so far, where to read, the pointers followed,
\* and (once known) where the field ends.  A pointer leads strictly back.
Text(msg, r) == r.more /\ r.at < Len(msg) /\ msg[r.at + 1] < 64
Jump(msg, r) == r.more /\ r.at + 1 < Len(msg) /\ msg[r.at + 1] >= 192
To(msg, r) == (msg[r.at + 1] % 64) * 256 + msg[r.at + 2]
Ends(r, at) == IF r.end = <<>> THEN <<at>> ELSE r.end
Refused(r) == [r EXCEPT !.more = FALSE, !.ok = FALSE]
name_step(msg, r) ==
  LET n == msg[r.at + 1]
      label == SubSeq(msg, r.at + 2, r.at + 1 + n)
  IN CASE Text(msg, r) ->
            IF n = 0 THEN [r EXCEPT !.more = FALSE, !.end = Ends(r, r.at + 1)]
            ELSE IF r.at + 1 + n > Len(msg) \/ Len(r.out) + n + 1 > MAX_NAME THEN Refused(r)
            ELSE [r EXCEPT !.at = @ + 1 + n,
                           !.out = (IF @ = <<>> THEN @ ELSE Append(@, DOT)) \o lower(label)]
       [] Jump(msg, r) ->
            IF To(msg, r) >= r.at \/ r.jumps = MAX_JUMPS THEN Refused(r)
            ELSE [r EXCEPT !.at = To(msg, r), !.jumps = @ + 1, !.end = Ends(r, r.at + 2)]
       [] OTHER -> Refused(r)
\* Every state of the loop, the last first.
RECURSIVE walk(_, _)
walk(msg, so) == IF so[1].more THEN walk(msg, <<name_step(msg, so[1])>> \o so) ELSE so
Walk(msg, at) == walk(msg, <<[more |-> TRUE, ok |-> TRUE, out |-> <<>>, at |-> at, jumps |-> 0, end |-> <<>>]>>)
name(msg, at) == LET Read(r) == IF r.ok THEN <<r.out, r.end[1]>> ELSE <<>> IN Read(Walk(msg, at)[1])

record(msg, at) ==
  LET Rec(owner, d, end) == <<[name |-> owner, data |-> d], end>>
      Alias(owner, to, end) == IF to = <<>> THEN <<>> ELSE Rec(owner, <<"cname", to[1]>>, end)
      Data(owner, rtype, class, from, len) ==
        IF from + len > Len(msg) THEN <<>>
        ELSE CASE class = CLASS_IN /\ <<rtype, len>> \in {<<TYPE_A, 4>>, <<TYPE_AAAA, 16>>} ->
                    Rec(owner, <<"ip", SubSeq(msg, from + 1, from + len)>>, from + len)
               [] class = CLASS_IN /\ rtype = TYPE_CNAME -> Alias(owner, name(msg, from), from + len)
               [] OTHER -> Rec(owner, <<>>, from + len)
      Fields(owner, next) ==
        IF next + 10 > Len(msg) THEN <<>>
        ELSE Data(owner, u16(msg, next)[1], u16(msg, next + 2)[1], next + 10, u16(msg, next + 8)[1])
      Owned(owner) == IF owner = <<>> THEN <<>> ELSE Fields(owner[1], owner[2])
  IN Owned(name(msg, at))
RECURSIVE records(_, _, _)
records(msg, at, n) ==
  LET From(one) == IF one = <<>> THEN <<>>
                   ELSE Then(records(msg, one[2], n - 1), LAMBDA rest : <<<<one[1]>> \o rest>>)
  IN IF n = 0 THEN <<<<>>>> ELSE From(record(msg, at))

\* The addresses of the name looked up, through at most MAX_CNAMES names.
Ip(r) == Len(r.data) = 2 /\ r.data[1] = "ip"
Cname(r) == Len(r.data) = 2 /\ r.data[1] = "cname"
RECURSIVE chain(_, _, _)
chain(target, recs, hops) ==
  LET Follow(ips, next) ==
        IF ips # <<>> THEN [i \in DOMAIN ips |-> ips[i].data[2]]
        ELSE IF next = <<>> THEN <<>> ELSE chain(next[1].data[2], recs, hops - 1)
      Of(own) == Follow(SelectSeq(own, LAMBDA r : Ip(r)), SelectSeq(own, LAMBDA r : Cname(r)))
  IN IF hops = 0 THEN <<>> ELSE Of(SelectSeq(recs, LAMBDA r : r.name = target))

parse(msg) ==
  LET Reply(asked, qtype, recs) ==
        <<[id |-> u16(msg, 0)[1], truncated |-> (msg[3] \div 2) % 2 = 1, rcode |-> msg[4] % 16,
           question |-> <<asked, qtype>>, addresses |-> chain(asked, recs, MAX_CNAMES)]>>
      Held(n) == IF n < MAX_RECORDS THEN n ELSE MAX_RECORDS
      Asked(q) ==
        IF q = <<>> THEN <<>> ELSE IF q[2] + 4 > Len(msg) THEN <<>>
        ELSE IF u16(msg, q[2] + 2)[1] # CLASS_IN THEN <<>>
        ELSE Then(records(msg, q[2] + 4, Held(u16(msg, 6)[1])), LAMBDA recs : Reply(q[1], u16(msg, q[2])[1], recs))
  IN IF Len(msg) < 12 THEN <<>> ELSE IF msg[3] < 128 \/ u16(msg, 4)[1] # 1 THEN <<>>
     ELSE Asked(name(msg, 12))
checked(msg, id, host, qtype) ==
  Then(parse(msg), LAMBDA reply :
    IF reply.id = id /\ reply.rcode \in {0, 3} /\ reply.question = <<lower(stripped(host)), qtype>>
    THEN <<reply>> ELSE <<>>)

-----------------------------------------------------------------------------
(* An answer as a resolver writes it: the question back, then the records  *)
(* given ([name, type, data]), a name already written as a pointer to it   *)
(* when `short` says so (external: the resolver).                          *)
Resolver(asked, qtype, id, recs, short) ==
  LET Spelled(n) == CASE short /\ n = lower(asked) -> <<192, 12>>
                      [] short /\ n # lower(asked) /\ IsSuffix(<<DOT>> \o n, asked) -> <<192, 12 + Len(asked) - Len(n)>>
                      [] OTHER -> encode_name(n)[1]
      Rec(r, owner, data) == owner \o U16(r.type) \o U16(CLASS_IN) \o <<0, 0, 0, 9>> \o U16(Len(data)) \o data
      Written(i, spelled) ==
        Rec(recs[i], spelled[recs[i].name], IF recs[i].type = TYPE_CNAME THEN spelled[recs[i].data] ELSE recs[i].data)
      Names == {recs[i].name : i \in DOMAIN recs} \cup {recs[i].data : i \in {j \in DOMAIN recs : recs[j].type = TYPE_CNAME}}
      All(head, spelled) ==
        [head EXCEPT ![3] = 129, ![8] = Len(recs)] \o FlattenSeq([i \in DOMAIN recs |-> Written(i, spelled)])
  IN All(question(asked, qtype, id)[1], [n \in Names |-> Spelled(n)])

\* Where the names of an answer lead, the first CNAME of each.
RECURSIVE Leads(_, _, _)
Leads(from, recs, n) ==
  LET on == SelectSeq(recs, LAMBDA r : r.name = from /\ r.type = TYPE_CNAME)
  IN <<from>> \o IF n = 1 \/ on = <<>> THEN <<>> ELSE Leads(on[1].data, recs, n - 1)

(* What the resolver meant is what the proxy dials: the addresses of the    *)
(* first name on the way from the one asked that has any, however the      *)
(* answer is compressed; and an answer cut short is no answer.              *)
AnswerUnderstood(asked, qtype, recs, short) ==
  LET held == IF Len(recs) > MAX_RECORDS THEN SubSeq(recs, 1, MAX_RECORDS) ELSE recs
      Of(n) == SelectSeq(held, LAMBDA r : r.name = n /\ r.type # TYPE_CNAME)
      Addresses(on) == LET found == SelectSeq(on, LAMBDA n : Of(n) # <<>>)
                       IN IF found = <<>> THEN <<>> ELSE Of(found[1])
      Meant(first) == [i \in DOMAIN first |-> first[i].data]
      Heard(msg) == checked(msg, 7, asked, qtype)
      Right(msg, replies) ==
        /\ Len(replies[Len(msg)]) = 1
        /\ replies[Len(msg)][1].addresses = Meant(Addresses(Leads(lower(stripped(asked)), held, MAX_CNAMES)))
        /\ Len(recs) <= MAX_RECORDS => \A n \in 0..(Len(msg) - 1) : replies[n] = <<>>
      Said(msg) == Right(msg, [n \in 0..Len(msg) |-> Heard(SubSeq(msg, 1, n))])
  IN Said(Resolver(asked, qtype, 7, recs, short))

(* Whatever the bytes, a name read is one DNS allows, and the next field    *)
(* is read inside the message.                                              *)
NameBounded(msg, at) ==
  LET Within(r, steps) ==
        /\ steps <= MAX_NAME + MAX_JUMPS + 2
        /\ r # <<>> => Len(r[1]) < MAX_NAME /\ r[2] > at /\ r[2] <= Len(msg)
  IN Within(name(msg, at), Len(Walk(msg, at)))
=============================================================================
