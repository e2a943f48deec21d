------------------------------- MODULE WlWire -------------------------------
(***************************************************************************)
(* The Wayland wire format of the proxy (wl-proxy/src/wire.rs): a header   *)
(* of an object, an opcode and a size, then arguments as the signature of  *)
(* the message says.  A byte is a number; machine order is little-endian.  *)
(* An argument is [k, v]: its kind and its bytes, <<>> for a descriptor    *)
(* (which rides outside the bytes) and Null for the null string.           *)
(***************************************************************************)
EXTENDS Naturals, Sequences, SequencesExt

CONSTANT MAX_SIZE      \* what the 16-bit size field holds

HEADER == 8
Null == <<>>
Scalars == {"int", "uint", "fixed", "object", "new_id"}

Padded(n) == ((n + 3) \div 4) * 4
Bytes(n) == <<n % 256, (n \div 256) % 256, 0, 0>>
header_encode(object, opcode, size) == object \o opcode \o <<size % 256, size \div 256>>
NeedMore == [s |-> "more", args |-> <<>>, size |-> 0]
Error == [s |-> "error", args |-> <<>>, size |-> 0]
Size(buf) == buf[7] + 256 * buf[8]
\* Header::decode: a size no message can have is an error at once.
header_decode(buf) ==
  IF Len(buf) < HEADER THEN "more" ELSE IF Size(buf) < HEADER \/ Size(buf) % 4 # 0 THEN "error" ELSE "ok"

\* A read is [ok, at, v].
Short == [ok |-> FALSE, at |-> 0, v |-> <<>>]
take_word(body, at) ==
  IF at + 4 > Len(body) THEN Short ELSE [ok |-> TRUE, at |-> at + 4, v |-> SubSeq(body, at + 1, at + 4)]
Number(w) == IF w.v[3] # 0 \/ w.v[4] # 0 THEN MAX_SIZE + 1 ELSE w.v[1] + 256 * w.v[2]
take_bytes(body, at, len) ==
  IF at + Padded(len) > Len(body) THEN Short
  ELSE [ok |-> TRUE, at |-> at + Padded(len), v |-> SubSeq(body, at + 1, at + len)]
put_bytes(bytes) == Bytes(Len(bytes)) \o bytes \o [i \in 1..(Padded(Len(bytes)) - Len(bytes)) |-> 0]

argument(body, at, kind) ==
  LET Read(r, x) == [r EXCEPT !.v = [k |-> kind, v |-> x]]
      Text(text) == CASE ~text.ok -> Short
                      [] text.ok /\ kind = "string" ->
                           IF Last(text.v) # 0 \/ 0 \in Range(Front(text.v)) THEN Short ELSE Read(text, text.v)
                      [] OTHER -> Read(text, text.v)
      Of(word) == CASE ~word.ok -> Short
                    [] word.ok /\ kind \in Scalars -> Read(word, word.v)
                    [] word.ok /\ kind = "string" /\ Number(word) = 0 -> Read(word, Null)
                    [] OTHER -> Text(take_bytes(body, word.at, Number(word)))
  IN IF kind = "fd" THEN [ok |-> TRUE, at |-> at, v |-> [k |-> kind, v |-> <<>>]] ELSE Of(take_word(body, at))
RECURSIVE arguments(_, _, _, _)
arguments(body, at, sig, acc) ==
  LET After(one) == IF one.ok THEN arguments(body, one.at, Tail(sig), Append(acc, one.v)) ELSE Short
  IN IF sig = <<>> THEN [ok |-> at = Len(body), at |-> at, v |-> acc]     \* nothing may be left over
     ELSE After(argument(body, at, sig[1]))
decode(buf, sig) ==
  LET Read(r) == IF r.ok THEN [s |-> "ok", args |-> r.v, size |-> Size(buf)] ELSE Error
      Of(head) == CASE head = "more" -> NeedMore
                    [] head = "error" -> Error
                    [] OTHER -> IF Size(buf) > Len(buf) THEN NeedMore
                                ELSE Read(arguments(SubSeq(buf, HEADER + 1, Size(buf)), 0, sig, <<>>))
  IN Of(header_decode(buf))
encode(object, opcode, args) ==
  LET Of(a) == CASE a.k = "fd" -> <<>> [] a.k \in Scalars -> a.v
                 [] a.k = "string" -> IF a.v = Null THEN Bytes(0) ELSE put_bytes(a.v)
                 [] OTHER -> put_bytes(a.v)
      Whole(body) == IF HEADER + Len(body) > MAX_SIZE THEN <<>>
                     ELSE <<header_encode(object, opcode, HEADER + Len(body)) \o body>>
  IN Whole(FlattenSeq([i \in DOMAIN args |-> Of(args[i])]))
fd_count(sig) == Len(SelectSeq(sig, LAMBDA k : k = "fd"))

-----------------------------------------------------------------------------
(* The proxy and the two ends see one message: what it decodes and encodes  *)
(* again has the same length, the same arguments and as many descriptors;   *)
(* a message is judged whole, never by a part of it, whatever follows.      *)
SameMessage(buf, sig) ==
  LET Read(b) == decode(b, sig)
      Again(read, again) ==
        /\ again # <<>> /\ Len(again[1]) = read.size
        /\ Read(again[1]) = read /\ SubSeq(again[1], 1, HEADER) = SubSeq(buf, 1, HEADER)
      Judged(read) ==
        read.s = "ok" =>
          /\ Again(read, encode(SubSeq(buf, 1, 4), SubSeq(buf, 5, 6), read.args))
          /\ fd_count(sig) = Len(SelectSeq(read.args, LAMBDA a : a.k = "fd"))
          /\ \A n \in 0..(read.size - 1) : Read(SubSeq(buf, 1, n)) = NeedMore
          /\ Read(buf \o <<1>>) = read
  IN Judged(Read(buf))

(* What a message is meant to say is what the other end reads.              *)
SaidIsRead(args) ==
  LET Sent(sent) == sent # <<>> => decode(sent[1], [i \in DOMAIN args |-> args[i].k]).args = args
  IN Sent(encode(<<7, 0, 0, 0>>, <<1, 0>>, args))
=============================================================================
