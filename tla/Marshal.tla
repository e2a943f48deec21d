------------------------------ MODULE Marshal ------------------------------
(***************************************************************************)
(* The D-Bus wire format (dbus_wire.rs): signatures, marshalling, strict   *)
(* unmarshalling and the framing of a message.  A byte is a number; a type *)
(* code is its ASCII byte.  A value is [k, v]: the code of its kind and,   *)
(* for a fixed-width value its bytes, for text the bytes of the text, for  *)
(* a container the values in it (a dict's are <<key, value>> pairs).  A    *)
(* refusal is <<>>, whatever the error, a result <<x>>.  Text is ASCII.    *)
(***************************************************************************)
EXTENDS Naturals, Sequences, SequencesExt, FiniteSets

CONSTANTS MAX_SIGNATURE, MAX_CONTAINER_DEPTH, MAX_DEPTH, MAX_ARRAY, MAX_VALUES,
          MAX_MESSAGE, MAX_INCOMING

\* The codes: y b n q i u x t d h, s o g, v, a ( ) { }.
Width == [c \in {121, 98, 110, 113, 105, 117, 120, 116, 100, 104} |->
            CASE c = 121 -> 1 [] c \in {110, 113} -> 2 [] c \in {98, 105, 117, 104} -> 4 [] OTHER -> 8]
Y == 121
BOOL == 98
U == 117
FD == 104
S == 115
O == 111
G == 103
V == 118
A == 97
OPEN == 40
SHUT == 41
BRACE == 123
UNBRACE == 125
BYTES == 0                          \* the kind of a byte array
FIXED_HEADER == 16
PROTOCOL_VERSION == 1
LITTLE == 108
Huge == MAX_MESSAGE + MAX_ARRAY + 1 \* a length past every limit

(* ------------------------------ signatures ------------------------------ *)

\* What follows a step that may refuse.
Then(x, F(_)) == IF x = <<>> THEN <<>> ELSE F(x[1])

is_basic(ty) == ty.c \notin {A, OPEN, BRACE, V}
alignment(ty) ==
  IF ty.c \in DOMAIN Width THEN Width[ty.c]
  ELSE CASE ty.c \in {G, V} -> 1 [] ty.c \in {S, O, A} -> 4 [] OTHER -> 8

\* One single complete type at `at`: <<type, next>>.
RECURSIVE parse_type(_, _, _, _), parse_fields(_, _, _, _, _)
parse_type(s, at, arrays, structs) ==
  LET Code == IF at <= Len(s) THEN s[at] ELSE 0
      Dict == at < Len(s) /\ s[at + 1] = BRACE
      Closed(key, value) ==
        IF value = <<>> THEN <<>> ELSE IF value[2] > Len(s) \/ s[value[2]] # UNBRACE THEN <<>>
        ELSE <<[c |-> A, of |-> <<[c |-> BRACE, of |-> <<key, value[1]>>]>>], value[2] + 1>>
      Entry(key) == IF key = <<>> THEN <<>> ELSE IF ~is_basic(key[1]) THEN <<>>
                    ELSE Closed(key[1], parse_type(s, key[2], arrays + 1, structs + 1))
      ArrayOf(element) == IF element = <<>> THEN <<>> ELSE <<[c |-> A, of |-> <<element[1]>>], element[2]>>
      StructOf(fields) == IF fields = <<>> THEN <<>> ELSE IF fields[1] = <<>> THEN <<>>
                          ELSE <<[c |-> OPEN, of |-> fields[1]], fields[2]>>
  IN CASE Code \in DOMAIN Width \cup {S, O, G, V} -> <<[c |-> Code, of |-> <<>>], at + 1>>
       [] Code = A /\ Dict ->
            IF arrays < MAX_CONTAINER_DEPTH /\ structs < MAX_CONTAINER_DEPTH
            THEN Entry(parse_type(s, at + 2, arrays + 1, structs + 1)) ELSE <<>>
       [] Code = A /\ ~Dict ->
            IF arrays < MAX_CONTAINER_DEPTH THEN ArrayOf(parse_type(s, at + 1, arrays + 1, structs)) ELSE <<>>
       [] Code = OPEN ->
            IF structs < MAX_CONTAINER_DEPTH
            THEN StructOf(parse_fields(s, at + 1, arrays, structs + 1, <<>>)) ELSE <<>>
       [] OTHER -> <<>>
parse_fields(s, at, arrays, structs, acc) ==
  LET After(field) == IF field = <<>> THEN <<>>
                      ELSE parse_fields(s, field[2], arrays, structs, Append(acc, field[1]))
  IN IF at > Len(s) THEN <<>> ELSE IF s[at] = SHUT THEN <<acc, at + 1>>
     ELSE After(parse_type(s, at, arrays, structs))
RECURSIVE parse_all(_, _, _)
parse_all(s, at, acc) ==
  LET After(ty) == IF ty = <<>> THEN <<>> ELSE parse_all(s, ty[2], Append(acc, ty[1]))
  IN IF at > Len(s) THEN <<acc>> ELSE After(parse_type(s, at, 0, 0))
parse_signature(s) == IF Len(s) > MAX_SIGNATURE THEN <<>> ELSE parse_all(s, 1, <<>>)

\* "/" is 47: elements of letters, digits and "_", none of them empty.
valid_object_path(p) ==
  \/ p = <<47>>
  \/ /\ Len(p) > 1 /\ p[1] = 47 /\ Last(p) # 47
     /\ \A i \in 2..Len(p) : \/ p[i] \in (48..57) \cup (65..90) \cup (97..122) \cup {95}
                             \/ p[i] = 47 /\ p[i - 1] # 47

(* ------------------------------ marshalling ----------------------------- *)

align_up(n, align) == ((n + align - 1) \div align) * align
pad(out, align) == out \o [i \in 1..(align_up(Len(out), align) - Len(out)) |-> 0]
LE(n) == <<n % 256, (n \div 256) % 256, (n \div 65536) % 256, n \div 16777216>>
encode_str(out, text) == IF 0 \in Range(text) THEN <<>> ELSE <<out \o LE(Len(text)) \o text \o <<0>>>>
encode_signature(out, sig) == out \o <<Len(sig)>> \o sig \o <<0>>

\* The signature of a value; an empty array has no element to read it off.
RECURSIVE signature_of(_, _)
signature_of(value, depth) ==
  LET Of(x) == signature_of(x, depth + 1)
      Struct(parts) == IF \E i \in DOMAIN parts : parts[i] = <<>> THEN <<>>
                       ELSE <<<<OPEN>> \o FlattenSeq([i \in DOMAIN parts |-> parts[i][1]]) \o <<SHUT>>>>
      First(x) == IF value.k = A THEN x ELSE x[2]
  IN CASE depth > MAX_DEPTH -> <<>>
       [] depth <= MAX_DEPTH /\ value.k \in DOMAIN Width \cup {S, O, G, V} -> <<<<value.k>>>>
       [] depth <= MAX_DEPTH /\ value.k = BYTES -> <<<<A, Y>>>>
       [] depth <= MAX_DEPTH /\ value.k \in {A, BRACE} ->
            IF value.v = <<>> THEN <<>>
            ELSE Then(Of(First(value.v[1])), LAMBDA sig :
                   <<IF value.k = A THEN <<A>> \o sig ELSE <<A, BRACE, S>> \o sig \o <<UNBRACE>>>>)
       [] OTHER -> Struct([i \in DOMAIN value.v |-> Of(value.v[i])])

RECURSIVE encode_value(_, _, _, _), encode_each(_, _, _, _), encode_entries(_, _, _, _)
encode_each(out, types, values, depth) ==
  IF values = <<>> THEN <<out>>
  ELSE Then(encode_value(out, types[1], values[1], depth), LAMBDA one :
         encode_each(one, Tail(types), Tail(values), depth))
encode_entries(out, ty, entries, depth) ==
  IF entries = <<>> THEN <<out>>
  ELSE Then(encode_str(pad(out, 8), entries[1][1]), LAMBDA key :
         Then(encode_value(key, ty, entries[1][2], depth), LAMBDA one :
           encode_entries(one, ty, Tail(entries), depth)))
\* The count of the element bytes, not of the padding before the first.
encode_array(out, element, value, depth) ==
  LET Items(start) ==
        CASE element.c = Y -> IF value.k = BYTES THEN <<start \o value.v>> ELSE <<>>
          [] element.c = BRACE ->
               IF value.k = BRACE /\ element.of[1].c = S
               THEN encode_entries(start, element.of[2], value.v, depth + 1) ELSE <<>>
          [] OTHER ->
               IF value.k = A
               THEN encode_each(start, [i \in DOMAIN value.v |-> element], value.v, depth + 1) ELSE <<>>
      Counted(n, done) ==
        IF n > MAX_ARRAY THEN <<>> ELSE <<out \o LE(n) \o SubSeq(done, Len(out) + 5, Len(done))>>
      From(start) == Then(Items(start), LAMBDA done : Counted(Len(done) - Len(start), done))
  IN IF depth >= MAX_DEPTH THEN <<>> ELSE From(pad(out \o LE(0), alignment(element)))
encode_value(from, ty, value, depth) ==
  LET Variant(out) ==
        Then(signature_of(value.v[1], 0), LAMBDA inner :
          Then(parse_signature(inner), LAMBDA types :
            IF Len(types) # 1 THEN <<>>
            ELSE encode_value(encode_signature(out, inner), types[1], value.v[1], depth + 1)))
      Plain(out) ==
        CASE ty.c \in DOMAIN Width -> <<out \o value.v>>
          [] ty.c \in {S, O} -> IF ty.c = O /\ ~valid_object_path(value.v) THEN <<>> ELSE encode_str(out, value.v)
          [] ty.c = G -> IF parse_signature(value.v) = <<>> THEN <<>> ELSE <<encode_signature(out, value.v)>>
          [] ty.c = OPEN -> IF Len(ty.of) # Len(value.v) THEN <<>>
                            ELSE encode_each(out, ty.of, value.v, depth + 1)
          [] OTHER -> Variant(out)
      At(out) == CASE depth > MAX_DEPTH -> <<>>
                   [] depth <= MAX_DEPTH /\ ty.c = A -> encode_array(out, ty.of[1], value, depth)
                   [] depth <= MAX_DEPTH /\ ty.c # A -> IF ty.c # value.k THEN <<>> ELSE Plain(out)
  IN At(pad(from, alignment(ty)))
encode(sig, values) ==
  Then(parse_signature(sig), LAMBDA types :
    IF Len(types) # Len(values) THEN <<>> ELSE encode_each(<<>>, types, values, 0))

(* ----------------------------- unmarshalling ---------------------------- *)

\* A reader is [ok, at, n, v]: the bytes read, the values made, the last result.
Bad == [ok |-> FALSE, at |-> 0, n |-> 0, v |-> <<>>]
take(buf, r, n) ==
  IF ~r.ok \/ r.at + n > Len(buf) THEN Bad
  ELSE [r EXCEPT !.at = @ + n, !.v = SubSeq(buf, r.at + 1, r.at + n)]
Value(r, x) == IF r.ok THEN [r EXCEPT !.v = x] ELSE Bad
Align(buf, r, align) ==
  LET Zero(padding) == IF Range(padding.v) \subseteq {0} THEN padding ELSE Bad
  IN Zero(take(buf, r, align_up(r.at, align) - r.at))
count(r) == IF r.ok /\ r.n < MAX_VALUES THEN [r EXCEPT !.n = @ + 1] ELSE Bad
uint32(buf, r) ==
  LET Number(b) == Value(b, IF b.v[3] # 0 \/ b.v[4] # 0 THEN Huge ELSE b.v[1] + 256 * b.v[2])
  IN Number(take(buf, r, 4))
\* `len` bytes of text and the nul after them.
text(buf, len) ==
  LET Is(t, nul) ==
        IF ~nul.ok \/ 0 \in Range(t.v) \/ nul.v # <<0>> \/ (\E i \in DOMAIN t.v : t.v[i] > 127) THEN Bad
        ELSE Value(nul, t.v)
      Ended(t) == Is(t, take(buf, t, 1))
  IN Ended(take(buf, len, IF len.ok THEN len.v ELSE 0))
byte(buf, r) == LET Number(b) == Value(b, b.v[1]) IN Number(take(buf, r, 1))

RECURSIVE decode_value(_, _, _, _), decode_items(_, _, _, _, _, _), decode_fields(_, _, _, _, _)
decode_fields(buf, r, types, depth, acc) ==
  LET After(one) == decode_fields(buf, one, Tail(types), depth, Append(acc, one.v))
  IN IF ~r.ok THEN Bad ELSE IF types = <<>> THEN Value(r, acc)
     ELSE After(decode_value(buf, r, types[1], depth))
\* Elements until exactly `end`; one that ends past it is a disagreement.
decode_items(buf, r, element, end, depth, acc) ==
  LET Keyed(key, one) == decode_items(buf, one, element, end, depth, Append(acc, <<key.v, one.v>>))
      Entry(key) == Keyed(key, decode_value(buf, key, element.of[2], depth))
      Item(one) == decode_items(buf, one, element, end, depth, Append(acc, one.v))
  IN IF ~r.ok \/ r.at > end THEN Bad ELSE IF r.at = end THEN Value(r, acc)
     ELSE IF element.c = BRACE THEN Entry(text(buf, uint32(buf, Align(buf, count(r), 8))))
     ELSE Item(decode_value(buf, r, element, depth))
decode_array(buf, r, element, depth) ==
  LET Made(k, x) == Value(x, [k |-> k, v |-> x.v])
      Items(start, len) ==
        IF ~start.ok \/ start.at + len > Len(buf) THEN Bad
        ELSE IF element.c = Y THEN Made(BYTES, take(buf, start, len))
        ELSE IF element.c = BRACE /\ element.of[1].c # S THEN Bad
        ELSE Made(IF element.c = BRACE THEN BRACE ELSE A,
                  decode_items(buf, start, element, start.at + len, depth + 1, <<>>))
      Counted(len) ==
        IF ~len.ok THEN Bad ELSE IF len.v > MAX_ARRAY THEN Bad
        ELSE Items(Align(buf, len, alignment(element)), len.v)
  IN IF depth >= MAX_DEPTH THEN Bad ELSE Counted(uint32(buf, r))
decode_value(buf, from, ty, depth) ==
  LET Made(x) == Value(x, [k |-> ty.c, v |-> x.v])
      Raw(raw) == IF ty.c = BOOL /\ raw.v \notin {<<0, 0, 0, 0>>, <<1, 0, 0, 0>>} THEN Bad ELSE Made(raw)
      Str(str) == IF ty.c = O /\ ~valid_object_path(str.v) THEN Bad ELSE Made(str)
      Inside(x) == Value(x, [k |-> V, v |-> <<x.v>>])
      Typed(sig, types) ==
        IF types = <<>> THEN Bad ELSE IF ty.c = G THEN Made(sig) ELSE IF Len(types[1]) # 1 THEN Bad
        ELSE Inside(decode_value(buf, sig, types[1][1], depth + 1))
      Sig(sig) == IF ~sig.ok THEN Bad ELSE Typed(sig, parse_signature(sig.v))
      At(r) == CASE depth > MAX_DEPTH \/ ~r.ok -> Bad
                 [] ty.c \in DOMAIN Width -> Raw(take(buf, r, Width[ty.c]))
                 [] ty.c \in {S, O} -> Str(text(buf, uint32(buf, r)))
                 [] ty.c \in {G, V} -> Sig(text(buf, byte(buf, r)))
                 [] ty.c = A -> decode_array(buf, r, ty.of[1], depth)
                 [] ty.c = OPEN -> Made(decode_fields(buf, r, ty.of, depth + 1, <<>>))
                 [] OTHER -> Bad
  IN At(Align(buf, count(from), alignment(ty)))
decode(sig, body) ==
  LET All(all) == IF ~all.ok \/ all.at # Len(body) THEN <<>> ELSE <<all.v>>
  IN Then(parse_signature(sig), LAMBDA types :
       All(decode_fields(body, [ok |-> TRUE, at |-> 0, n |-> 0, v |-> <<>>], types, 0, <<>>)))

(* ------------------------------- messages ------------------------------- *)

HEADER == <<Y, Y, Y, Y, U, U, A, OPEN, Y, V, SHUT>>
encode_message(kind, flags, serial, fields, body) ==
  LET Byte(b) == [k |-> Y, v |-> <<b>>]
      Within(message) == IF Len(message) > MAX_MESSAGE THEN <<>> ELSE <<message>>
  IN Then(encode(HEADER,
            <<Byte(LITTLE), Byte(kind), Byte(flags), Byte(PROTOCOL_VERSION), [k |-> U, v |-> LE(Len(body))],
              [k |-> U, v |-> LE(serial)],
              [k |-> A, v |-> [i \in DOMAIN fields |->
                 [k |-> OPEN, v |-> <<Byte(fields[i][1]), [k |-> V, v |-> <<fields[i][2]>>]>>]]]>>),
          LAMBDA head : Within(pad(head, 8) \o body))
\* Mutant: the body alone is measured.
fits_alone(at, len) == len <= MAX_INCOMING
fits(at, len) == len <= MAX_INCOMING /\ at + len <= MAX_INCOMING
\* Where the body begins and how long it is, from the first 16 bytes.
frame(head) ==
  LET At(i) == uint32(head, [ok |-> TRUE, at |-> i, n |-> 0, v |-> <<>>]).v
      Body(at, len, fields) ==
        IF fields > MAX_ARRAY \/ ~fits(at, len) THEN <<>>
        ELSE <<[body_at |-> at, body_len |-> len]>>
      Fields(n) == Body(align_up(FIXED_HEADER + n, 8), At(4), n)
  IN IF Len(head) < FIXED_HEADER THEN <<>>
     ELSE IF head[1] # LITTLE \/ head[4] # PROTOCOL_VERSION THEN <<>> ELSE Fields(At(12))
\* The fields of a header, PATH to UNIX_FDS, each of its own type.
FieldKind == <<O, S, S, S, U, S, S, G, U>>
FIELD_SIGNATURE == 8
Agreed(fields) ==
  /\ \A i \in DOMAIN fields : fields[i][1] \in DOMAIN FieldKind => fields[i][2].k = FieldKind[fields[i][1]]
  /\ \A i, j \in DOMAIN fields : i # j => fields[i][1] # fields[j][1]
Signed(fields) == \E i \in DOMAIN fields : fields[i][1] = FIELD_SIGNATURE /\ fields[i][2].v # <<>>
decode_message(message) ==
  LET Field(pair) == <<pair.v[1].v[1], pair.v[2].v[1]>>
      Whole(f, end, kind, fields) ==
        IF \/ f.body_at + f.body_len > Len(message)
           \/ ~(Range(SubSeq(message, end + 1, f.body_at)) \subseteq {0})
           \/ ~Agreed(fields) \/ (f.body_len > 0 /\ ~Signed(fields))
        THEN <<>>
        ELSE <<[kind |-> kind, fields |-> fields, body |-> SubSeq(message, f.body_at + 1, f.body_at + f.body_len)]>>
      Header(f, end) ==
        IF end > Len(message) THEN <<>>
        ELSE Then(decode(HEADER, SubSeq(message, 1, end)), LAMBDA values :
               Whole(f, end, values[2].v[1], [i \in DOMAIN values[7].v |-> Field(values[7].v[i])]))
  IN Then(frame(message), LAMBDA f :
       Header(f, FIXED_HEADER + uint32(message, [ok |-> TRUE, at |-> 12, n |-> 0, v |-> <<>>]).v))
\* A body may name only the descriptors its call was given.
RECURSIVE check_fd_indices(_, _)
check_fd_indices(value, n) ==
  CASE value.k = FD -> value.v[1] < n /\ value.v[2] = 0 /\ value.v[3] = 0 /\ value.v[4] = 0
    [] value.k \in {A, OPEN, V} -> \A i \in DOMAIN value.v : check_fd_indices(value.v[i], n)
    [] value.k = BRACE -> \A i \in DOMAIN value.v : check_fd_indices(value.v[i][2], n)
    [] OTHER -> TRUE

-----------------------------------------------------------------------------
(* What reading a value costs of the budget.                                *)
RECURSIVE Weight(_)
Weight(value) ==
  LET Sum(f) == FoldLeft(LAMBDA a, b : a + b, 0, f)
  IN CASE value.k \in {A, OPEN, V} -> 1 + Sum([i \in DOMAIN value.v |-> Weight(value.v[i])])
       [] value.k = BRACE -> 1 + Sum([i \in DOMAIN value.v |-> 1 + Weight(value.v[i][2])])
       [] OTHER -> 1
\* An empty container has no signature inside a variant.
RECURSIVE Bare(_, _)
Bare(value, inside) ==
  CASE value.k \in {A, BRACE} ->
         (value.v = <<>> /\ inside) \/ \E i \in DOMAIN value.v : Bare(IF value.k = A THEN value.v[i] ELSE value.v[i][2], inside)
    [] value.k = V -> Bare(value.v[1], TRUE)
    [] value.k = OPEN -> \E i \in DOMAIN value.v : Bare(value.v[i], inside)
    [] OTHER -> FALSE

(* What is sent is read back as it was meant, unless it is more than the    *)
(* reader will hold; and cut short anywhere it is not read at all.          *)
ReadBack(sig, values) ==
  LET weight == FoldLeft(LAMBDA a, v : a + Weight(v), 0, values)
      Read(n, whole) == n = whole /\ weight <= MAX_VALUES
      Sent(sent) == \A n \in 0..Len(sent) :
                      decode(sig, SubSeq(sent, 1, n)) = IF Read(n, Len(sent)) THEN <<values>> ELSE <<>>
      Of(sent) == sent # <<>> => Sent(sent[1])
  IN Of(encode(sig, values))

(* No message means two things: bytes the decoder accepts are the one way   *)
(* its own values are written (a bus and a client that disagree about one   *)
(* byte of padding, length or signature disagree about the message).        *)
OneSpelling(sig, body) ==
  LET Respelt(values) ==
        encode(sig, values) = IF \E i \in DOMAIN values : Bare(values[i], FALSE) THEN <<>> ELSE <<body>>
      Of(read) == read # <<>> => Respelt(read[1])
  IN Of(decode(sig, body))

(* A reader that has the first sixteen bytes of a message knows where its   *)
(* body lies, or refuses it for its length before it reads on; the whole of *)
(* it is read as its fields and body were meant, unless a field is given    *)
(* twice or is not of its type, a body has no signature or it is more than  *)
(* the reader will hold; and any less of it, or padding that is not zero,   *)
(* is not read at all.                                                      *)
MessageReadBack(fields, body) ==
  LET weight == FoldLeft(LAMBDA n, f : n + 3 + Weight(f[2]), 7, fields)
      Held(message) == Len(message) <= MAX_INCOMING
      Fair(message) == Held(message) /\ weight <= MAX_VALUES /\ Agreed(fields) /\ (body # <<>> => Signed(fields))
      Framed(message, f) ==
        IF ~Held(message) THEN f = <<>>
        ELSE /\ f # <<>> /\ f[1].body_at + f[1].body_len = Len(message)
             /\ SubSeq(message, f[1].body_at + 1, Len(message)) = body
             /\ \A i \in (FIXED_HEADER + message[13] + 1)..f[1].body_at :
                  decode_message([message EXCEPT ![i] = 1]) = <<>>
      Sent(message) ==
        /\ Framed(message, frame(SubSeq(message, 1, FIXED_HEADER)))
        /\ \A n \in FIXED_HEADER..Len(message) :
             decode_message(SubSeq(message, 1, n)) =
               IF n = Len(message) /\ Fair(message) THEN <<[kind |-> 1, fields |-> fields, body |-> body]>> ELSE <<>>
      Of(message) == message # <<>> => Sent(message[1])
  IN Of(encode_message(1, 0, 1, fields, body))
=============================================================================
