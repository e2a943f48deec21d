----------------------------- MODULE MCNetProxy -----------------------------
(***************************************************************************)
(* The egress proxy, and the formats it and the other processes must agree *)
(* on, for TLC.  A behaviour is one of the proxy (part "proxy"), or reads  *)
(* one input of one format: D-Bus values, DNS answers, CONNECT requests    *)
(* and the names allowed, Wayland messages, the argument lists of the      *)
(* children (one state per input), or a request on the control socket (a   *)
(* behaviour).  No part reads a variable of another.                       *)
(***************************************************************************)
EXTENDS NetProxy, SequencesExt, TLC

CONSTANTS HostLen, WlArgs

VARIABLES part, input, meant, how, stream, given, over, prefix, want, payload, fds, verdict
wirevars == <<meant, how, stream, given, over, prefix, want, payload, fds, verdict>>

UpTo(n, S) == UNION {[1..k -> S] : k \in 0..n}
\* Every body one byte away: a byte changed, lost or put in.
Near(x, bytes) ==
  {[x EXCEPT ![i] = c] : i \in DOMAIN x, c \in bytes} \cup {RemoveAt(x, i) : i \in DOMAIN x}
  \cup {InsertAt(x, i, c) : i \in DOMAIN x, c \in {0, 1}}

(* ---------------------------------- D-Bus ------------------------------- *)

M == INSTANCE Marshal WITH MAX_SIGNATURE <- 6, MAX_CONTAINER_DEPTH <- 2, MAX_DEPTH <- 3, MAX_ARRAY <- 48,
                           MAX_VALUES <- 7, MAX_MESSAGE <- 112, MAX_INCOMING <- 64
\* The same with room for the header of a message.
MM == INSTANCE Marshal WITH MAX_SIGNATURE <- 11, MAX_CONTAINER_DEPTH <- 2, MAX_DEPTH <- 4, MAX_ARRAY <- 36,
                            MAX_VALUES <- 16, MAX_MESSAGE <- 72, MAX_INCOMING <- 56
Y == M!Y
BOOL == M!BOOL
FD == M!FD
U == M!U
S == M!S
O == M!O
G == M!G
V == M!V
A == M!A
OPEN == M!OPEN
SHUT == M!SHUT
BRACE == M!BRACE
UNBRACE == M!UNBRACE
Q == 113
T == 116
VARDICT == <<A, BRACE, S, V, UNBRACE>>
Val(k, x) == [k |-> k, v |-> x]
b(n) == Val(Y, <<n>>)
u(n) == Val(U, M!LE(n))
t(n) == Val(T, M!LE(n) \o M!LE(0))
s(x) == Val(S, x)
g(x) == Val(G, x)
var(x) == Val(V, <<x>>)
arr(xs) == Val(A, xs)
str(xs) == Val(OPEN, xs)
dict(xs) == Val(BRACE, xs)
by(x) == Val(M!BYTES, x)
a1 == <<97>>
Inside == {b(0), Val(BOOL, M!LE(1)), u(1), t(2), Val(FD, M!LE(1)), Val(Q, <<1, 0>>), s(<<>>), s(a1), Val(O, <<47>>),
           g(<<>>), g(<<A, S>>), by(<<>>), by(<<1>>), arr(<<s(a1), s(<<>>)>>), arr(<<>>), dict(<<>>),
           dict(<<<<a1, var(b(1))>>>>), str(<<b(1), s(a1)>>), str(<<b(1), t(0)>>), arr(<<t(1)>>),
           dict(<<<<a1, t(1)>>, <<<<>>, t(0)>>>>)}
Alone == {<<<<Y>>, b(3)>>, <<<<BOOL>>, Val(BOOL, M!LE(1))>>, <<<<FD>>, Val(FD, M!LE(0))>>, <<<<S>>, s(<<97, 98>>)>>,
          <<<<S>>, s(<<97, 0>>)>>, <<<<O>>, Val(O, <<47, 97>>)>>, <<<<O>>, Val(O, <<47, 97, 47>>)>>, <<<<G>>, g(VARDICT)>>,
          <<<<G>>, g(<<A>>)>>, <<<<A, Y>>, by(<<1, 2>>)>>, <<<<A, S>>, arr(<<>>)>>, <<<<A, S>>, arr(<<s(a1), s(<<>>)>>)>>,
          <<<<A, T>>, arr(<<t(1)>>)>>, <<<<A, T>>, arr(<<>>)>>, <<VARDICT, dict(<<<<a1, var(u(1))>>>>)>>,
          <<<<A, BRACE, S, T, UNBRACE>>, dict(<<>>)>>, <<<<A, BRACE, U, U, UNBRACE>>, dict(<<>>)>>,
          <<<<OPEN, Y, V, SHUT>>, str(<<b(1), var(s(a1))>>)>>,
          <<<<A, OPEN, Y, S, SHUT>>, arr(<<str(<<b(1), s(<<>>)>>), str(<<b(2), s(a1)>>)>>)>>,
          <<<<A, A, Q>>, arr(<<arr(<<Val(Q, <<1, 0>>)>>), arr(<<>>)>>)>>, <<<<V>>, var(var(var(u(1))))>>,
          <<<<V>>, var(var(var(var(u(1)))))>>, <<<<A, A, A, U>>, arr(<<arr(<<arr(<<u(1)>>)>>)>>)>>}
         \cup {<<<<V>>, var(x)>> : x \in Inside}
\* Calls of one argument and of two: [sig, values].
Calls == {[sig |-> x[1], values |-> <<x[2]>>] : x \in Alone}
         \cup {[sig |-> x[1] \o y[1], values |-> <<x[2], y[2]>>] : x \in {z \in Alone : Len(z[1]) = 1}, y \in Alone}

\* The fields a call is sent with: its signature, and a field of its own or
\* another's type, known or not, given twice or alone.
Headers(call) ==
  {<<<<code, call.values[1]>>, <<8, g(call.sig)>>>> : code \in {1, 5, 7, 8, 10}}
  \cup {<<<<code, call.values[1]>>>> : code \in {8, 10}}

(* ------------------------------ the egress proxy ------------------------ *)

D == INSTANCE Dns WITH MAX_NAME <- 6, MAX_LABEL <- 3, MAX_JUMPS <- 2, MAX_RECORDS <- 2, MAX_CNAMES <- 2
name1 == <<97, 46, 98>>
name2 == <<98>>
name3 == <<99>>
R(n, ty, d) == [name |-> n, type |-> ty, data |-> d]
Recs == {R(n, D!TYPE_CNAME, c) : n \in {name1, name2}, c \in {name1, name2, name3}}
        \cup {R(n, D!TYPE_A, <<10, 0, 0, 1>>) : n \in {name1, name2, name3}}
        \cup {R(name1, D!TYPE_AAAA, [i \in 1..16 |-> i])}
DnsAnswers == [asked : {name1, name2, <<65, 46, 98>>, <<98, 46>>}, recs : UpTo(3, Recs), short : BOOLEAN]
NameBytes == {0, 1, 2, 97, 64, 192}

C == INSTANCE Connect WITH MAX_REQUEST_LINE <- 14, MAX_TARGET <- 9, MAX_HEADERS <- 22, MAX_HEADER_COUNT <- 2,
                           MAX_HOST <- 6, MAX_HOST_LABEL <- 2, MAX_DIGITS <- 2, MAX_PORT <- 40
\* The question's limits as the allowlist's imply them.
Q6 == INSTANCE Dns WITH MAX_NAME <- 8, MAX_LABEL <- 2, MAX_JUMPS <- 1, MAX_RECORDS <- 1, MAX_CNAMES <- 1
Hosts == UpTo(HostLen, {"a", "B", ".", "4", "-"})
         \cup {<<"a", ".", "b", ".", "a">>, <<"a", ".", "b", ".", "A", ".">>, <<"[", "4", "]">>, <<"a", ".", "b", ".">>,
               <<"a", ".", "B">>, <<"4", ".", "b">>, <<"a", ".", "4">>, <<"a", "-", "b">>, <<"a", ".", "-">>, <<".", "a", ".">>,
               <<"a", "a", ".", "b", "b">>, <<"a", "a", ".", "b", "b", ".">>, <<"a", "a", ".", "b", ".", "b">>,
               <<"a", "a", ".", "b", ".", "b", ".">>}
Ports == {<<"4">>, <<"4", "0">>, <<"4", "4">>, <<"0">>, <<"4", "0", "4">>, <<>>}
Pats == {<<"a", ".", "B">>, <<"*", ".", "b">>, <<"*">>, <<"a", ".", "4">>, <<"B", ".">>, <<"*", ".", "A", ".", "b">>,
         <<"4", ".", "b">>, <<"b", ".", "*">>, <<"a", "a", ".", "b", ".", "b">>}
At(p, n) == p \o <<":">> \o n
AllowWords == {<<At(p, n)>> : p \in Pats, n \in Ports} \cup {<<At(p, <<"4">>), At(q, <<"4", "0">>)>> : p, q \in Pats}
Ends == {<<"\n">>, <<"\r", "\n">>}
Line(m, to, v) == m \o <<" ">> \o to \o <<" ">> \o v
HostLine == <<"Host", ":", "a">>
Fields == {<<>>, <<"X", ":", "\n">>, <<"X", ":", "\r", "\n", "X", ":", "\n">>, HostLine \o <<"\n">>, <<" ", "X", "\n">>,
           <<"X", "\n">>, <<"host", ":", "\t", "\n">>}
Buffers ==
  {Line(m, to, v) \o e \o h \o more :
     m \in {<<"CONNECT">>, <<"GET">>},
     to \in {At(<<"a">>, <<"4">>), <<"a">>, At(<<"[", "]">>, <<"4">>), At(<<"4">>, <<"4">>),
                 At(<<"a", "a", "a", "a", "a", "a">>, <<"4">>)},
     v \in {<<"HTTP/1.1">>, <<"HTTP/2">>, <<"HTTP/1.1", " ">>}, e \in Ends \cup {<<>>, <<"\r">>},
     h \in {<<>>} \cup {HostLine \o e \o f \o z : e \in Ends, f \in Fields, z \in Ends \cup {<<>>}},
     more \in {<<>>, <<"a", "\n", "\n", "a">>}}
Buf(i) == Line(<<"CONNECT">>, At(i.host, i.port), <<"HTTP/1.1">>) \o <<"\n">> \o HostLine \o <<"\n", "\n">>
Code == [c \in {"a", "b", ".", "-", "4", "0"} |->
           CASE c = "a" -> 97 [] c = "b" -> 98 [] c = "." -> 46 [] c = "-" -> 45 [] c = "4" -> 52 [] OTHER -> 48]

(* ------------------------- Wayland, exec, children ---------------------- *)

W == INSTANCE WlWire WITH MAX_SIZE <- 32
Word(n) == <<n, 0, 0, 0>>
WlArg == {Val("int", Word(1)), Val("new_id", Word(2)), Val("fd", <<>>), Val("string", W!Null), Val("string", <<0>>),
          Val("string", <<97, 0>>), Val("string", <<97, 97, 97, 0>>), Val("array", <<>>),
          Val("array", <<1, 0, 2, 0, 1>>), Val("array", <<0>>)}
Kinds(args) == [i \in DOMAIN args |-> args[i].k]

X == INSTANCE ExecWire WITH eof <- over, MAX_REQUEST <- 20, CHUNK <- 3,
       Clients <- {"honest", "late", "fewer", "longer", "cut", "huge"},
       Requests <- {[flags |-> 1, argv |-> <<<<115, 104>>>>], [flags |-> 0, argv |-> <<<<97>>, <<>>>>],
                    [flags |-> 2, argv |-> <<<<97>>>>], [flags |-> 0, argv |-> <<>>],
                    [flags |-> 0, argv |-> <<<<97, 98, 99, 100, 101, 102, 103>>, <<>>>>]}

H == INSTANCE ChildArgs WITH Numbers <- {"0", "2", "3", "4", "3128"}, BadPorts <- {"0"},
       Addresses <- {"1.1.1.1", "::1"}, INIT_INSIDE <- "/init"
\* Programs whose words look like options.
Odd == {"sh", "--", "--ctty", "--socket-fd"}
NoOps == [namespaces |-> <<>>, skeleton |-> <<>>, runtime_dir |-> <<>>, binds |-> <<>>, masks |-> <<>>, env |-> <<>>]
Inits == {p \in [ops : {NoOps, [NoOps EXCEPT !.namespaces = <<<<"--unshare-all">>>>, !.env = <<<<"--setenv", "A", "--">>>>]},
                 socket : {"4"}, ctty : BOOLEAN, x11 : {<<>>, <<"Xwayland", "--ctty">>}, wm : {<<>>} \cup {<<w>> : w \in Odd},
                 command : UpTo(3, Odd) \ {<<>>}] : p.wm # <<>> => p.x11 # <<>>}
Clips == {"paste", "open"}
Wls == [p : {H!context_plan(c) : c \in Clips} \cup {H!fallback_plan(n, c) : n \in {"wayland-0", "--gate"}, c \in Clips},
        listen : {"2", "3", "4"}, ready : {"2", "3", "4"}]
Nets == [allow : {<<"a:443">>, <<"a:443", "*.b:80">>}, dns : {<<"1.1.1.1">>, <<"1.1.1.1", "::1">>}, port : {"3128"},
         ready : {"3", "4"}, log : {"2", "3"}, log_tunnels : BOOLEAN]

TypedWords == UpTo(3, {<<>>, <<"a">>, <<"-", "-">>, <<"a", " ">>, <<"\"">>, <<"\\", "a">>, <<"keep=", "a">>, <<"keep=">>})
TypedKeys == UpTo(4, {"a", "b", "backspace", "delete", "^u", "left", "right", "home", "end"})

(* --------------------------------- the sum ------------------------------ *)

NoRequest == X!WireInit /\ how = "honest" /\ meant.flags = 1
WireInit ==
  \/ /\ NoRequest
     /\ \/ part = "dbus" /\ input \in Calls
        \/ part = "answer" /\ input \in DnsAnswers
        \/ part = "name" /\ input \in UpTo(5, NameBytes)
        \/ part = "request" /\ input \in Buffers
        \/ part = "host" /\ input \in [host : Hosts, port : Ports, words : AllowWords]
        \/ part = "wayland" /\ input \in UpTo(WlArgs, WlArg)
        \/ part = "init" /\ input \in Inits
        \/ part = "wl" /\ input \in Wls
        \/ part = "net" /\ input \in Nets
        \/ part = "words" /\ input \in TypedWords
        \/ part = "keys" /\ input \in TypedKeys
  \/ part = "exec" /\ input = <<>> /\ X!WireInit
WireNext == part = "exec" /\ X!WireNext /\ UNCHANGED <<part, input>>

(* A value is read back as it was meant, cut short it is refused, and bytes   *)
(* the reader accepts mean one thing only (dbus_wire.rs:757, 543).            *)
OneMeaning ==
  LET Sent(body) ==
        /\ M!ReadBack(input.sig, input.values)
        /\ body # <<>> => \A y \in Near(body[1], {0, 1, 2, 97, 115}) : M!OneSpelling(input.sig, y)
        /\ body # <<>> => \A fields \in Headers(input) : MM!MessageReadBack(fields, body[1])
  IN part = "dbus" => Sent(M!encode(input.sig, input.values))
(* The proxy dials the addresses the resolver meant, and no bytes lead its    *)
(* reader outside the message or past a name's length (dns.rs:473).           *)
AnswerUnderstood ==
  /\ part = "answer" => D!AnswerUnderstood(input.asked, D!TYPE_A, input.recs, input.short)
  /\ part = "name" => \A at \in 0..Len(input) : D!NameBounded(input, at)
(* A request is answered alike in one piece or in many (connect.rs:127); a    *)
(* name is let through exactly when the allowlist, as written, lists it       *)
(* (allow.rs:119); and whatever is let through can be asked for (dns.rs:337). *)
AllowedAsWritten ==
  LET Asked(r, list) ==
        /\ C!AllowedAsWritten(r, list, input.host, input.port, input.words)
        /\ r.s = 200 /\ list # <<>> =>
             (C!allows(list[1], r.host, r.port) => Q6!encode_name([i \in DOMAIN r.host |-> Code[r.host[i]]]) # <<>>)
  IN /\ part = "request" => C!JudgedWhole(input)
     /\ part = "host" => Asked(C!parse(Buf(input)), C!allowlist(input.words))
(* What either end of the relay says the other reads, and the bytes passed    *)
(* on are the message the policy judged (wl-proxy wire.rs:153).               *)
SameMessage ==
  LET Sent(written) ==
        written # <<>> => \A y \in Near(written[1], {0, 1, 2, 4, 5, 8, 12, 16}) : W!SameMessage(y, Kinds(input))
  IN part = "wayland" => W!SaidIsRead(input) /\ Sent(W!encode(<<7, 0, 0, 0>>, <<1, 0>>, input))
(* A request that is accepted is the whole one a client sent, its descriptors *)
(* with it, however the stream was cut (init wire.rs:173).                    *)
Assembled == part = "exec" => X!Assembled
(* Each child is started as the parent meant: the command with its own        *)
(* options, every descriptor under its own name (bwrap.rs:1012); and what is  *)
(* typed at a prompt is the command line it becomes (ui app.rs:985).          *)
HandedOver ==
  /\ part = "init" => H!InitHandedOver(input)
  /\ part = "wl" => H!WlHandedOver(input.p, input.listen, input.ready)
  /\ part = "net" => H!NetHandedOver(input)
  /\ part = "words" => H!WordsAsTyped(input)
  /\ part = "keys" => H!LineAsTyped(<<"a", "b">>, input)

(* Both ends of every format mean the same by the same bytes: D-Bus values,   *)
(* DNS answers and Wayland messages; and what a process was told is what the  *)
(* one that told it meant: a request on the control socket, the arguments of  *)
(* a child, a line typed.                                                     *)
Understood == OneMeaning /\ AnswerUnderstood /\ SameMessage /\ Assembled /\ HandedOver

-----------------------------------------------------------------------------
(* The proxy: one entry for the names under another, requests it covers    *)
(* and requests next to it, and answers that go through a CNAME, round in  *)
(* a circle, into the namespace or to a name nobody asked about.           *)

Base == <<"example">>
Api  == <<"api", "example">>
Deep == <<"v1", "api", "example">>
Cdn  == <<"cdn">>
Far  == <<"far">>

MCAllow == {[labels |-> Base, wildcard |-> TRUE, port |-> 443]}

MCTargets == {[host |-> Api, port |-> 443], [host |-> Api, port |-> 22],
              [host |-> Base, port |-> 443], [host |-> Deep, port |-> 443]}

Addr(o, a)  == [owner |-> o, kind |-> "addr", to |-> a]
Cname(o, n) == [owner |-> o, kind |-> "cname", to |-> n]
Reply(rs)   == [ours |-> TRUE, rcode |-> 0, cut |-> FALSE, records |-> rs]

MCAnswers == {
  Reply(<<Cname(Api, Cdn), Addr(Far, <<"elsewhere">>), Addr(Cdn, <<"edge">>)>>),
  Reply(<<Addr(Base, <<"apex">>), Addr(Deep, <<"deep">>)>>),
  Reply(<<Addr(Api, <<"local">>), Addr(Api, <<"origin">>)>>),
  Reply(<<Cname(Api, Cdn), Cname(Cdn, Api)>>),
  [ours |-> TRUE, rcode |-> 0, cut |-> TRUE, records |-> <<Cname(Api, Cdn)>>],
  [ours |-> TRUE, rcode |-> 3, cut |-> FALSE, records |-> <<>>],
  [ours |-> FALSE, rcode |-> 0, cut |-> FALSE, records |-> <<Addr(Api, <<"stray">>)>>],
  [ours |-> TRUE, rcode |-> 2, cut |-> FALSE, records |-> <<Addr(Api, <<"failing">>)>>]}

MCInward == {<<"local">>}

MCInit ==
  /\ Init
  /\ \/ WireInit
     \/ part = "proxy" /\ input = <<>> /\ NoRequest
MCNext ==
  \/ part = "proxy" /\ Next /\ UNCHANGED <<part, input, wirevars>>
  \/ WireNext /\ UNCHANGED vars
MCSpec == MCInit /\ [][MCNext]_<<part, input, vars, wirevars>> /\ Fairness
=============================================================================
