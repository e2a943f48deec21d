--------------------------- MODULE ForwardProofs ---------------------------
(***************************************************************************)
(* Theorems about handing host files to the sandbox, for any command line, *)
(* any changes of the file system and any number of starts of the service. *)
(***************************************************************************)
EXTENDS Forward, TLAPS, SequenceTheorems, WellFoundedInduction

(* ---------------------------- the invariant ----------------------------- *)

IsSeq(s) == s \in Seq(Elements(s))

(* A unique name is given out once, and one that a call came back from as  *)
(* gone belongs to nobody any more; what the session believes to be the    *)
(* owner is not one of those.                                              *)
BusOK(b) == /\ b = [gone |-> b.gone, holder |-> b.holder, used |-> b.used, wire |-> b.wire]
            /\ b.used \subseteq Peers /\ b.holder \in b.used \cup {NoName}
ToldOK(t, b) == t \subseteq {Bus} \cup (b.used \ {b.holder})
OwnerOK(o, t, b) == o = NoName \/ (o \in b.used /\ o \notin t)
CallOK(c, n, t, b) ==
  /\ c.method \in {"none", "Hello", "GetNameOwner", "StartServiceByName", "AddFull"}
  /\ c.method # "none" => c.serial = n
  /\ c.method = "AddFull" => c.dest \in b.used /\ c.dest \notin t
  /\ c.method \notin {"none", "AddFull"} => c.dest = Bus

Naming == /\ serial \in Nat /\ IsSeq(inbox)
          /\ BusOK(bus) /\ ToldOK(told, bus) /\ OwnerOK(owner, told, bus)
          /\ CallOK(call, serial, told, bus)
          /\ step \in {"send", "await"} <=> call.method # "none"

(* What the service was handed it answers for, all of it or one short, and *)
(* has exported.                                                           *)
Handed(ids, h, e) ==
  /\ ids = h.fds \/ ids = Tail(h.fds)
  /\ \A f \in Elements(h.fds) : [file |-> f, write |-> h.write] \in e

(* What a message says where it is an answer to the call in progress: of   *)
(* an owner, of a name that is gone, of documents.                         *)
Says(m, c, t, b, p, e) ==
  /\ m.kind = "return" /\ m.sender = Bus /\ c.method = "GetNameOwner" => m.ids[1] \in b.used \ t
  /\ m.kind = "error" /\ m.sender = Bus /\ m.err = Unknown /\ c.method = "AddFull" => c.dest # b.holder
  /\ m.kind = "return" /\ m.sender \in Peers /\ c.method = "AddFull" => Handed(m.ids, p[1], e)
Good(m, c, n, t, b, p, e) ==
  m.kind # "line" =>
    /\ m.serial \in Nat /\ m.serial <= n
    /\ m.serial = c.serial /\ c.method # "none" => Says(m, c, t, b, p, e)
Mail == \A m \in Elements(inbox) : Good(m, call, serial, told, bus, pending, exports)

(* What is on the wire is the call in progress or an older one.            *)
Wired(w, c, n, p) ==
  w # NoWire =>
    /\ w.serial \in Nat /\ w.serial <= n
    /\ w.dest \in Peers => \A f \in Elements(w.pending[1].fds) : Regular(f)
    /\ w.serial = c.serial /\ c.method # "none" => w.method = c.method /\ w.dest = c.dest /\ w.pending = p
Wire == Wired(bus.wire, call, serial, pending)

(* Where forwarded_or() is, the session is: it calls for one group at a    *)
(* time, and not at all once a call has failed half-read.                  *)
Asked == [fds |-> [k \in DOMAIN Group |-> Group[k].file], write |-> Head(sets)]
Calling ==
  /\ phase = "calling" =>
       /\ ~broken /\ Group # <<>> /\ step \in {"send", "await", "ready"}
       /\ step # "ready" => pending = <<Asked>>
       /\ step = "ready" /\ result.tag = "ok" => Handed(result.ids, Asked, exports)
  /\ call.method \notin {"none", "Hello"} => phase = "calling"
  /\ phase = "start" => step = "closed"
  /\ phase = "open" => step = "ready"
  /\ phase \notin {"connect", "calling"} => step \in {"closed", "ready"}
  /\ broken => phase \in {"open", "done"} /\ step = "ready"
  /\ phase # "done" => argv = <<>>

(* What was opened was a regular file, and so is what was exported.        *)
Files ==
  /\ plan \in Plans /\ IsSeq(opened) /\ IsSeq(done) /\ Len(done) <= Len(candidates)
  /\ DOMAIN disk = {c.path : c \in Elements(candidates)}
  /\ \A path \in DOMAIN disk : disk[path].kind = "file" => Regular(disk[path].file)
  /\ \A o \in Elements(opened) : Regular(o.file)
  /\ \A e \in exports : Regular(e.file)
  /\ \A i \in DOMAIN done : done[i].tag = "wire" => broken

(* Each answer is for its own candidate, each document for its argument.   *)
Own(i, id, o, e) ==
  \E k \in DOMAIN o : /\ o[k].index = i /\ id = o[k].file
                      /\ [file |-> o[k].file, write |-> candidates[i].write] \in e
Answering == \A i \in DOMAIN done : done[i].tag = "ok" => Own(i, done[i].id, opened, exports)
Rewriting == \A n \in DOMAIN argv : argv[n].in = "doc" =>
       plan[n].kind = "forward" /\ [file |-> argv[n].of, write |-> plan[n].write] \in exports

IInv == Naming /\ Mail /\ Wire /\ Calling /\ Files /\ Answering /\ Rewriting

(* ------------------------------ sequences ------------------------------ *)

LEMMA HeadIn ==
  ASSUME NEW s, IsSeq(s), s # <<>>
  PROVE  Head(s) \in Elements(s) /\ IsSeq(Tail(s)) /\ Elements(Tail(s)) \subseteq Elements(s)
<1> DEFINE S == Elements(s)
<1>1. s \in Seq(S)
  BY DEF IsSeq
<1>2. Len(s) \in Nat /\ DOMAIN s = 1..Len(s) /\ Len(s) # 0
  BY <1>1, LenProperties, EmptySeq
<1>3. Head(s) = s[1] /\ Tail(s) \in Seq(S) /\ Len(Tail(s)) = Len(s) - 1
  BY <1>1, HeadTailProperties
<1>4. \A i \in 1..Len(Tail(s)) : Tail(s)[i] = s[i + 1]
  BY <1>1, HeadTailProperties
<1>5. DOMAIN Tail(s) = 1..Len(Tail(s))
  BY <1>3, LenProperties
<1>6. Elements(Tail(s)) \subseteq S
  <2> SUFFICES ASSUME NEW i \in 1..Len(Tail(s)) PROVE Tail(s)[i] \in S
    BY <1>5 DEF Elements
  <2>1. i + 1 \in DOMAIN s /\ Tail(s)[i] = s[i + 1]
    BY <1>2, <1>3, <1>4
  <2> QED BY <2>1 DEF Elements
<1>7. Tail(s) \in Seq(Elements(Tail(s)))
  <2>1. \A i \in 1..Len(Tail(s)) : Tail(s)[i] \in Elements(Tail(s))
    BY <1>5 DEF Elements
  <2>2. Tail(s) = [i \in 1..Len(Tail(s)) |-> Tail(s)[i]]
    BY <1>3, LenProperties, <1>5
  <2>3. Len(Tail(s)) \in Nat
    BY <1>3, LenProperties
  <2> HIDE DEF S
  <2>4. Tail(s) \in [1..Len(Tail(s)) -> Elements(Tail(s))]
    BY <2>1, <2>2
  <2> QED BY <2>3, <2>4, SeqDef
<1>8. Head(s) \in S
  BY <1>2, <1>3 DEF Elements
<1> QED BY <1>6, <1>7, <1>8 DEF IsSeq

LEMMA AppendIn ==
  ASSUME NEW s, NEW m, IsSeq(s)
  PROVE  /\ IsSeq(Append(s, m)) /\ Elements(Append(s, m)) = Elements(s) \cup {m}
         /\ Len(s) \in Nat /\ DOMAIN s = 1..Len(s)
         /\ DOMAIN Append(s, m) = 1..(Len(s) + 1) /\ Len(Append(s, m)) = Len(s) + 1
         /\ Append(s, m)[Len(s) + 1] = m /\ \A i \in 1..Len(s) : Append(s, m)[i] = s[i]
<1> DEFINE S == Elements(s) \cup {m}
           a == Append(s, m)
<1>1. s \in Seq(S) /\ m \in S
  <2>1. s \in Seq(Elements(s))
    BY DEF IsSeq
  <2>2. Elements(s) \subseteq S
    OBVIOUS
  <2> HIDE DEF S
  <2>3. s \in Seq(S)
    BY <2>1, <2>2
  <2> QED BY <2>3 DEF S
<1>2. Len(s) \in Nat /\ DOMAIN s = 1..Len(s)
  BY <1>1, LenProperties
<1>3. /\ a \in Seq(S) /\ Len(a) = Len(s) + 1
      /\ \A i \in 1..Len(s) : a[i] = s[i]
      /\ a[Len(s) + 1] = m
  BY <1>1, AppendProperties
<1>4. DOMAIN a = 1..(Len(s) + 1)
  BY <1>3, LenProperties
<1>5. Elements(a) = S
  <2>1. ASSUME NEW x \in Elements(a) PROVE x \in S
    BY <2>1, <1>2, <1>3, <1>4 DEF Elements
  <2>2. m \in Elements(a)
    BY <1>2, <1>3, <1>4 DEF Elements
  <2>3. ASSUME NEW x \in Elements(s) PROVE x \in Elements(a)
    <3>1. PICK i \in 1..Len(s) : x = s[i]
      BY <1>2 DEF Elements
    <3>2. i \in DOMAIN a /\ a[i] = x
      BY <3>1, <1>2, <1>3, <1>4
    <3> QED BY <3>2 DEF Elements
  <2> QED BY <2>1, <2>2, <2>3
<1> QED BY <1>2, <1>3, <1>4, <1>5 DEF IsSeq

(* A sequence over anything is one over its elements.                      *)
LEMMA SeqIsSeq ==
  ASSUME NEW S, NEW s \in Seq(S)
  PROVE  /\ IsSeq(s) /\ Elements(s) \subseteq S
         /\ Len(s) \in Nat /\ DOMAIN s = 1..Len(s) /\ s = [i \in 1..Len(s) |-> s[i]]
<1>1. Len(s) \in Nat /\ DOMAIN s = 1..Len(s) /\ s = [i \in 1..Len(s) |-> s[i]]
  BY LenProperties
<1>2. \A i \in 1..Len(s) : s[i] \in S /\ s[i] \in Elements(s)
  BY <1>1, ElementOfSeq DEF Elements
<1>3. s \in Seq(Elements(s))
  BY <1>1, <1>2, SeqDef
<1> QED BY <1>1, <1>2, <1>3 DEF IsSeq, Elements

(* ------------------------------ induction ------------------------------ *)

(* A set of natural numbers with a member has a least one.                 *)
LEMMA LeastNatural ==
  ASSUME NEW T \in SUBSET Nat, T # {}
  PROVE  \E n \in T : \A m \in T : n <= m
<1>1. PICK n \in T : \A m \in T : ~(<<m, n>> \in OpToRel(<, Nat))
  BY WFMin, NatLessThanWellFounded
<1>2. ASSUME NEW m \in T
      PROVE  ~(m < n)
  <2>1. ~(<<m, n>> \in OpToRel(<, Nat))
    BY <1>1
  <2>2. <<m, n>> \in Nat \X Nat
    OBVIOUS
  <2> QED BY <2>1, <2>2 DEF OpToRel
<1> QED BY <1>2

(* Induction, for a property given as a set.                               *)
LEMMA NatByInduction ==
  ASSUME NEW S, 0 \in S, \A n \in Nat : n \in S => n + 1 \in S
  PROVE  Nat \subseteq S
<1> SUFFICES ASSUME Nat \ S # {} PROVE FALSE
  OBVIOUS
<1>1. PICK n \in Nat \ S : \A m \in Nat \ S : n <= m
  BY LeastNatural
<1>2. n # 0 /\ n - 1 \in Nat /\ (n - 1) + 1 = n
  BY <1>1
<1>3. n - 1 \in S
  BY <1>1, <1>2
<1> QED BY <1>1, <1>2, <1>3

(* ------------------------------- Picked -------------------------------- *)

(* The recursion of Picked() has a value.                                  *)
UpTo(s, I, f, n) ==
  IF n = 0 THEN <<>> ELSE IF n \in I THEN Append(f[n - 1], s[n]) ELSE f[n - 1]
LEMMA UpToExists ==
  ASSUME NEW s, NEW I
  PROVE  \A n \in Nat : \E f : f = [i \in 0..n |-> UpTo(s, I, f, i)]
<1> DEFINE S == {n \in Nat : \E f : f = [i \in 0..n |-> UpTo(s, I, f, i)]}
<1>1. 0 \in S
  <2> DEFINE g == [i \in 0..0 |-> <<>>]
  <2>1. g = [i \in 0..0 |-> UpTo(s, I, g, i)]
    BY DEF UpTo
  <2> QED BY <2>1
<1>2. ASSUME NEW n \in Nat, n \in S
      PROVE  n + 1 \in S
  <2>1. PICK f : f = [i \in 0..n |-> UpTo(s, I, f, i)]
    BY <1>2
  <2> DEFINE g == [i \in 0..(n + 1) |-> IF i <= n THEN f[i] ELSE UpTo(s, I, f, n + 1)]
  <2>2. \A i \in 0..n : g[i] = f[i]
    OBVIOUS
  <2>3. \A i \in 0..n : f[i] = UpTo(s, I, f, i)
    BY <2>1
  <2>4. ASSUME NEW i \in 0..(n + 1)
        PROVE  UpTo(s, I, f, i) = UpTo(s, I, g, i)
    <3>1. CASE i = 0
      BY <3>1 DEF UpTo
    <3>2. CASE i # 0
      <4>1. i - 1 \in 0..n
        BY <3>2
      <4>2. g[i - 1] = f[i - 1]
        BY <4>1, <2>2
      <4> QED BY <3>2, <4>2 DEF UpTo
    <3> QED BY <3>1, <3>2
  <2>5. ASSUME NEW i \in 0..(n + 1)
        PROVE  g[i] = UpTo(s, I, g, i)
    <3>1. CASE i <= n
      <4>1. i \in 0..n
        BY <3>1
      <4> QED BY <4>1, <2>2, <2>3, <2>4
    <3>2. CASE ~(i <= n)
      <4>1. i = n + 1
        BY <3>2
      <4>2. g[n + 1] = UpTo(s, I, f, n + 1)
        OBVIOUS
      <4> QED BY <4>1, <4>2, <2>4
    <3> QED BY <3>1, <3>2
  <2>6. g = [i \in 0..(n + 1) |-> UpTo(s, I, g, i)]
    BY <2>5
  <2> HIDE DEF g
  <2> QED BY <2>6
<1> HIDE DEF S
<1>3. Nat \subseteq S
  BY <1>1, <1>2, NatByInduction
<1> QED BY <1>3 DEF S

(* What Picked() takes stands at one of the places.                         *)
From(s, I, t) == /\ IsSeq(t)
                 /\ \A k \in DOMAIN t : \E j \in 1..Len(s) : j \in I /\ t[k] = s[j]
LEMMA PickedFrom ==
  ASSUME NEW s, NEW I, Len(s) \in Nat
  PROVE  From(s, I, Picked(s, I))
<1> DEFINE n == Len(s)
           F == CHOOSE f : f = [i \in 0..n |-> UpTo(s, I, f, i)]
           S == {i \in Nat : i <= n => From(s, I, F[i])}
<1>1. Picked(s, I) = F[n]
  BY DEF Picked, UpTo
<1>2. F = [i \in 0..n |-> UpTo(s, I, F, i)]
  BY UpToExists
<1>n. n \in Nat
  OBVIOUS
<1> HIDE DEF F, n
<1>3. 0 \in S
  <2>1. F[0] = <<>>
    BY <1>n, <1>2 DEF UpTo
  <2>2. <<>> \in Seq({}) /\ DOMAIN <<>> = {}
    OBVIOUS
  <2>3. IsSeq(<<>>)
    BY <2>2, SeqIsSeq
  <2> QED BY <2>1, <2>2, <2>3 DEF From
<1>4. ASSUME NEW i \in Nat, i \in S
      PROVE  i + 1 \in S
  <2> SUFFICES ASSUME i + 1 <= n
               PROVE  From(s, I, F[i + 1])
    OBVIOUS
  <2>1. i + 1 \in 0..n /\ i + 1 \in 1..n /\ (i + 1) - 1 = i /\ i <= n
    BY <1>n
  <2>2. From(s, I, F[i])
    BY <1>4, <2>1
  <2>3. F[i + 1] = UpTo(s, I, F, i + 1)
    BY <1>2, <2>1
  <2>4. CASE i + 1 \notin I
    BY <2>1, <2>2, <2>3, <2>4 DEF UpTo
  <2>5. CASE i + 1 \in I
    <3> DEFINE t == F[i]
               m == s[i + 1]
    <3>1. F[i + 1] = Append(t, m)
      BY <2>1, <2>3, <2>5 DEF UpTo
    <3>m. m = s[i + 1]
      OBVIOUS
    <3>2. From(s, I, t)
      BY <2>2
    <3> HIDE DEF t, m
    <3>3. /\ IsSeq(Append(t, m)) /\ Len(t) \in Nat /\ DOMAIN t = 1..Len(t)
          /\ DOMAIN Append(t, m) = 1..(Len(t) + 1)
          /\ Append(t, m)[Len(t) + 1] = m /\ \A k \in 1..Len(t) : Append(t, m)[k] = t[k]
      BY <3>2, AppendIn DEF From
    <3>4. ASSUME NEW k \in 1..(Len(t) + 1)
          PROVE  \E j \in 1..Len(s) : j \in I /\ Append(t, m)[k] = s[j]
      <4>1. CASE k = Len(t) + 1
        BY <4>1, <3>3, <3>m, <2>1, <2>5 DEF n
      <4>2. CASE k # Len(t) + 1
        <5>1. k \in 1..Len(t)
          BY <3>3, <4>2
        <5> QED BY <5>1, <3>2, <3>3 DEF From
      <4> QED BY <4>1, <4>2
    <3> QED BY <3>1, <3>3, <3>4 DEF From
  <2> QED BY <2>4, <2>5
<1>5. n \in S
  <2> HIDE DEF S
  <2> QED BY <1>n, <1>3, <1>4, NatByInduction
<1> QED BY <1>n, <1>1, <1>5 DEF n

(* A candidate is an argument to forward, with that argument's permission.  *)
LEMMA CandidatesFound ==
  ASSUME NEW p \in Plans
  PROVE  /\ IsSeq(Candidates(p))
         /\ \A i \in DOMAIN Candidates(p) :
              LET c == Candidates(p)[i] IN
              /\ c.arg \in DOMAIN p /\ p[c.arg].kind = "forward"
              /\ c.write = p[c.arg].write /\ c.path = p[c.arg].path
<1> DEFINE s == [i \in 1..Len(p) |-> [arg |-> i, path |-> p[i].path, write |-> p[i].write]]
           I == {i \in DOMAIN p : p[i].kind = "forward"}
<1>1. p \in Seq([kind : {"forward", "rename", "untouched"}, path : STRING, write : BOOLEAN])
  BY PlansAssumption
<1>2. Len(p) \in Nat /\ DOMAIN p = 1..Len(p)
  BY <1>1, LenProperties
<1>3. Len(s) = Len(p)
  BY <1>2
<1>4. Candidates(p) = Picked(s, I)
  BY DEF Candidates
<1>5. From(s, I, Candidates(p))
  BY <1>2, <1>3, <1>4, PickedFrom
<1>6. \A j \in 1..Len(p) : s[j].arg = j /\ s[j].write = p[j].write /\ s[j].path = p[j].path
  OBVIOUS
<1>7. ASSUME NEW i \in DOMAIN Candidates(p)
      PROVE  LET c == Candidates(p)[i] IN
              /\ c.arg \in DOMAIN p /\ p[c.arg].kind = "forward"
              /\ c.write = p[c.arg].write /\ c.path = p[c.arg].path
  <2> HIDE DEF s
  <2>1. PICK j \in 1..Len(p) : j \in I /\ Candidates(p)[i] = s[j]
    BY <1>3, <1>5 DEF From
  <2> QED BY <1>6, <2>1
<1> QED BY <1>5, <1>7 DEF From

(* ------------------------------ messages ------------------------------- *)

(* The name that holds the service after a step: the same one, nobody, or  *)
(* one that was never given out.                                           *)
Grown(b, d) == /\ b.used \subseteq d.used
               /\ d.holder = b.holder \/ d.holder = NoName \/ d.holder \in Peers \ b.used
LEMMA HandedKept ==
  ASSUME NEW ids, NEW h, NEW e, NEW f, Handed(ids, h, e), e \subseteq f
  PROVE  Handed(ids, h, f)
BY DEF Handed

(* While a call lasts, what a message says of it stays true.               *)
LEMMA GoodKept ==
  ASSUME NEW m, NEW c, NEW n, NEW t, NEW b, NEW p, NEW e, NEW d, NEW f,
         Good(m, c, n, t, b, p, e), CallOK(c, n, t, b), BusOK(b), Grown(b, d), e \subseteq f
  PROVE  Good(m, c, n, t, d, p, f)
<1> SUFFICES ASSUME m.kind # "line" PROVE Good(m, c, n, t, d, p, f)
  BY DEF Good
<1>1. m.serial \in Nat /\ m.serial <= n
  BY DEF Good
<1>2. ASSUME m.serial = c.serial, c.method # "none"
      PROVE  Says(m, c, t, d, p, f)
  <2>1. Says(m, c, t, b, p, e)
    BY <1>2 DEF Good
  <2>2. m.kind = "return" /\ m.sender = Bus /\ c.method = "GetNameOwner" => m.ids[1] \in d.used \ t
    BY <2>1 DEF Says, Grown
  <2>3. m.kind = "error" /\ m.sender = Bus /\ m.err = Unknown /\ c.method = "AddFull" => c.dest # d.holder
    <3> SUFFICES ASSUME m.kind = "error", m.sender = Bus, m.err = Unknown, c.method = "AddFull"
                 PROVE  c.dest # d.holder
      OBVIOUS
    <3>1. c.dest # b.holder
      BY <2>1 DEF Says
    <3>2. c.dest \in b.used /\ c.dest \in Peers
      BY DEF CallOK, BusOK
    <3> QED BY <3>1, <3>2, PeersAssumption DEF Grown
  <2>4. m.kind = "return" /\ m.sender \in Peers /\ c.method = "AddFull" => Handed(m.ids, p[1], f)
    BY <2>1, HandedKept DEF Says
  <2> QED BY <2>2, <2>3, <2>4 DEF Says
<1> QED BY <1>1, <1>2 DEF Good

(* A call that has ended, or one with a newer serial, is not what an old   *)
(* message answers.                                                        *)
LEMMA GoodOver ==
  ASSUME NEW m, NEW c, NEW n \in Nat, NEW t, NEW b, NEW p, NEW e, Good(m, c, n, t, b, p, e),
         NEW c2, NEW n2 \in Nat, NEW t2, NEW b2, NEW p2, NEW e2, n <= n2,
         c2.method = "none" \/ c2.serial = n + 1
  PROVE  Good(m, c2, n2, t2, b2, p2, e2)
BY DEF Good

LEMMA WiredOver ==
  ASSUME NEW w, NEW c, NEW n \in Nat, NEW p, Wired(w, c, n, p),
         NEW c2, NEW n2 \in Nat, NEW p2, n <= n2, c2.method = "none" \/ c2.serial = n + 1
  PROVE  Wired(w, c2, n2, p2)
BY DEF Wired

(* ------------------------ steps of the session ------------------------- *)

(* Whoever keeps the files to itself keeps what is known of them.          *)
LEMMA RestKept ==
  ASSUME IInv, Rest, exports \subseteq exports', \A e \in exports' : Regular(e.file)
  PROVE  Files' /\ Answering' /\ Rewriting'
<1> USE DEF Rest, mine
<1>1. candidates' = candidates
  BY DEF candidates
<1>2. Files'
  BY <1>1 DEF IInv, Files
<1>3. Answering'
  BY <1>1 DEF IInv, Answering, Own
<1>4. Rewriting'
  BY DEF IInv, Rewriting
<1> QED BY <1>2, <1>3, <1>4

LEMMA RestSame ==
  ASSUME IInv, Rest, UNCHANGED exports
  PROVE  Files' /\ Answering' /\ Rewriting'
<1>1. \A e \in exports' : Regular(e.file)
  BY DEF IInv, Files
<1> QED BY <1>1, RestKept

LEMMA AskedSame ==
  ASSUME Rest
  PROVE  Asked' = Asked /\ Group' = Group
BY DEF Rest, mine, Asked, Group, candidates

(* An ended call: nothing on the way answers it any more.                  *)
LEMMA Ended ==
  ASSUME IInv, call' = NoCall, step' = "ready", UNCHANGED <<serial, bus, exports>>,
         inbox' = inbox \/ (inbox # <<>> /\ inbox' = Tail(inbox)),
         ToldOK(told', bus), OwnerOK(owner', told', bus)
  PROVE  Naming' /\ Mail' /\ Wire'
<1>1. IsSeq(inbox') /\ Elements(inbox') \subseteq Elements(inbox)
  BY HeadIn DEF IInv, Naming
<1>2. serial \in Nat /\ BusOK(bus)
  BY DEF IInv, Naming
<1>3. NoCall.method = "none" /\ NoCall.dest = NoName
  BY DEF NoCall
<1>4. Naming'
  <2>1. CallOK(NoCall, serial, told', bus)
    BY <1>3, PeersAssumption DEF CallOK
  <2>2. BusOK(bus) /\ serial \in Nat
    BY <1>2
  <2> QED BY <1>1, <1>2, <1>3, <2>1 DEF Naming
<1>5. Mail'
  <2> SUFFICES ASSUME NEW m \in Elements(inbox')
               PROVE  Good(m, NoCall, serial, told', bus, pending', exports)
    BY DEF Mail
  <2>1. Good(m, call, serial, told, bus, pending, exports)
    BY <1>1 DEF IInv, Mail
  <2> QED BY <1>2, <1>3, <2>1, GoodOver
<1>6. Wire'
  <2>1. Wired(bus.wire, call, serial, pending)
    BY DEF IInv, Wire
  <2>2. Wired(bus.wire, NoCall, serial, pending')
    BY <1>2, <1>3, <2>1, WiredOver
  <2> QED BY <2>2 DEF Wire
<1> QED BY <1>4, <1>5, <1>6

(* A new call: nothing on the way answers it yet.                          *)
LEMMA Begun ==
  ASSUME IInv, NEW method, NEW dest, NEW again, Sending(method, dest, again),
         method \in {"Hello", "GetNameOwner", "StartServiceByName", "AddFull"}, UNCHANGED <<bus, exports, told>>,
         inbox' = inbox \/ (inbox # <<>> /\ inbox' = Tail(inbox)),
         OwnerOK(owner', told, bus),
         IF method = "AddFull" THEN dest \in bus.used /\ dest \notin told ELSE dest = Bus
  PROVE  Naming' /\ Mail' /\ Wire'
<1>1. IsSeq(inbox') /\ Elements(inbox') \subseteq Elements(inbox)
  BY HeadIn DEF IInv, Naming
<1>2. serial \in Nat /\ BusOK(bus) /\ ToldOK(told, bus)
  BY DEF IInv, Naming
<1>3. /\ call'.method = method /\ call'.dest = dest /\ call'.serial = serial + 1
      /\ serial' = serial + 1 /\ step' = "send"
  BY DEF Sending
<1>4. Naming'
  <2>1. CallOK(call', serial', told, bus)
    BY <1>3 DEF CallOK
  <2> QED BY <1>1, <1>2, <1>3, <2>1 DEF Naming
<1>5. Mail'
  <2> SUFFICES ASSUME NEW m \in Elements(inbox')
               PROVE  Good(m, call', serial', told, bus, pending', exports)
    BY DEF Mail
  <2>1. Good(m, call, serial, told, bus, pending, exports)
    BY <1>1 DEF IInv, Mail
  <2>2. serial' \in Nat /\ serial <= serial'
    BY <1>2, <1>3
  <2> QED BY <1>2, <1>3, <2>1, <2>2, GoodOver
<1>6. Wire'
  <2>1. Wired(bus.wire, call, serial, pending)
    BY DEF IInv, Wire
  <2>2. serial' \in Nat /\ serial <= serial'
    BY <1>2, <1>3
  <2>3. Wired(bus.wire, call', serial', pending')
    BY <1>2, <1>3, <2>1, <2>2, WiredOver
  <2> QED BY <2>3 DEF Wire
<1> QED BY <1>4, <1>5, <1>6

(* A call that goes on as it was.                                          *)
LEMMA GoesOn ==
  ASSUME IInv, UNCHANGED <<call, serial, pending, owner, told>>,
         step' = step \/ (step = "send" /\ step' = "await") \/ (step \notin {"send", "await"} /\ step' \notin {"send", "await"}),
         IsSeq(inbox'), BusOK(bus'), Grown(bus, bus'), exports \subseteq exports',
         \A m \in Elements(inbox') :
            m \in Elements(inbox) \/ Good(m, call, serial, told, bus', pending, exports')
  PROVE  Naming' /\ Mail'
<1>1. /\ serial \in Nat /\ BusOK(bus) /\ ToldOK(told, bus) /\ OwnerOK(owner, told, bus)
      /\ CallOK(call, serial, told, bus) /\ (step \in {"send", "await"} <=> call.method # "none")
  BY DEF IInv, Naming
<1>2. ToldOK(told, bus')
  <2> SUFFICES ASSUME NEW x \in told, x # Bus PROVE x \in bus'.used /\ x # bus'.holder
    BY DEF ToldOK
  <2>1. x \in bus.used /\ x # bus.holder /\ x \in Peers
    BY <1>1 DEF ToldOK, BusOK
  <2> QED BY <2>1, PeersAssumption DEF Grown
<1>3. OwnerOK(owner, told, bus') /\ CallOK(call, serial, told, bus')
  BY <1>1 DEF OwnerOK, CallOK, Grown
<1>4. step' \in {"send", "await"} <=> call.method # "none"
  BY <1>1
<1>5. Naming'
  BY <1>1, <1>2, <1>3, <1>4 DEF Naming
<1>6. Mail'
  <2> SUFFICES ASSUME NEW m \in Elements(inbox')
               PROVE  Good(m, call, serial, told, bus', pending, exports')
    BY DEF Mail
  <2>1. CASE m \in Elements(inbox)
    <3>1. Good(m, call, serial, told, bus, pending, exports)
      BY <2>1 DEF IInv, Mail
    <3> QED BY <1>1, <3>1, GoodKept
  <2>2. CASE m \notin Elements(inbox)
    BY <2>2
  <2> QED BY <2>1, <2>2
<1> QED BY <1>5, <1>6

(* Where the session is busy, forwarded_or() waits for it.                 *)
Busy == phase \in {"connect", "calling"} /\ step # "ready"
LEMMA BusyWhen ==
  ASSUME IInv, step \in {"auth", "negotiate", "send", "await"} \/ (phase = "connect" /\ step = "closed")
  PROVE  Busy /\ ~broken /\ phase # "done"
BY DEF IInv, Calling, Busy

LEMMA EndedCalling ==
  ASSUME IInv, Rest, Busy, step' = "ready", call' = NoCall, UNCHANGED exports,
         result'.tag = "ok" /\ phase = "calling" => Handed(result'.ids, Asked, exports)
  PROVE  Calling'
<1>1. Asked' = Asked /\ Group' = Group
  BY AskedSame
<1>2. UNCHANGED <<phase, broken, argv>>
  BY DEF Rest, mine
<1>3. NoCall.method = "none"
  BY DEF NoCall
<1>4. phase' = "calling" =>
       /\ ~broken' /\ Group' # <<>> /\ step' \in {"send", "await", "ready"}
       /\ step' # "ready" => pending' = <<Asked'>>
       /\ step' = "ready" /\ result'.tag = "ok" => Handed(result'.ids, Asked', exports')
  BY <1>1, <1>2 DEF IInv, Calling
<1>5. broken' => phase' \in {"open", "done"} /\ step' = "ready"
  BY <1>2 DEF IInv, Calling
<1>6. phase' # "done" => argv' = <<>>
  BY <1>2 DEF IInv, Calling
<1> QED BY <1>2, <1>3, <1>4, <1>5, <1>6 DEF Calling, Busy

LEMMA BusyCalling ==
  ASSUME IInv, Rest, Busy, step' \in {"auth", "negotiate", "send", "await"}, UNCHANGED pending,
         phase = "calling" => step' \in {"send", "await"},
         call'.method \notin {"none", "Hello"} => phase = "calling"
  PROVE  Calling'
<1>1. Asked' = Asked /\ Group' = Group
  BY AskedSame
<1>2. UNCHANGED <<phase, broken, argv>>
  BY DEF Rest, mine
<1>4. phase' = "calling" =>
       /\ ~broken' /\ Group' # <<>> /\ step' \in {"send", "await", "ready"}
       /\ step' # "ready" => pending' = <<Asked'>>
       /\ step' = "ready" /\ result'.tag = "ok" => Handed(result'.ids, Asked', exports')
  BY <1>1, <1>2 DEF IInv, Calling, Busy
<1>5. ~broken'
  BY <1>2 DEF IInv, Calling, Busy
<1>6. phase' # "done" => argv' = <<>>
  BY <1>2 DEF IInv, Calling
<1> QED BY <1>2, <1>4, <1>5, <1>6 DEF Calling, Busy

(* A call that ends without documents.                                     *)
LEMMA ReturnKept ==
  ASSUME IInv, Rest, Busy, NEW tag, NEW ids, Return(tag, ids), tag # "ok",
         UNCHANGED <<serial, bus, exports>>,
         inbox' = inbox \/ (inbox # <<>> /\ inbox' = Tail(inbox)),
         ToldOK(told', bus), OwnerOK(owner', told', bus)
  PROVE  IInv'
<1>1. step' = "ready" /\ call' = NoCall /\ result'.tag # "ok"
  BY DEF Return
<1>2. Naming' /\ Mail' /\ Wire'
  BY <1>1, Ended
<1>3. Calling'
  BY <1>1, EndedCalling
<1>4. Files' /\ Answering' /\ Rewriting'
  BY RestSame
<1> QED BY <1>2, <1>3, <1>4 DEF IInv

LEMMA FailKept ==
  ASSUME IInv, Rest, Busy, Fail
  PROVE  IInv'
<1>1. ToldOK(told', bus) /\ OwnerOK(owner', told', bus)
  BY DEF Fail, IInv, Naming
<1> QED BY <1>1, ReturnKept DEF Fail

LEMMA ConnectKept ==
  ASSUME IInv, phase = "connect", Connect, Rest
  PROVE  IInv'
<1>1. Busy
  BY BusyWhen DEF Connect
<1>2. CASE Return("wire", <<>>)
  BY <1>1, <1>2, FailKept DEF Connect, Fail
<1>3. CASE step' = "auth" /\ UNCHANGED <<pending, call, result>>
  <2>1. UNCHANGED <<owner, serial, inbox, bus, exports, told>> /\ step = "closed"
    BY DEF Connect
  <2>2. IsSeq(inbox') /\ BusOK(bus') /\ Grown(bus, bus')
    BY <2>1 DEF IInv, Naming, Grown
  <2>3. Naming' /\ Mail'
    BY <1>3, <2>1, <2>2, GoesOn
  <2>4. Wire'
    BY <1>3, <2>1 DEF IInv, Wire
  <2>5. call'.method = "none"
    BY <1>3, <2>1 DEF IInv, Naming
  <2>6. Calling'
    BY <1>1, <1>3, <2>5, BusyCalling
  <2>7. Files' /\ Answering' /\ Rewriting'
    BY <2>1, RestSame
  <2> QED BY <2>3, <2>4, <2>6, <2>7 DEF IInv
<1> QED BY <1>2, <1>3 DEF Connect

LEMMA AuthLineKept ==
  ASSUME IInv, AuthLine, Rest
  PROVE  IInv'
<1> DEFINE text == Head(inbox).text
<1>1. /\ step \in {"auth", "negotiate"} /\ inbox # <<>> /\ inbox' = Tail(inbox)
      /\ UNCHANGED <<owner, bus, exports, told>>
  BY DEF AuthLine
<1>2. Busy /\ phase = "connect"
  <2>1. Busy
    BY <1>1, BusyWhen
  <2> QED BY <1>1, <2>1 DEF IInv, Calling, Busy
<1>3. IsSeq(inbox') /\ Elements(inbox') \subseteq Elements(inbox)
  BY <1>1, HeadIn DEF IInv, Naming
<1>4. BusOK(bus) /\ ToldOK(told, bus) /\ OwnerOK(owner, told, bus)
  BY DEF IInv, Naming
<1>5. CASE /\ step = "auth" /\ step' = "negotiate"
           /\ UNCHANGED <<pending, call, serial, passing, late, result>>
  <2>1. BusOK(bus') /\ Grown(bus, bus')
    BY <1>1, <1>4 DEF Grown
  <2>2. Naming' /\ Mail'
    BY <1>1, <1>3, <1>5, <2>1, GoesOn
  <2>3. Wire'
    BY <1>1, <1>5 DEF IInv, Wire
  <2>4. call'.method = "none"
    BY <1>1, <1>5 DEF IInv, Naming
  <2>5. Calling'
    BY <1>2, <1>5, <2>4, BusyCalling
  <2>6. Files' /\ Answering' /\ Rewriting'
    BY <1>1, RestSame
  <2> QED BY <2>2, <2>3, <2>5, <2>6 DEF IInv
<1>6. CASE Sending("Hello", Bus, FALSE) /\ UNCHANGED <<pending, late, result>>
  <2>2. Naming' /\ Mail' /\ Wire'
    BY <1>1, <1>4, <1>6, Begun
  <2>3. step' = "send" /\ call'.method = "Hello"
    BY <1>6 DEF Sending
  <2>4. Calling'
    BY <1>2, <1>6, <2>3, BusyCalling
  <2>5. Files' /\ Answering' /\ Rewriting'
    BY <1>1, RestSame
  <2> QED BY <2>2, <2>4, <2>5 DEF IInv
<1>7. CASE Return("wire", <<>>) /\ UNCHANGED <<serial, passing>>
  BY <1>1, <1>2, <1>4, <1>7, ReturnKept
<1> QED BY <1>5, <1>6, <1>7 DEF AuthLine

LEMMA SendKept ==
  ASSUME IInv, Send, Rest
  PROVE  IInv'
<1> DEFINE w == [method |-> call.method, dest |-> call.dest, serial |-> call.serial, pending |-> pending]
<1>1. step = "send"
  BY DEF Send
<1>2. Busy
  BY <1>1, BusyWhen
<1>3. CASE bus.gone
  BY <1>2, <1>3, FailKept DEF Send
<1>4. CASE ~bus.gone
  <2>1. /\ step' = "await" /\ bus' = [bus EXCEPT !.wire = w]
        /\ UNCHANGED <<pending, call, owner, serial, passing, late, inbox, result, exports, told>>
    BY <1>4 DEF Send
  <2>2. BusOK(bus) /\ IsSeq(inbox) /\ serial \in Nat /\ CallOK(call, serial, told, bus) /\ call.method # "none"
    BY <1>1 DEF IInv, Naming
  <2>3. /\ bus'.gone = bus.gone /\ bus'.holder = bus.holder /\ bus'.used = bus.used
        /\ bus'.wire = w /\ BusOK(bus')
    BY <2>1, <2>2 DEF BusOK
  <2>4. Naming' /\ Mail'
    <3>1. Grown(bus, bus')
      BY <2>3 DEF Grown
    <3> QED BY <1>1, <2>1, <2>2, <2>3, <3>1, GoesOn
  <2>5. Wire'
    <3>1. ASSUME call.dest \in Peers PROVE \A f \in Elements(pending[1].fds) : Regular(f)
      <4>1. phase = "calling" /\ pending = <<Asked>>
        <5>1. call.method = "AddFull"
          BY <2>2, <3>1, PeersAssumption DEF CallOK
        <5> QED BY <1>1, <5>1 DEF IInv, Calling
      <4>2. From(opened, {k \in DOMAIN opened : candidates[opened[k].index].write = Head(sets)}, Group)
        <5>1. Len(opened) \in Nat
          BY SeqIsSeq DEF IInv, Files, IsSeq
        <5> QED BY <5>1, PickedFrom DEF Group
      <4>3. pending[1].fds = [k \in DOMAIN Group |-> Group[k].file]
        BY <4>1 DEF Asked
      <4>4. ASSUME NEW k \in DOMAIN Group PROVE Regular(Group[k].file)
        <5>1. PICK j \in DOMAIN opened : Group[k] = opened[j]
          BY <4>2 DEF From
        <5> QED BY <5>1 DEF IInv, Files, Elements
      <4> QED BY <4>3, <4>4 DEF Elements
    <3>2. w.serial = serial
      BY <2>2 DEF CallOK
    <3>3. Wired(w, call, serial, pending)
      BY <2>2, <3>1, <3>2 DEF Wired
    <3> QED BY <2>1, <2>3, <3>3 DEF Wire
  <2>6. Calling'
    <3>1. call.method \notin {"none", "Hello"} => phase = "calling"
      BY DEF IInv, Calling
    <3> QED BY <1>2, <2>1, <3>1, BusyCalling
  <2>7. Files' /\ Answering' /\ Rewriting'
    BY <2>1, RestSame
  <2> QED BY <2>4, <2>5, <2>6, <2>7 DEF IInv
<1> QED BY <1>3, <1>4

LEMMA ExpireKept ==
  ASSUME IInv, Expire, Rest
  PROVE  IInv'
<1>1. UNCHANGED <<step, pending, call, owner, serial, inbox, result, bus, exports, told>>
  BY DEF Expire
<1>2. Naming' /\ Mail' /\ Wire'
  BY <1>1 DEF IInv, Naming, Mail, Wire
<1>3. Asked' = Asked /\ Group' = Group /\ UNCHANGED <<phase, broken, argv>>
  BY AskedSame DEF Rest, mine
<1>4. Calling'
  BY <1>1, <1>3 DEF IInv, Calling
<1>5. Files' /\ Answering' /\ Rewriting'
  BY <1>1, RestSame
<1> QED BY <1>2, <1>4, <1>5 DEF IInv

LEMMA GivingUpKept ==
  ASSUME IInv, TimeOut \/ Closed, Rest
  PROVE  IInv'
<1>1. step \in {"auth", "negotiate", "send", "await"} /\ Fail
  BY DEF TimeOut, Closed
<1>2. Busy
  BY <1>1, BusyWhen
<1> QED BY <1>1, <1>2, FailKept

LEMMA ReturnedKept ==
  ASSUME IInv, Rest, Busy, step = "await", NEW m \in Elements(inbox), m.kind = "return",
         Answers(m), Trusted(m), inbox # <<>>, inbox' = Tail(inbox), Returned(m), UNCHANGED <<bus, exports>>
  PROVE  IInv'
<1>1. /\ BusOK(bus) /\ ToldOK(told, bus) /\ OwnerOK(owner, told, bus)
      /\ CallOK(call, serial, told, bus) /\ call.method # "none"
  BY DEF IInv, Naming
<1>2. Says(m, call, told, bus, pending, exports) /\ m.sender = call.dest
  BY <1>1 DEF IInv, Mail, Good, Answers, Trusted
<1>3. CASE call.method = "Hello"
  <2>1. Return("open", <<>>) /\ UNCHANGED <<owner, serial, told>>
    BY <1>3 DEF Returned
  <2> QED BY <1>1, <2>1, ReturnKept
<1>4. CASE call.method = "GetNameOwner"
  <2>1. /\ owner' = m.ids[1] /\ Sending("AddFull", m.ids[1], FALSE)
        /\ UNCHANGED <<pending, late, result, told>>
    BY <1>4 DEF Returned
  <2>2. m.ids[1] \in bus.used /\ m.ids[1] \notin told
    BY <1>1, <1>2, <1>4 DEF Says, CallOK
  <2>3. OwnerOK(owner', told, bus)
    BY <2>1, <2>2 DEF OwnerOK
  <2>4. Naming' /\ Mail' /\ Wire'
    BY <2>1, <2>2, <2>3, Begun
  <2>5. step' = "send" /\ phase = "calling"
    BY <1>4, <2>1 DEF Sending, IInv, Calling
  <2>6. Calling'
    BY <2>1, <2>5, BusyCalling
  <2>7. Files' /\ Answering' /\ Rewriting'
    BY RestSame
  <2> QED BY <2>4, <2>6, <2>7 DEF IInv
<1>5. CASE call.method = "StartServiceByName"
  <2>1. Sending("GetNameOwner", Bus, TRUE) /\ UNCHANGED <<pending, owner, late, result, told>>
    BY <1>5 DEF Returned
  <2>2. Naming' /\ Mail' /\ Wire'
    BY <1>1, <2>1, Begun
  <2>3. step' = "send" /\ phase = "calling"
    BY <1>5, <2>1 DEF Sending, IInv, Calling
  <2>4. Calling'
    BY <2>1, <2>3, BusyCalling
  <2>5. Files' /\ Answering' /\ Rewriting'
    BY RestSame
  <2> QED BY <2>2, <2>4, <2>5 DEF IInv
<1>6. CASE call.method = "AddFull"
  <2>1. Return("ok", m.ids) /\ UNCHANGED <<owner, serial, told>>
    BY <1>6 DEF Returned
  <2>2. step' = "ready" /\ call' = NoCall /\ result'.ids = m.ids
    BY <2>1 DEF Return
  <2>3. Naming' /\ Mail' /\ Wire'
    BY <1>1, <2>1, <2>2, Ended
  <2>4. pending = <<Asked>>
    BY <1>6 DEF IInv, Calling
  <2>5. m.sender \in Peers
    BY <1>1, <1>2, <1>6 DEF CallOK, BusOK
  <2>6. Handed(m.ids, pending[1], exports)
    BY <1>2, <1>6, <2>5 DEF Says
  <2>7. Handed(m.ids, Asked, exports)
    BY <2>4, <2>6
  <2>8. Calling'
    BY <2>2, <2>7, EndedCalling
  <2>9. Files' /\ Answering' /\ Rewriting'
    BY RestSame
  <2> QED BY <2>3, <2>8, <2>9 DEF IInv
<1> QED BY <1>1, <1>3, <1>4, <1>5, <1>6 DEF CallOK

LEMMA ErroredKept ==
  ASSUME IInv, Rest, Busy, step = "await", NEW m \in Elements(inbox), m.kind = "error",
         Answers(m), inbox # <<>>, inbox' = Tail(inbox), Errored(m), UNCHANGED <<bus, exports>>
  PROVE  IInv'
<1>1. /\ BusOK(bus) /\ ToldOK(told, bus) /\ OwnerOK(owner, told, bus)
      /\ CallOK(call, serial, told, bus) /\ call.method # "none"
  BY DEF IInv, Naming
<1>2. Says(m, call, told, bus, pending, exports)
  BY <1>1 DEF IInv, Mail, Good, Answers
<1>3. CASE call.method = "GetNameOwner" /\ m.err = NoOwner /\ ~call.again
  <2>1. Sending("StartServiceByName", Bus, FALSE) /\ UNCHANGED <<pending, owner, late, result, told>>
    BY <1>3 DEF Errored
  <2>2. Naming' /\ Mail' /\ Wire'
    BY <1>1, <2>1, Begun
  <2>3. step' = "send" /\ phase = "calling"
    BY <1>3, <2>1 DEF Sending, IInv, Calling
  <2>4. Calling'
    BY <2>1, <2>3, BusyCalling
  <2>5. Files' /\ Answering' /\ Rewriting'
    BY RestSame
  <2> QED BY <2>2, <2>4, <2>5 DEF IInv
<1>4. CASE ~(call.method = "GetNameOwner" /\ m.err = NoOwner /\ ~call.again)
  <2>1. /\ Return("remote", <<>>) /\ UNCHANGED serial
        /\ owner' = IF call.method = "AddFull" /\ Forgets(m.err) THEN NoName ELSE owner
        /\ told' = IF m.sender = Bus /\ m.err = Unknown THEN told \cup {call.dest} ELSE told
    BY <1>4 DEF Errored
  <2>2. CASE ~(m.sender = Bus /\ m.err = Unknown)
    <3>1. told' = told
      BY <2>1, <2>2
    <3>2. OwnerOK(owner', told, bus)
      BY <1>1, <2>1 DEF OwnerOK
    <3> QED BY <1>1, <2>1, <3>1, <3>2, ReturnKept
  <2>3. CASE m.sender = Bus /\ m.err = Unknown
    <3>1. told' = told \cup {call.dest} /\ Forgets(m.err)
      BY <2>1, <2>3 DEF Forgets
    <3>2. call.method = "AddFull" => call.dest \in bus.used /\ call.dest # bus.holder
      BY <1>1, <1>2, <2>3 DEF CallOK, Says
    <3>3. call.method # "AddFull" => call.dest = Bus
      BY <1>1 DEF CallOK
    <3>4. ToldOK(told', bus)
      BY <1>1, <3>1, <3>2, <3>3 DEF ToldOK
    <3>5. OwnerOK(owner', told', bus)
      <4>1. CASE call.method = "AddFull"
        BY <2>1, <3>1, <4>1 DEF OwnerOK
      <4>2. CASE call.method # "AddFull"
        <5>1. owner' = owner /\ Bus \notin bus.used
          BY <1>1, <2>1, <4>2, PeersAssumption DEF BusOK
        <5> QED BY <1>1, <3>1, <3>3, <4>2, <5>1 DEF OwnerOK
      <4> QED BY <4>1, <4>2
    <3> QED BY <2>1, <3>4, <3>5, ReturnKept
  <2> QED BY <2>2, <2>3
<1> QED BY <1>3, <1>4

LEMMA ReceiveKept ==
  ASSUME IInv, Receive, Rest
  PROVE  IInv'
<1> DEFINE m == Head(inbox)
<1>1. step = "await" /\ inbox # <<>> /\ inbox' = Tail(inbox) /\ UNCHANGED <<passing, bus, exports>>
  BY DEF Receive
<1>2. Busy
  BY <1>1, BusyWhen
<1>3. m \in Elements(inbox) /\ IsSeq(inbox') /\ Elements(inbox') \subseteq Elements(inbox)
  BY <1>1, HeadIn DEF IInv, Naming
<1>4. BusOK(bus) /\ ToldOK(told, bus) /\ OwnerOK(owner, told, bus)
  BY DEF IInv, Naming
<1>5. CASE ~m.ok
  <2>1. Broken
    BY <1>5 DEF Receive
  <2> QED BY <1>1, <1>2, <1>4, <2>1, ReturnKept DEF Broken
<1>6. CASE m.ok /\ (~Answers(m) \/ ~Trusted(m))
  <2>1. Skip
    BY <1>6 DEF Receive
  <2>2. UNCHANGED <<step, pending, call, owner, serial, late, result, told>>
    BY <2>1 DEF Skip
  <2>3. Naming' /\ Mail'
    <3>1. BusOK(bus') /\ Grown(bus, bus') /\ exports \subseteq exports'
      BY <1>1, <1>4 DEF Grown
    <3> QED BY <1>1, <1>3, <2>2, <3>1, GoesOn
  <2>4. Wire'
    BY <1>1, <2>2 DEF IInv, Wire
  <2>5. Calling'
    <3>1. call'.method \notin {"none", "Hello"} => phase = "calling"
      BY <2>2 DEF IInv, Calling
    <3> QED BY <1>1, <1>2, <2>2, <3>1, BusyCalling
  <2>6. Files' /\ Answering' /\ Rewriting'
    BY <1>1, RestSame
  <2> QED BY <2>3, <2>4, <2>5, <2>6 DEF IInv
<1>7. CASE m.ok /\ Answers(m) /\ Trusted(m)
  <2>1. m.kind = "return" \/ m.kind = "error"
    BY <1>7 DEF Answers
  <2>2. CASE m.kind = "return"
    <3>1. Returned(m)
      BY <1>7, <2>2 DEF Receive
    <3> HIDE DEF m
    <3> QED BY <1>1, <1>2, <1>3, <1>7, <2>2, <3>1, ReturnedKept
  <2>3. CASE m.kind = "error"
    <3>1. Errored(m)
      BY <1>7, <2>3 DEF Receive
    <3> HIDE DEF m
    <3> QED BY <1>1, <1>2, <1>3, <1>7, <2>3, <3>1, ErroredKept
  <2> QED BY <2>1, <2>2, <2>3
<1> QED BY <1>5, <1>6, <1>7

(* ----------------- steps of the bus and its other clients -------------- *)

LEMMA WorldKept ==
  ASSUME IInv, Rest, Quiet, BusOK(bus'), Grown(bus, bus'),
         bus'.wire = NoWire \/ bus'.wire = bus.wire,
         exports \subseteq exports', \A e \in exports' : Regular(e.file),
         \/ inbox' = inbox
         \/ \E m : inbox' = Append(inbox, m) /\ Good(m, call, serial, told, bus', pending, exports')
  PROVE  IInv'
<1>1. UNCHANGED <<step, pending, call, owner, serial, result, told>>
  BY DEF Quiet
<1>2. /\ IsSeq(inbox')
      /\ \A m \in Elements(inbox') :
           m \in Elements(inbox) \/ Good(m, call, serial, told, bus', pending, exports')
  <2>1. IsSeq(inbox)
    BY DEF IInv, Naming
  <2>2. CASE inbox' = inbox
    BY <2>1, <2>2
  <2>3. ASSUME NEW m, inbox' = Append(inbox, m), Good(m, call, serial, told, bus', pending, exports')
        PROVE  /\ IsSeq(inbox')
               /\ \A k \in Elements(inbox') :
                    k \in Elements(inbox) \/ Good(k, call, serial, told, bus', pending, exports')
    BY <2>1, <2>3, AppendIn
  <2> QED BY <2>2, <2>3
<1>3. Naming' /\ Mail'
  BY <1>1, <1>2, GoesOn
<1>4. Wire'
  <2>1. Wired(bus'.wire, call, serial, pending)
    BY DEF IInv, Wire, Wired
  <2> QED BY <1>1, <2>1 DEF Wire
<1>5. Calling'
  <2>1. Asked' = Asked /\ Group' = Group /\ UNCHANGED <<phase, broken, argv>>
    BY AskedSame DEF Rest, mine
  <2>2. phase = "calling" /\ step = "ready" /\ result.tag = "ok" => Handed(result.ids, Asked, exports')
    BY HandedKept DEF IInv, Calling
  <2> QED BY <1>1, <2>1, <2>2 DEF IInv, Calling
<1>6. Files' /\ Answering' /\ Rewriting'
  BY RestKept
<1> QED BY <1>3, <1>4, <1>5, <1>6 DEF IInv

LEMMA BusHandled ==
  ASSUME BusOK(bus), Handled
  PROVE  /\ BusOK(bus') /\ Grown(bus, bus') /\ bus'.wire = NoWire
         /\ bus'.holder = bus.holder /\ bus'.used = bus.used
BY DEF BusOK, Handled, Grown

LEMMA BusLineKept ==
  ASSUME IInv, Rest, NEW text, BusLine(text)
  PROVE  IInv'
<1>1. /\ Quiet /\ UNCHANGED <<bus, exports>> /\ inbox' = Append(inbox, Line(text))
  BY DEF BusLine, Quiet, Arrives
<1>2. BusOK(bus') /\ Grown(bus, bus')
  BY <1>1 DEF IInv, Naming, Grown
<1>3. Good(Line(text), call, serial, told, bus', pending, exports')
  BY DEF Good, Line
<1>4. \A e \in exports' : Regular(e.file)
  BY <1>1 DEF IInv, Files
<1> QED BY <1>1, <1>2, <1>3, <1>4, WorldKept

LEMMA BusAnswersKept ==
  ASSUME IInv, Rest, BusAnswers
  PROVE  IInv'
<1> DEFINE M(kind, err, ids) == Message(kind, Bus, bus.wire.serial, err, ids, TRUE)
<1>1. bus.wire # NoWire /\ bus.wire.dest = Bus /\ UNCHANGED exports /\ Quiet
  BY DEF BusAnswers
<1>2. BusOK(bus) /\ ToldOK(told, bus) /\ CallOK(call, serial, told, bus) /\ Bus \notin Peers
  BY PeersAssumption DEF IInv, Naming
<1>3. \A e \in exports' : Regular(e.file)
  BY <1>1 DEF IInv, Files
<1>4. /\ bus.wire.serial \in Nat /\ bus.wire.serial <= serial
      /\ bus.wire.serial = call.serial /\ call.method # "none" =>
           bus.wire.method = call.method /\ call.method # "AddFull"
  BY <1>1, <1>2 DEF IInv, Wire, Wired, CallOK, BusOK
<1>5. ASSUME NEW kind, NEW err, NEW ids, NEW b,
             kind = "return" /\ bus.wire.method = "GetNameOwner" => ids[1] \in b.used \ told
      PROVE  Good(M(kind, err, ids), call, serial, told, b, pending, exports')
  <2> DEFINE m == M(kind, err, ids)
  <2>1. m.kind = kind /\ m.sender = Bus /\ m.serial = bus.wire.serial /\ m.ids = ids
    BY DEF Message
  <2> HIDE DEF m
  <2>2. m.serial = call.serial /\ call.method # "none" => Says(m, call, told, b, pending, exports')
    BY <1>2, <1>4, <1>5, <2>1 DEF Says
  <2>3. Good(m, call, serial, told, b, pending, exports')
    BY <1>4, <2>1, <2>2 DEF Good
  <2> QED BY <2>3 DEF m
<1>6. ASSUME NEW kind, NEW err, NEW ids, inbox' = Append(inbox, M(kind, err, ids)),
             kind = "return" /\ bus.wire.method = "GetNameOwner" => ids[1] \in bus'.used \ told,
             BusOK(bus'), Grown(bus, bus'), bus'.wire = NoWire
      PROVE  IInv'
  <2>1. Good(M(kind, err, ids), call, serial, told, bus', pending, exports')
    BY <1>5, <1>6
  <2> HIDE DEF M
  <2> QED BY <1>1, <1>3, <1>6, <2>1, WorldKept
<1>7. CASE bus.wire.method = "Hello"
  <2>1. inbox' = Append(inbox, M("return", "", <<>>)) /\ Handled
    BY <1>7 DEF BusAnswers, FromBus, Arrives
  <2> HIDE DEF M
  <2> QED BY <1>2, <1>6, <1>7, <2>1, BusHandled
<1>8. CASE bus.wire.method = "GetNameOwner"
  <2>1. Handled /\ IF bus.holder = NoName THEN FromBus("error", NoOwner, <<>>)
                   ELSE FromBus("return", "", <<bus.holder>>)
    BY <1>8 DEF BusAnswers
  <2>2. CASE bus.holder = NoName
    <3>1. inbox' = Append(inbox, M("error", NoOwner, <<>>))
      BY <2>1, <2>2 DEF FromBus, Arrives
    <3> HIDE DEF M
    <3> QED BY <1>2, <1>6, <2>1, <3>1, BusHandled
  <2>3. CASE bus.holder # NoName
    <3>1. inbox' = Append(inbox, M("return", "", <<bus.holder>>))
      BY <2>1, <2>3 DEF FromBus, Arrives
    <3>2. bus.holder \in bus.used /\ bus.holder \notin told
      BY <1>2, <2>3 DEF BusOK, ToldOK
    <3>3. <<bus.holder>>[1] \in bus'.used \ told
      BY <1>2, <2>1, <3>2, BusHandled
    <3> HIDE DEF M
    <3> QED BY <1>2, <1>6, <2>1, <3>1, <3>3, BusHandled
  <2> QED BY <2>2, <2>3
<1>9. CASE bus.wire.method \notin {"Hello", "GetNameOwner"}
  <2>1. \/ bus.holder # NoName /\ FromBus("return", "", <<>>) /\ Handled
        \/ /\ bus.holder = NoName
           /\ \E p \in Peers \ bus.used :
                bus' = [bus EXCEPT !.wire = NoWire, !.holder = p, !.used = @ \cup {p}]
           /\ FromBus("return", "", <<>>)
        \/ bus.holder = NoName /\ FromBus("error", Unknown, <<>>) /\ Handled
    BY <1>9 DEF BusAnswers
  <2>2. CASE Handled /\ FromBus("return", "", <<>>)
    <3>1. inbox' = Append(inbox, M("return", "", <<>>))
      BY <2>2 DEF FromBus, Arrives
    <3> HIDE DEF M
    <3> QED BY <1>2, <1>6, <1>9, <2>2, <3>1, BusHandled
  <2>3. CASE Handled /\ FromBus("error", Unknown, <<>>)
    <3>1. inbox' = Append(inbox, M("error", Unknown, <<>>))
      BY <2>3 DEF FromBus, Arrives
    <3> HIDE DEF M
    <3> QED BY <1>2, <1>6, <1>9, <2>3, <3>1, BusHandled
  <2>4. ASSUME NEW p \in Peers \ bus.used, FromBus("return", "", <<>>),
               bus' = [bus EXCEPT !.wire = NoWire, !.holder = p, !.used = @ \cup {p}]
        PROVE  IInv'
    <3>1. inbox' = Append(inbox, M("return", "", <<>>))
      BY <2>4 DEF FromBus, Arrives
    <3>2. BusOK(bus') /\ bus'.wire = NoWire /\ bus'.holder = p /\ bus'.used = bus.used \cup {p}
      BY <1>2, <2>4 DEF BusOK
    <3>3. Grown(bus, bus')
      BY <3>2 DEF Grown
    <3> HIDE DEF M
    <3> QED BY <1>6, <1>9, <3>1, <3>2, <3>3
  <2> QED BY <2>1, <2>2, <2>3, <2>4
<1> QED BY <1>7, <1>8, <1>9

LEMMA BusBouncesKept ==
  ASSUME IInv, Rest, BusBounces
  PROVE  IInv'
<1> DEFINE m == Message("error", Bus, bus.wire.serial, Unknown, <<>>, TRUE)
<1>1. /\ bus.wire # NoWire /\ bus.wire.dest # bus.holder /\ UNCHANGED exports /\ Quiet /\ Handled
      /\ inbox' = Append(inbox, m)
  BY DEF BusBounces, FromBus, Arrives
<1>2. m.kind = "error" /\ m.sender = Bus /\ m.serial = bus.wire.serial
  BY DEF Message
<1> HIDE DEF m
<1>3. BusOK(bus) /\ Bus \notin Peers
  BY PeersAssumption DEF IInv, Naming
<1>4. /\ BusOK(bus') /\ Grown(bus, bus') /\ bus'.wire = NoWire /\ bus'.holder = bus.holder
  BY <1>1, <1>3, BusHandled
<1>5. /\ bus.wire.serial \in Nat /\ bus.wire.serial <= serial
      /\ bus.wire.serial = call.serial /\ call.method # "none" => bus.wire.dest = call.dest
  BY <1>1 DEF IInv, Wire, Wired
<1>6. m.serial = call.serial /\ call.method # "none" => Says(m, call, told, bus', pending, exports')
  BY <1>1, <1>2, <1>3, <1>4, <1>5 DEF Says
<1>7. Good(m, call, serial, told, bus', pending, exports')
  BY <1>2, <1>5, <1>6 DEF Good
<1>8. \A e \in exports' : Regular(e.file)
  BY <1>1 DEF IInv, Files
<1> QED BY <1>1, <1>4, <1>7, <1>8, WorldKept

LEMMA ServiceAnswersKept ==
  ASSUME IInv, Rest, ServiceAnswers
  PROVE  IInv'
<1> DEFINE p == bus.wire.pending[1]
           M(kind, err, ids, ok) == Message(kind, bus.holder, bus.wire.serial, err, ids, ok)
           new == {[file |-> f, write |-> p.write] : f \in Elements(p.fds)}
<1>1. bus.wire # NoWire /\ bus.wire.dest \in Peers /\ bus.wire.dest = bus.holder /\ Handled /\ Quiet
  BY DEF ServiceAnswers
<1>2. BusOK(bus) /\ Bus \notin Peers
  BY PeersAssumption DEF IInv, Naming
<1>3. BusOK(bus') /\ Grown(bus, bus') /\ bus'.wire = NoWire
  BY <1>1, <1>2, BusHandled
<1>4. /\ bus.wire.serial \in Nat /\ bus.wire.serial <= serial
      /\ bus.wire.serial = call.serial /\ call.method # "none" => bus.wire.pending = pending
      /\ \A f \in Elements(p.fds) : Regular(f)
  BY <1>1 DEF IInv, Wire, Wired
<1>5. \A e \in exports : Regular(e.file)
  BY DEF IInv, Files
<1>6. ASSUME NEW kind, NEW err, NEW ids, NEW ok, kind # "line",
             kind = "return" => Handed(ids, p, exports')
      PROVE  Good(M(kind, err, ids, ok), call, serial, told, bus', pending, exports')
  <2> DEFINE m == M(kind, err, ids, ok)
  <2>1. m.kind = kind /\ m.sender = bus.holder /\ m.serial = bus.wire.serial /\ m.ids = ids
    BY DEF Message
  <2> HIDE DEF m, p
  <2>2. ASSUME m.serial = call.serial, call.method # "none"
        PROVE  Says(m, call, told, bus', pending, exports')
    <3>1. p = pending[1]
      BY <1>4, <2>1, <2>2 DEF p
    <3>2. m.sender # Bus
      BY <1>1, <1>2, <2>1
    <3> QED BY <1>6, <2>1, <3>1, <3>2 DEF Says
  <2>3. Good(m, call, serial, told, bus', pending, exports')
    BY <1>4, <1>6, <2>1, <2>2 DEF Good
  <2> QED BY <2>3 DEF m
<1>7. ASSUME exports' = exports \cup new,
             NEW ids \in {p.fds, Tail(p.fds)}, NEW ok, inbox' = Append(inbox, M("return", "", ids, ok))
      PROVE  IInv'
  <2>1. Handed(ids, p, exports')
    BY <1>7 DEF Handed
  <2>2. ASSUME NEW e \in exports' PROVE Regular(e.file)
    <3>1. CASE e \in exports
      BY <1>5, <3>1
    <3>2. CASE e \in new
      <4>1. PICK f \in Elements(p.fds) : e = [file |-> f, write |-> p.write]
        BY <3>2
      <4> QED BY <1>4, <4>1
    <3> HIDE DEF new
    <3> QED BY <1>7, <3>1, <3>2
  <2>3. Good(M("return", "", ids, ok), call, serial, told, bus', pending, exports')
    BY <1>6, <2>1
  <2>4. exports \subseteq exports'
    BY <1>7
  <2> HIDE DEF M, new, p
  <2> QED BY <1>1, <1>3, <1>7, <2>2, <2>3, <2>4, WorldKept
<1>8. ASSUME UNCHANGED exports, inbox' = Append(inbox, M("error", "NotAllowed", <<>>, TRUE))
      PROVE  IInv'
  <2>1. Good(M("error", "NotAllowed", <<>>, TRUE), call, serial, told, bus', pending, exports')
    BY <1>6
  <2> HIDE DEF M
  <2> QED BY <1>1, <1>3, <1>5, <1>8, <2>1, WorldKept
<1>9. \/ /\ exports' = exports \cup new
         /\ \E ids \in {p.fds, Tail(p.fds)}, ok \in BOOLEAN : inbox' = Append(inbox, M("return", "", ids, ok))
      \/ inbox' = Append(inbox, M("error", "NotAllowed", <<>>, TRUE)) /\ UNCHANGED exports
  BY DEF ServiceAnswers, Arrives
<1> HIDE DEF M, new, p
<1> QED BY <1>7, <1>8, <1>9

LEMMA ServiceLeavesKept ==
  ASSUME IInv, Rest, ServiceLeaves
  PROVE  IInv'
<1> DEFINE m == Message("error", Bus, bus.wire.serial, NoReply, <<>>, TRUE)
<1>1. UNCHANGED exports /\ Quiet
  BY DEF ServiceLeaves
<1>2. BusOK(bus)
  BY DEF IInv, Naming
<1>3. \A e \in exports' : Regular(e.file)
  BY <1>1 DEF IInv, Files
<1>4. CASE bus.wire # NoWire /\ bus.wire.dest = bus.holder
  <2>1. bus' = [bus EXCEPT !.holder = NoName, !.wire = NoWire] /\ inbox' = Append(inbox, m)
    BY <1>4 DEF ServiceLeaves, FromBus, Arrives
  <2>2. BusOK(bus') /\ bus'.wire = NoWire /\ Grown(bus, bus')
    BY <1>2, <2>1 DEF BusOK, Grown
  <2>3. m.kind = "error" /\ m.sender = Bus /\ m.serial = bus.wire.serial /\ m.err # Unknown
    BY DEF Message, NoReply, Unknown
  <2> HIDE DEF m
  <2>4. bus.wire.serial \in Nat /\ bus.wire.serial <= serial
    BY <1>4 DEF IInv, Wire, Wired
  <2>5. Good(m, call, serial, told, bus', pending, exports')
    BY <2>3, <2>4 DEF Good, Says
  <2> QED BY <1>1, <1>3, <2>1, <2>2, <2>5, WorldKept
<1>5. CASE ~(bus.wire # NoWire /\ bus.wire.dest = bus.holder)
  <2>1. bus' = [bus EXCEPT !.holder = NoName] /\ UNCHANGED inbox
    BY <1>5 DEF ServiceLeaves
  <2>2. BusOK(bus') /\ bus'.wire = bus.wire /\ Grown(bus, bus')
    BY <1>2, <2>1 DEF BusOK, Grown
  <2> QED BY <1>1, <1>3, <2>1, <2>2, WorldKept
<1> QED BY <1>4, <1>5

LEMMA StrangerSendsKept ==
  ASSUME IInv, Rest, StrangerSends
  PROVE  IInv'
<1>1. UNCHANGED <<bus, exports>> /\ Quiet
  BY DEF StrangerSends
<1>2. PICK kind \in {"return", "error", "signal"}, ok \in BOOLEAN :
        inbox' = Append(inbox, Message(kind, Stranger, serial, Unknown, <<Stranger>>, ok))
  BY DEF StrangerSends, Arrives
<1> DEFINE m == Message(kind, Stranger, serial, Unknown, <<Stranger>>, ok)
<1>3. m.sender = Stranger /\ m.serial = serial
  BY DEF Message
<1>4. inbox' = Append(inbox, m)
  BY <1>2
<1> HIDE DEF m
<1>5. BusOK(bus') /\ Grown(bus, bus') /\ serial \in Nat
  BY <1>1 DEF IInv, Naming, Grown
<1>6. Good(m, call, serial, told, bus', pending, exports')
  BY <1>3, <1>5, PeersAssumption DEF Good, Says
<1>7. \A e \in exports' : Regular(e.file)
  BY <1>1 DEF IInv, Files
<1> QED BY <1>1, <1>4, <1>5, <1>6, <1>7, WorldKept

LEMMA BusLeavesKept ==
  ASSUME IInv, Rest, BusLeaves
  PROVE  IInv'
<1>1. UNCHANGED <<inbox, exports>> /\ Quiet /\ bus' = [bus EXCEPT !.gone = TRUE]
  BY DEF BusLeaves
<1>2. BusOK(bus)
  BY DEF IInv, Naming
<1>3. BusOK(bus') /\ bus'.wire = bus.wire /\ Grown(bus, bus')
  BY <1>1, <1>2 DEF BusOK, Grown
<1>4. \A e \in exports' : Regular(e.file)
  BY <1>1 DEF IInv, Files
<1> QED BY <1>1, <1>3, <1>4, WorldKept

(* ----------------------- steps of forwarded_or() ----------------------- *)

LEMMA SessionSame ==
  ASSUME IInv, UNCHANGED svars
  PROVE  Naming' /\ Mail' /\ Wire'
<1>1. UNCHANGED <<step, pending, call, owner, serial, inbox, bus, exports, told>>
  BY DEF svars, client
<1> QED BY <1>1 DEF IInv, Naming, Mail, Wire

LEMMA CandidatesAre ==
  ASSUME plan \in Plans
  PROVE  /\ IsSeq(candidates) /\ Len(candidates) \in Nat /\ DOMAIN candidates = 1..Len(candidates)
         /\ \A i \in DOMAIN candidates :
              /\ candidates[i].arg \in DOMAIN plan /\ plan[candidates[i].arg].kind = "forward"
              /\ candidates[i].write = plan[candidates[i].arg].write
              /\ candidates[i].path = plan[candidates[i].arg].path
<1>1. candidates = Candidates(plan)
  BY DEF candidates, CandidatesOf
<1> HIDE DEF candidates
<1>2. IsSeq(candidates)
  BY <1>1, CandidatesFound
<1>3. Len(candidates) \in Nat /\ DOMAIN candidates = 1..Len(candidates)
  BY <1>2, SeqIsSeq DEF IsSeq
<1> QED BY <1>1, <1>2, <1>3, CandidatesFound

(* Where no file and no answer changes.                                    *)
LEMMA FilesSame ==
  ASSUME IInv, UNCHANGED <<plan, disk, opened, done, broken, exports>>
  PROVE  Files' /\ Answering'
<1>1. candidates' = candidates
  BY DEF candidates
<1> QED BY <1>1 DEF IInv, Files, Answering, Own

LEMMA RewritingSame ==
  ASSUME IInv, UNCHANGED <<plan, argv, exports>>
  PROVE  Rewriting'
BY DEF IInv, Rewriting

(* rewrite(): a document stands where its own file was asked for.          *)
LEMMA FinishOwn ==
  ASSUME plan \in Plans, NEW answers, Finish(answers), UNCHANGED <<plan, exports>>,
         \A i \in DOMAIN answers : i \in DOMAIN candidates,
         \A i \in DOMAIN answers : answers[i].tag = "ok" => Own(i, answers[i].id, opened, exports)
  PROVE  Rewriting'
<1> DEFINE forwards == {[index |-> candidates[i].arg, id |-> answers[i].id] :
                          i \in {j \in DOMAIN answers : answers[j].tag = "ok"}}
<1>1. argv' = Rewritten(forwards)
  BY DEF Finish
<1>2. ASSUME NEW f \in forwards
      PROVE  /\ f.index \in DOMAIN plan /\ plan[f.index].kind = "forward"
             /\ [file |-> f.id, write |-> plan[f.index].write] \in exports
  <2>1. PICK i \in DOMAIN answers : answers[i].tag = "ok" /\ f = [index |-> candidates[i].arg, id |-> answers[i].id]
    OBVIOUS
  <2>2. Own(i, answers[i].id, opened, exports) /\ i \in DOMAIN candidates
    BY <2>1
  <2>3. [file |-> answers[i].id, write |-> candidates[i].write] \in exports
    BY <2>2 DEF Own
  <2>4. /\ candidates[i].arg \in DOMAIN plan /\ plan[candidates[i].arg].kind = "forward"
        /\ candidates[i].write = plan[candidates[i].arg].write
    BY <2>2, CandidatesAre
  <2>5. f.index = candidates[i].arg /\ f.id = answers[i].id
    BY <2>1
  <2> QED BY <2>3, <2>4, <2>5
<1> HIDE DEF forwards
<1> SUFFICES ASSUME NEW n \in DOMAIN argv', argv'[n].in = "doc"
             PROVE  plan[n].kind = "forward" /\ [file |-> argv'[n].of, write |-> plan[n].write] \in exports
  BY DEF Rewriting
<1>3. n \in DOMAIN plan
  BY <1>1 DEF Rewritten
<1>4. argv'[n] = CASE \E f \in forwards : f.index = n ->
            [in |-> "doc", of |-> (CHOOSE f \in forwards : f.index = n).id]
       [] plan[n].kind = "rename" -> [in |-> "home", of |-> plan[n].path]
       [] OTHER -> [in |-> "given", of |-> plan[n].path]
  BY <1>1, <1>3 DEF Rewritten
<1>5. \E f \in forwards : f.index = n
  <2> SUFFICES ASSUME ~(\E f \in forwards : f.index = n) PROVE FALSE
    OBVIOUS
  <2>1. argv'[n].in = "home" \/ argv'[n].in = "given"
    BY <1>4
  <2> QED BY <2>1
<1> DEFINE g == CHOOSE f \in forwards : f.index = n
<1>6. g \in forwards /\ g.index = n
  BY <1>5
<1>7. argv'[n] = [in |-> "doc", of |-> g.id] \/ ~(plan[n].kind # "rename")
  BY <1>4, <1>5
<1>8. plan[n].kind = "forward"
  BY <1>2, <1>6
<1> HIDE DEF g
<1>9. argv'[n].of = g.id
  BY <1>7, <1>8
<1> QED BY <1>2, <1>6, <1>8, <1>9

LEMMA FinishKept ==
  ASSUME IInv, NEW answers, Finish(answers), step \in {"closed", "ready"},
         UNCHANGED <<svars, plan, disk, swaps, opened, done, sets, broken>>,
         broken => step = "ready", call.method = "none", DOMAIN answers \subseteq DOMAIN candidates,
         \A i \in DOMAIN answers : answers[i].tag = "ok" => Own(i, answers[i].id, opened, exports)
  PROVE  IInv'
<1>1. phase' = "done" /\ UNCHANGED <<step, call, exports>>
  BY DEF Finish, svars, client
<1>2. Naming' /\ Mail' /\ Wire'
  BY SessionSame
<1>3. Calling'
  BY <1>1 DEF Calling
<1>4. Files' /\ Answering'
  BY <1>1, FilesSame
<1>5. Rewriting'
  <2>1. plan \in Plans
    BY DEF IInv, Files
  <2> QED BY <1>1, <2>1, FinishOwn
<1> QED BY <1>2, <1>3, <1>4, <1>5 DEF IInv

LEMMA NoAnswer == DOMAIN <<>> = {}
OBVIOUS

LEMMA BeginKept ==
  ASSUME IInv, NEW granted, Begin(granted)
  PROVE  IInv'
<1>1. /\ phase = "start" /\ step = "closed" /\ ~broken /\ call.method = "none"
      /\ UNCHANGED <<svars, plan, disk, swaps, opened, done, sets, broken>>
  BY DEF Begin, IInv, Calling, Naming
<1>2. CASE granted /\ candidates # <<>>
  <2>1. phase' = "connect" /\ UNCHANGED argv
    BY <1>2 DEF Begin
  <2>2. UNCHANGED <<step, call, exports>>
    BY <1>1 DEF svars, client
  <2>3. Calling'
    BY <1>1, <2>1, <2>2 DEF IInv, Calling
  <2>4. Naming' /\ Mail' /\ Wire'
    BY <1>1, SessionSame
  <2>5. Files' /\ Answering' /\ Rewriting'
    BY <1>1, <2>1, <2>2, FilesSame, RewritingSame
  <2> QED BY <2>3, <2>4, <2>5 DEF IInv
<1>3. CASE ~(granted /\ candidates # <<>>)
  <2>1. Finish(<<>>)
    BY <1>3 DEF Begin
  <2> QED BY <1>1, <2>1, NoAnswer, FinishKept
<1> QED BY <1>2, <1>3

LEMMA NoSessionKept ==
  ASSUME IInv, NoSession
  PROVE  IInv'
<1>1. /\ step = "ready" /\ call.method = "none"
      /\ UNCHANGED <<svars, plan, disk, swaps, opened, done, sets, broken>> /\ Finish(<<>>)
  BY DEF NoSession, IInv, Naming
<1> QED BY <1>1, NoAnswer, FinishKept

LEMMA RegisteredKept ==
  ASSUME IInv, Registered
  PROVE  IInv'
<1>1. /\ phase = "open" /\ Finish(done) /\ Len(done) = Len(candidates)
      /\ UNCHANGED <<svars, plan, disk, swaps, opened, done, sets, broken>>
  BY DEF Registered
<1>2. step = "ready" /\ call.method = "none"
  BY <1>1 DEF IInv, Calling, Naming
<1>3. IsSeq(done) /\ plan \in Plans
  BY DEF IInv, Files
<1>4. DOMAIN done = DOMAIN candidates
  <2>1. DOMAIN done = 1..Len(done)
    BY <1>3, SeqIsSeq DEF IsSeq
  <2>2. DOMAIN candidates = 1..Len(candidates)
    BY <1>3, CandidatesAre
  <2> QED BY <1>1, <2>1, <2>2
<1>5. \A i \in DOMAIN done : done[i].tag = "ok" => Own(i, done[i].id, opened, exports)
  BY DEF IInv, Answering
<1> QED BY <1>1, <1>2, <1>4, <1>5, FinishKept

LEMMA OpenNextKept ==
  ASSUME IInv, OpenNext
  PROVE  IInv'
<1>1. /\ step = "ready" /\ phase = "connect" /\ phase' = "open"
      /\ UNCHANGED <<svars, plan, disk, swaps, opened, done, broken, argv>>
  BY DEF OpenNext
<1>2. UNCHANGED <<step, call, exports>>
  BY <1>1 DEF svars, client
<1>3. Calling'
  BY <1>1, <1>2 DEF IInv, Calling, Naming
<1>4. Naming' /\ Mail' /\ Wire'
  BY <1>1, SessionSame
<1>5. Files' /\ Answering' /\ Rewriting'
  BY <1>1, <1>2, FilesSame, RewritingSame
<1> QED BY <1>3, <1>4, <1>5 DEF IInv

LEMMA OpenKept ==
  ASSUME IInv, Open
  PROVE  IInv'
<1> DEFINE i == Len(done) + 1
           o == [index |-> i, file |-> OpenedWith(i).file]
<1>1. /\ phase = "open" /\ Len(done) < Len(candidates)
      /\ UNCHANGED <<svars, plan, disk, swaps, phase, sets, broken, argv>>
  BY DEF Open
<1>2. UNCHANGED <<step, call, exports>>
  BY <1>1 DEF svars, client
<1>3. IsSeq(done) /\ IsSeq(opened) /\ plan \in Plans /\ candidates' = candidates
  BY <1>1 DEF IInv, Files, candidates
<1>4. \/ Opens(OpenedWith(i)) /\ opened' = Append(opened, o) /\ done' = Append(done, None)
      \/ opened' = opened /\ done' = Append(done, Failed("unopened"))
  BY DEF Open
<1>5. Calling'
  BY <1>1, <1>2 DEF IInv, Calling, Naming
<1>6. Naming' /\ Mail' /\ Wire'
  BY <1>1, SessionSame
<1>7. Rewriting'
  BY <1>1, <1>2, RewritingSame
<1>8. PICK x \in {None, Failed("unopened")} : done' = Append(done, x)
  BY <1>4
<1>9. x.tag \notin {"ok", "wire"}
  <2>1. None.tag = "none" /\ Failed("unopened").tag = "unopened"
    BY DEF None, Failed
  <2> QED BY <2>1
<1>10. /\ IsSeq(done') /\ DOMAIN done' = 1..i /\ Len(done') = i /\ done'[i] = x /\ i \in Nat
       /\ DOMAIN done = 1..Len(done) /\ \A j \in DOMAIN done : done'[j] = done[j]
  BY <1>3, <1>8, AppendIn
<1>11. /\ IsSeq(opened') /\ DOMAIN opened \subseteq DOMAIN opened'
       /\ \A k \in DOMAIN opened : opened'[k] = opened[k]
       /\ \A y \in Elements(opened') : y \in Elements(opened) \/ (y = o /\ Opens(OpenedWith(i)))
  <2>1. CASE opened' = opened
    BY <1>3, <2>1
  <2>2. CASE opened' = Append(opened, o) /\ Opens(OpenedWith(i))
    <3> HIDE DEF o
    <3>1. /\ IsSeq(Append(opened, o)) /\ Elements(Append(opened, o)) = Elements(opened) \cup {o}
          /\ Len(opened) \in Nat /\ DOMAIN opened = 1..Len(opened)
          /\ DOMAIN Append(opened, o) = 1..(Len(opened) + 1)
          /\ \A k \in 1..Len(opened) : Append(opened, o)[k] = opened[k]
      BY <1>3, AppendIn
    <3> QED BY <2>2, <3>1
  <2> QED BY <1>4, <2>1, <2>2
<1>12. Opens(OpenedWith(i)) => Regular(o.file)
  <2>1. i \in DOMAIN candidates
    BY <1>1, <1>3, <1>10, CandidatesAre
  <2>2. candidates[i].path \in DOMAIN disk
    BY <2>1 DEF IInv, Files, Elements
  <2>3. disk[candidates[i].path].kind = "file" => Regular(disk[candidates[i].path].file)
    BY <2>2 DEF IInv, Files
  <2>4. o.file = disk[candidates[i].path].file
    BY DEF OpenedWith
  <2> QED BY <2>3, <2>4 DEF Opens, OpenedWith
<1> HIDE DEF i, o
<1>13. Files'
  <2>1. Len(done') <= Len(candidates)
    BY <1>1, <1>3, <1>10, CandidatesAre DEF i
  <2>2. \A y \in Elements(opened') : Regular(y.file)
    BY <1>11, <1>12 DEF IInv, Files
  <2>3. ASSUME NEW j \in DOMAIN done', done'[j].tag = "wire" PROVE broken
    <3>1. j # i
      BY <1>9, <1>10, <2>3
    <3>2. j \in DOMAIN done
      BY <1>10, <3>1 DEF i
    <3> QED BY <1>10, <2>3, <3>2 DEF IInv, Files
  <2>4. /\ DOMAIN disk = {c.path : c \in Elements(candidates)}
        /\ \A path \in DOMAIN disk : disk[path].kind = "file" => Regular(disk[path].file)
        /\ \A e \in exports : Regular(e.file)
    BY DEF IInv, Files
  <2> QED BY <1>1, <1>2, <1>3, <1>10, <1>11, <2>1, <2>2, <2>3, <2>4 DEF Files
<1>14. Answering'
  <2> SUFFICES ASSUME NEW j \in DOMAIN done', done'[j].tag = "ok"
               PROVE  Own(j, done[j].id, opened, exports)'
    BY DEF Answering
  <2>1. j \in DOMAIN done /\ done'[j] = done[j]
    BY <1>9, <1>10 DEF i
  <2>2. Own(j, done[j].id, opened, exports)
    BY <2>1 DEF IInv, Answering
  <2> QED BY <1>2, <1>3, <1>11, <2>1, <2>2 DEF Own
<1> QED BY <1>5, <1>6, <1>7, <1>13, <1>14 DEF IInv

(* What a group is: files that were opened, for its permission.            *)
LEMMA GroupIs ==
  ASSUME IInv
  PROVE  /\ IsSeq(Group) /\ Len(Group) \in Nat /\ DOMAIN Group = 1..Len(Group)
         /\ \A k \in DOMAIN Group : \E j \in DOMAIN opened :
              Group[k] = opened[j] /\ candidates[opened[j].index].write = Head(sets)
<1> DEFINE I == {k \in DOMAIN opened : candidates[opened[k].index].write = Head(sets)}
<1>1. Len(opened) \in Nat /\ DOMAIN opened = 1..Len(opened)
  BY SeqIsSeq DEF IInv, Files, IsSeq
<1>2. From(opened, I, Group)
  BY <1>1, PickedFrom DEF Group
<1>3. Len(Group) \in Nat /\ DOMAIN Group = 1..Len(Group)
  BY <1>2, SeqIsSeq DEF From, IsSeq
<1> QED BY <1>1, <1>2, <1>3 DEF From

LEMMA AskedIs ==
  ASSUME IInv
  PROVE  /\ IsSeq(Asked.fds) /\ Len(Asked.fds) = Len(Group) /\ DOMAIN Asked.fds = DOMAIN Group
         /\ \A k \in DOMAIN Group : Asked.fds[k] = Group[k].file
         /\ Asked.write = Head(sets)
         /\ Asked.fds = [k \in DOMAIN Group |-> Group[k].file]
<1> DEFINE s == [k \in DOMAIN Group |-> Group[k].file]
<1>1. Asked.fds = s /\ Asked.write = Head(sets)
  BY DEF Asked
<1>2. Len(Group) \in Nat /\ DOMAIN Group = 1..Len(Group)
  BY GroupIs
<1>3. s = [k \in 1..Len(Group) |-> Group[k].file]
  BY <1>2
<1>4. s \in Seq({Group[k].file : k \in 1..Len(Group)})
  BY <1>2, <1>3, SeqDef
<1>5. IsSeq(s)
  <2> HIDE DEF s
  <2> QED BY <1>4, SeqIsSeq
<1>6. Len(s) = Len(Group)
  BY <1>2, <1>3
<1> QED BY <1>1, <1>2, <1>3, <1>5, <1>6

(* done', where some answers are replaced.                                 *)
LEMMA DoneKept ==
  ASSUME IInv, UNCHANGED <<plan, disk, opened, exports>>, DOMAIN done' = DOMAIN done,
         done' = [i \in DOMAIN done |-> done'[i]],
         \A i \in DOMAIN done' : done'[i].tag = "wire" => broken',
         \A i \in DOMAIN done' : done'[i].tag = "ok" => Own(i, done'[i].id, opened, exports)
  PROVE  Files' /\ Answering'
<1>1. candidates' = candidates /\ plan \in Plans
  BY DEF candidates, IInv, Files
<1>2. Len(done) \in Nat /\ DOMAIN done = 1..Len(done) /\ Len(done) <= Len(candidates)
  BY SeqIsSeq DEF IInv, Files, IsSeq
<1>3. done' \in [1..Len(done) -> Elements(done')]
  BY <1>2 DEF Elements
<1>4. IsSeq(done') /\ Len(done') = Len(done)
  <2>1. done' \in Seq(Elements(done'))
    BY <1>2, <1>3, SeqDef
  <2> QED BY <1>2, <1>3, <2>1 DEF IsSeq
<1>5. Files'
  BY <1>1, <1>2, <1>4 DEF IInv, Files
<1>6. Answering'
  BY <1>1 DEF Answering, Own
<1> QED BY <1>5, <1>6

LEMMA PassOverKept ==
  ASSUME IInv, PassOver
  PROVE  IInv'
<1>1. /\ phase = "open" /\ UNCHANGED <<svars, plan, disk, swaps, phase, opened, broken, argv>>
  BY DEF PassOver
<1>2. UNCHANGED <<step, call, exports>>
  BY <1>1 DEF svars, client
<1>3. Calling'
  BY <1>1, <1>2 DEF IInv, Calling, Naming
<1>4. Naming' /\ Mail' /\ Wire'
  BY <1>1, SessionSame
<1>5. Rewriting'
  BY <1>1, <1>2, RewritingSame
<1>6. CASE UNCHANGED done
  <2>1. Files' /\ Answering'
    BY <1>1, <1>2, <1>6, FilesSame
  <2> QED BY <1>3, <1>4, <1>5, <2>1 DEF IInv
<1>7. CASE AllGroup(Failed("bus"))
  <2>1. Failed("bus").tag = "bus"
    BY DEF Failed
  <2>2. /\ DOMAIN done' = DOMAIN done /\ done' = [i \in DOMAIN done |-> done'[i]]
        /\ \A i \in DOMAIN done : done'[i] = Failed("bus") \/ done'[i] = done[i]
    BY <1>7 DEF AllGroup
  <2>3. /\ \A i \in DOMAIN done : done[i].tag = "wire" => broken
        /\ \A i \in DOMAIN done : done[i].tag = "ok" => Own(i, done[i].id, opened, exports)
    BY DEF IInv, Files, Answering
  <2>4. \A i \in DOMAIN done' : done'[i].tag = "wire" => broken'
    BY <1>1, <2>1, <2>2, <2>3
  <2>5. \A i \in DOMAIN done' : done'[i].tag = "ok" => Own(i, done'[i].id, opened, exports)
    BY <2>1, <2>2, <2>3
  <2>6. Files' /\ Answering'
    BY <1>1, <1>2, <2>2, <2>4, <2>5, DoneKept
  <2> QED BY <1>3, <1>4, <1>5, <2>6 DEF IInv
<1> QED BY <1>6, <1>7 DEF PassOver

LEMMA AddFullKept ==
  ASSUME IInv, AddFull
  PROVE  IInv'
<1> DEFINE fds == [k \in DOMAIN Group |-> Group[k].file]
<1>1. /\ phase = "open" /\ phase' = "calling" /\ Group # <<>> /\ ~broken
      /\ Call(fds, Head(sets)) /\ UNCHANGED <<plan, disk, swaps, opened, done, sets, broken, argv>>
  BY DEF AddFull
<1>2. UNCHANGED <<owner, passing, inbox, bus, exports, told>>
  BY <1>1 DEF Call
<1>3. Asked' = Asked /\ Group' = Group /\ Asked = [fds |-> fds, write |-> Head(sets)]
  BY <1>1 DEF Asked, Group, candidates
<1>4. ToldOK(told, bus) /\ OwnerOK(owner, told, bus)
  BY DEF IInv, Naming
<1>5. Files' /\ Answering' /\ Rewriting'
  BY <1>1, <1>2, FilesSame, RewritingSame
<1>6. argv = <<>>
  BY <1>1 DEF IInv, Calling
<1> HIDE DEF fds
<1>7. CASE Unsendable(fds)
  <2>1. Return("unsent", <<>>) /\ UNCHANGED serial
    BY <1>1, <1>7 DEF Call
  <2>2. step' = "ready" /\ call' = NoCall /\ result'.tag # "ok" /\ call'.method = "none"
    BY <2>1 DEF Return, NoCall
  <2>3. Naming' /\ Mail' /\ Wire'
    BY <1>2, <1>4, <2>1, <2>2, Ended
  <2>4. Calling'
    BY <1>1, <1>3, <1>6, <2>2 DEF Calling
  <2> QED BY <1>5, <2>3, <2>4 DEF IInv
<1>8. CASE ~Unsendable(fds)
  <2>1. pending' = <<[fds |-> fds, write |-> Head(sets)]>> /\ AddressedTo(owner)
    BY <1>1, <1>8 DEF Call
  <2>2. Naming' /\ Mail' /\ Wire' /\ step' = "send"
    <3>1. CASE owner # NoName
      <4>1. Sending("AddFull", owner, FALSE)
        BY <2>1, <3>1 DEF AddressedTo
      <4>2. owner \in bus.used /\ owner \notin told
        BY <1>4, <3>1 DEF OwnerOK
      <4>3. Naming' /\ Mail' /\ Wire'
        BY <1>2, <1>4, <4>1, <4>2, Begun
      <4> QED BY <4>1, <4>3 DEF Sending
    <3>2. CASE owner = NoName
      <4>1. Sending("GetNameOwner", Bus, FALSE)
        BY <2>1, <3>2 DEF AddressedTo
      <4>2. Naming' /\ Mail' /\ Wire'
        BY <1>2, <1>4, <4>1, Begun
      <4> QED BY <4>1, <4>2 DEF Sending
    <3> QED BY <3>1, <3>2
  <2>3. pending' = <<Asked'>>
    BY <1>3, <2>1
  <2>4. Calling'
    BY <1>1, <1>3, <1>6, <2>2, <2>3 DEF Calling
  <2> QED BY <1>5, <2>2, <2>4 DEF IInv
<1> QED BY <1>7, <1>8

(* The ids of an answer of the right length are the documents of the group, *)
(* in its order.                                                            *)
LEMMA ZippedOwn ==
  ASSUME IInv, Handed(result.ids, Asked, exports), Len(result.ids) = Len(Group), Group # <<>>,
         NEW i, NEW k \in DOMAIN Group, Group[k].index = i
  PROVE  Own(i, result.ids[k], opened, exports)
<1>1. /\ IsSeq(Asked.fds) /\ Len(Asked.fds) = Len(Group) /\ DOMAIN Asked.fds = DOMAIN Group
      /\ Asked.fds[k] = Group[k].file /\ Asked.write = Head(sets)
  BY AskedIs
<1>2. Len(Group) \in Nat /\ DOMAIN Group = 1..Len(Group)
  BY GroupIs
<1>3. result.ids = Asked.fds
  <2>1. Asked.fds # <<>>
    BY <1>1, <1>2
  <2>2. Len(Tail(Asked.fds)) = Len(Asked.fds) - 1
    BY <1>1, <2>1, HeadTailProperties DEF IsSeq
  <2>3. Len(Tail(Asked.fds)) # Len(Group)
    <3> DEFINE n == Len(Group)
    <3>1. Len(Tail(Asked.fds)) = n - 1 /\ n \in Nat
      BY <1>1, <1>2, <2>2
    <3> HIDE DEF n
    <3>2. Len(Tail(Asked.fds)) # n
      BY <3>1
    <3> QED BY <3>2 DEF n
  <2> QED BY <2>3 DEF Handed
<1>4. PICK j \in DOMAIN opened : Group[k] = opened[j] /\ candidates[opened[j].index].write = Head(sets)
  BY GroupIs
<1>5. [file |-> Asked.fds[k], write |-> Asked.write] \in exports
  BY <1>1 DEF Handed, Elements
<1>6. opened[j].index = i /\ result.ids[k] = opened[j].file
  BY <1>1, <1>3, <1>4
<1>7. [file |-> opened[j].file, write |-> candidates[i].write] \in exports
  BY <1>1, <1>4, <1>5, <1>6
<1> QED BY <1>6, <1>7 DEF Own

LEMMA AnsweredKept ==
  ASSUME IInv, Answered
  PROVE  IInv'
<1>1. /\ phase = "calling" /\ step = "ready" /\ phase' = "open" /\ broken' = Breaks(result.tag)
      /\ UNCHANGED <<svars, plan, disk, swaps, opened, argv>>
  BY DEF Answered
<1>2. UNCHANGED <<step, call, exports, result>>
  BY <1>1 DEF svars, client
<1>3. ~broken /\ call.method = "none" /\ argv = <<>> /\ Group # <<>>
  BY <1>1 DEF IInv, Calling, Naming
<1>4. Calling'
  BY <1>1, <1>2, <1>3 DEF Calling
<1>5. Naming' /\ Mail' /\ Wire'
  BY <1>1, SessionSame
<1>6. Rewriting'
  BY <1>1, <1>2, RewritingSame
<1>7. /\ \A i \in DOMAIN done : done[i].tag # "wire"
      /\ \A i \in DOMAIN done : done[i].tag = "ok" => Own(i, done[i].id, opened, exports)
  BY <1>3 DEF IInv, Files, Answering
<1>8. CASE result.tag = "ok" /\ Len(result.ids) = Len(Group)
  <2>1. done' = Zipped(result.ids)
    BY <1>8 DEF Answered
  <2>2. Handed(result.ids, Asked, exports)
    BY <1>1, <1>8 DEF IInv, Calling
  <2>3. DOMAIN done' = DOMAIN done /\ done' = [i \in DOMAIN done |-> done'[i]]
    BY <2>1 DEF Zipped
  <2>4. ASSUME NEW i \in DOMAIN done
        PROVE  /\ done'[i].tag # "wire"
               /\ done'[i].tag = "ok" => Own(i, done'[i].id, opened, exports)
    <3>1. CASE ~\E k \in DOMAIN Group : Group[k].index = i
      <4>1. done'[i] = done[i]
        BY <2>1, <3>1 DEF Zipped
      <4> QED BY <1>7, <4>1
    <3>2. CASE \E k \in DOMAIN Group : Group[k].index = i
      <4> DEFINE k == CHOOSE j \in DOMAIN Group : Group[j].index = i
      <4>1. k \in DOMAIN Group /\ Group[k].index = i
        BY <3>2
      <4>2. done'[i] = [tag |-> "ok", id |-> result.ids[k]]
        BY <2>1, <3>2 DEF Zipped
      <4> HIDE DEF k
      <4>3. Own(i, result.ids[k], opened, exports)
        BY <1>3, <1>8, <2>2, <4>1, ZippedOwn
      <4> QED BY <4>2, <4>3
    <3> QED BY <3>1, <3>2
  <2>5. Files' /\ Answering'
    BY <1>1, <1>2, <2>3, <2>4, DoneKept
  <2> QED BY <1>4, <1>5, <1>6, <2>5 DEF IInv
<1>9. CASE ~(result.tag = "ok" /\ Len(result.ids) = Len(Group))
  <2> DEFINE tag == IF result.tag = "ok" THEN "answer" ELSE result.tag
  <2>1. AllGroup(Failed(tag))
    BY <1>9 DEF Answered
  <2>2. Failed(tag).tag = tag
    BY DEF Failed
  <2>3. tag # "ok" /\ (tag = "wire" => broken')
    BY <1>1 DEF Breaks
  <2> HIDE DEF tag
  <2>4. /\ DOMAIN done' = DOMAIN done /\ done' = [i \in DOMAIN done |-> done'[i]]
        /\ \A i \in DOMAIN done : done'[i] = Failed(tag) \/ done'[i] = done[i]
    BY <2>1 DEF AllGroup
  <2>5. \A i \in DOMAIN done' : done'[i].tag = "wire" => broken'
    BY <1>7, <2>2, <2>3, <2>4
  <2>6. \A i \in DOMAIN done' : done'[i].tag = "ok" => Own(i, done'[i].id, opened, exports)
    BY <1>7, <2>2, <2>3, <2>4
  <2>7. Files' /\ Answering'
    BY <1>1, <1>2, <2>4, <2>5, <2>6, DoneKept
  <2> QED BY <1>4, <1>5, <1>6, <2>7 DEF IInv
<1> QED BY <1>8, <1>9

LEMMA SwapKept ==
  ASSUME IInv, NEW path \in DOMAIN disk, NEW node \in Nodes, Swap(path, node)
  PROVE  IInv'
<1>1. UNCHANGED <<svars, mine>> /\ disk' = [disk EXCEPT ![path] = node]
  BY DEF Swap
<1>2. UNCHANGED <<plan, phase, opened, done, sets, broken, argv>>
  BY <1>1 DEF mine
<1>3. UNCHANGED <<step, pending, call, result, exports>>
  BY <1>1 DEF svars, client
<1>4. Asked' = Asked /\ Group' = Group /\ candidates' = candidates
  BY <1>2 DEF Asked, Group, candidates
<1>5. Calling'
  BY <1>2, <1>3, <1>4 DEF IInv, Calling
<1>6. Naming' /\ Mail' /\ Wire'
  BY <1>1, SessionSame
<1>7. \A p \in DOMAIN disk' : disk'[p].kind = "file" => Regular(disk'[p].file)
  BY <1>1, PlansAssumption DEF IInv, Files
<1>8. DOMAIN disk' = DOMAIN disk
  BY <1>1
<1>9. Files' /\ Answering'
  BY <1>2, <1>3, <1>4, <1>7, <1>8 DEF IInv, Files, Answering, Own
<1>10. Rewriting'
  BY <1>2, <1>3, RewritingSame
<1> QED BY <1>5, <1>6, <1>9, <1>10 DEF IInv

(* ------------------------------ theorems ------------------------------- *)

LEMMA IInvInit ==
  ASSUME ForwardInit
  PROVE  IInv
<1>1. /\ step = "closed" /\ call = NoCall /\ owner = NoName /\ serial = 0 /\ inbox = <<>>
      /\ exports = {} /\ told = {} /\ phase = "start" /\ opened = <<>> /\ done = <<>>
      /\ broken = FALSE /\ argv = <<>> /\ plan \in Plans
  BY DEF ForwardInit, SessionInit
<1>2. PICK h \in Peers \cup {NoName} :
        bus = [gone |-> FALSE, holder |-> h, used |-> {h} \ {NoName}, wire |-> NoWire]
  BY DEF ForwardInit, SessionInit
<1>3. <<>> \in Seq({}) /\ DOMAIN <<>> = {} /\ Elements(<<>>) = {} /\ Len(<<>>) = 0
  BY DEF Elements
<1>4. IsSeq(<<>>)
  BY <1>3, SeqIsSeq
<1>5. NoCall.method = "none"
  BY DEF NoCall
<1>6. BusOK(bus) /\ bus.wire = NoWire
  BY <1>2 DEF BusOK
<1>7. Naming
  BY <1>1, <1>4, <1>5, <1>6 DEF Naming, ToldOK, OwnerOK, CallOK
<1>8. Mail /\ Wire
  BY <1>1, <1>3, <1>6 DEF Mail, Wire, Wired
<1>9. Calling
  BY <1>1, <1>5 DEF Calling
<1>10. Files
  <2>1. disk = [path \in {c.path : c \in Elements(candidates)} |-> [kind |-> "file", file |-> path]]
    BY DEF ForwardInit
  <2>2. ASSUME NEW path \in DOMAIN disk PROVE Regular(disk[path].file)
    <3>1. path \in {c.path : c \in Elements(candidates)} /\ disk[path].file = path
      BY <2>1
    <3>2. PICK i \in DOMAIN candidates : path = candidates[i].path
      BY <3>1 DEF Elements
    <3>3. PICK n \in DOMAIN plan : path = plan[n].path
      BY <1>1, <3>2, CandidatesAre
    <3> QED BY <1>1, <3>1, <3>3, PlansAssumption
  <2>3. Len(candidates) \in Nat
    BY <1>1, CandidatesAre
  <2>4. Len(done) <= Len(candidates)
    BY <1>1, <1>3, <2>3
  <2>5. DOMAIN disk = {c.path : c \in Elements(candidates)}
    BY <2>1
  <2> QED BY <1>1, <1>3, <1>4, <2>2, <2>4, <2>5 DEF Files
<1>11. Answering /\ Rewriting
  BY <1>1, <1>3 DEF Answering, Rewriting
<1> QED BY <1>7, <1>8, <1>9, <1>10, <1>11 DEF IInv

LEMMA IInvNext ==
  ASSUME IInv, [ForwardNext]_fvars
  PROVE  IInv'
<1>1. CASE Register
  BY <1>1, BeginKept, NoSessionKept, OpenNextKept, OpenKept, PassOverKept, AddFullKept,
     AnsweredKept, RegisteredKept DEF Register
<1>2. CASE SessionSteps /\ Rest
  BY <1>2, ConnectKept, AuthLineKept, SendKept, ReceiveKept, GivingUpKept DEF SessionSteps
<1>3. CASE Expire /\ Rest
  BY <1>3, ExpireKept
<1>4. CASE World /\ Rest
  BY <1>4, BusLineKept, BusAnswersKept, BusBouncesKept, ServiceAnswersKept, ServiceLeavesKept,
     StrangerSendsKept, BusLeavesKept DEF World
<1>5. CASE \E path \in DOMAIN disk, node \in Nodes : Swap(path, node)
  BY <1>5, SwapKept
<1>6. CASE UNCHANGED fvars
  <2>1. /\ UNCHANGED svars /\ Rest
    BY <1>6 DEF fvars, Rest, mine
  <2>2. UNCHANGED <<step, pending, call, result, exports>>
    BY <2>1 DEF svars, client
  <2>3. Naming' /\ Mail' /\ Wire'
    BY <2>1, SessionSame
  <2>4. Asked' = Asked /\ Group' = Group /\ UNCHANGED <<phase, broken, argv>>
    BY <2>1, AskedSame DEF Rest, mine
  <2>5. Calling'
    BY <2>2, <2>4 DEF IInv, Calling
  <2>6. Files' /\ Answering' /\ Rewriting'
    BY <2>1, <2>2, RestSame
  <2> QED BY <2>3, <2>5, <2>6 DEF IInv
<1> QED BY <1>1, <1>2, <1>3, <1>4, <1>5, <1>6 DEF ForwardNext

(* The invariant gives what the run checks.                                *)
LEMMA IInvOwn ==
  ASSUME IInv
  PROVE  ForwardedOwn
<1>1. OwnFile
  <2>1. \A e \in exports, n \in Nodes : n.file = e.file => n.kind = "file"
    BY DEF IInv, Files, Regular
  <2> QED BY <2>1 DEF IInv, Answering, Own, Rewriting, OwnFile
<1>2. BrokenSilent
  BY DEF IInv, Files, Calling, BrokenSilent
<1>3. NotToCorpse
  BY DEF IInv, Naming, CallOK, NotToCorpse
<1> QED BY <1>1, <1>2, <1>3 DEF ForwardedOwn

(* For any command line, any changes of the disk and any behaviour of the  *)
(* bus, the service and a stranger: an argument becomes a document only of *)
(* its own file, with its own permission, a session that broke off is not  *)
(* used again and a name that is gone is not addressed again.              *)
THEOREM ForwardedOwnHolds == ForwardSpec => []ForwardedOwn
<1>1. ForwardInit => IInv
  BY IInvInit
<1>2. IInv /\ [ForwardNext]_fvars => IInv'
  BY IInvNext
<1>3. IInv => ForwardedOwn
  BY IInvOwn
<1> QED BY <1>1, <1>2, <1>3, PTL DEF ForwardSpec
=============================================================================
