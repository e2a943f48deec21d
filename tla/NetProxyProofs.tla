--------------------------- MODULE NetProxyProofs ---------------------------
(***************************************************************************)
(* Theorems about the egress proxy, for any number of connections and      *)
(* slots, any allowlist, any answers of the resolvers and any length of a  *)
(* CNAME chain.                                                            *)
(***************************************************************************)
EXTENDS NetProxy, TLAPS, FiniteSetTheorems, SequenceTheorems, WellFoundedInduction

(* ------------------------------ induction ------------------------------ *)

(* A set of natural numbers with a member has a least one.                 *)
LEMMA LeastNatural ==
  ASSUME NEW T \in SUBSET Nat, T # {}
  PROVE  \E n \in T : \A m \in T : n <= m
<1>1. PICK n \in T : \A m \in T : ~(<<m, n>> \in OpToRel(<, Nat))
  BY WFMin, NatLessThanWellFounded
<1>2. ASSUME NEW m \in T
      PROVE  ~(m < n)
  <2>1. ~(<<m, n>> \in OpToRel(<, Nat))
    BY <1>1
  <2>2. <<m, n>> \in Nat \X Nat
    OBVIOUS
  <2> QED BY <2>1, <2>2 DEF OpToRel
<1> QED BY <1>2

(* Induction, for a property given as a set.                               *)
LEMMA NatByInduction ==
  ASSUME NEW S, 0 \in S, \A n \in Nat : n \in S => n + 1 \in S
  PROVE  Nat \subseteq S
<1> SUFFICES ASSUME Nat \ S # {} PROVE FALSE
  OBVIOUS
<1>1. PICK n \in Nat \ S : \A m \in Nat \ S : n <= m
  BY LeastNatural
<1>2. n # 0 /\ n - 1 \in Nat /\ (n - 1) + 1 = n
  BY <1>1
<1>3. n - 1 \in S
  BY <1>1, <1>2
<1> QED BY <1>1, <1>2, <1>3

(* ------------------------------- answers ------------------------------- *)

Record == [owner : Seq(STRING), kind : {"addr", "cname"}, to : Seq(STRING)]

(* The recursion of AddressesOf() has a value.                               *)
UpTo(records, names, f, i) ==
  IF i = 0 THEN <<>>
  ELSE IF records[i].kind = "addr" /\ records[i].owner \in names THEN Append(f[i - 1], records[i].to)
  ELSE f[i - 1]
LEMMA UpToExists ==
  ASSUME NEW records, NEW names
  PROVE  \A n \in Nat : \E f : f = [i \in 0..n |-> UpTo(records, names, f, i)]
<1> DEFINE S == {n \in Nat : \E f : f = [i \in 0..n |-> UpTo(records, names, f, i)]}
<1>1. 0 \in S
  <2> DEFINE g == [i \in 0..0 |-> <<>>]
  <2>1. g = [i \in 0..0 |-> UpTo(records, names, g, i)]
    BY DEF UpTo
  <2> QED BY <2>1
<1>2. ASSUME NEW n \in Nat, n \in S
      PROVE  n + 1 \in S
  <2>1. PICK f : f = [i \in 0..n |-> UpTo(records, names, f, i)]
    BY <1>2
  <2> DEFINE g == [i \in 0..(n + 1) |-> IF i <= n THEN f[i] ELSE UpTo(records, names, f, n + 1)]
  <2>2. \A i \in 0..n : g[i] = f[i]
    OBVIOUS
  <2>3. \A i \in 0..n : f[i] = UpTo(records, names, f, i)
    BY <2>1
  <2>4. ASSUME NEW i \in 0..(n + 1)
        PROVE  UpTo(records, names, f, i) = UpTo(records, names, g, i)
    <3>1. CASE i = 0
      BY <3>1 DEF UpTo
    <3>2. CASE i # 0
      <4>1. i - 1 \in 0..n
        BY <3>2
      <4>2. g[i - 1] = f[i - 1]
        BY <4>1, <2>2
      <4> QED BY <3>2, <4>2 DEF UpTo
    <3> QED BY <3>1, <3>2
  <2>5. ASSUME NEW i \in 0..(n + 1)
        PROVE  g[i] = UpTo(records, names, g, i)
    <3>1. CASE i <= n
      <4>1. i \in 0..n
        BY <3>1
      <4> QED BY <4>1, <2>2, <2>3, <2>4
    <3>2. CASE ~(i <= n)
      <4>1. i = n + 1
        BY <3>2
      <4>2. g[n + 1] = UpTo(records, names, f, n + 1)
        OBVIOUS
      <4> QED BY <4>1, <4>2, <2>4
    <3> QED BY <3>1, <3>2
  <2>6. g = [i \in 0..(n + 1) |-> UpTo(records, names, g, i)]
    BY <2>5
  <2> HIDE DEF g
  <2> QED BY <2>6
<1> HIDE DEF S
<1>3. Nat \subseteq S
  BY <1>1, <1>2, NatByInduction
<1> QED BY <1>3 DEF S

(* What AddressesOf() takes from an answer is there, for one of the names.   *)
Found(records, names, s) ==
  /\ s \in Seq(Seq(STRING))
  /\ \A k \in 1..Len(s) : \E i \in 1..Len(records) :
       records[i].kind = "addr" /\ records[i].owner \in names /\ records[i].to = s[k]
LEMMA AddressesFound ==
  ASSUME NEW records \in Seq(Record), NEW names
  PROVE  Found(records, names, AddressesOf(records, names))
<1> DEFINE n == Len(records)
           F == CHOOSE f : f = [i \in 0..n |-> UpTo(records, names, f, i)]
           S == {i \in Nat : i <= n => Found(records, names, F[i])}
<1>0. n \in Nat /\ \A i \in 1..n : records[i] \in Record
  BY LenProperties, ElementOfSeq
<1>1. AddressesOf(records, names) = F[n]
  BY DEF AddressesOf, UpTo
<1>2. F = [i \in 0..n |-> UpTo(records, names, F, i)]
  BY <1>0, UpToExists
<1> HIDE DEF F, n
<1>3. 0 \in S
  <2>1. F[0] = <<>>
    BY <1>0, <1>2 DEF UpTo
  <2>2. Found(records, names, <<>>)
    BY EmptySeq DEF Found
  <2> QED BY <2>1, <2>2
<1>4. ASSUME NEW i \in Nat, i \in S
      PROVE  i + 1 \in S
  <2> SUFFICES ASSUME i + 1 <= n
               PROVE  Found(records, names, F[i + 1])
    OBVIOUS
  <2>1. i + 1 \in 0..n /\ i + 1 \in 1..n /\ (i + 1) - 1 = i /\ i <= n
    BY <1>0
  <2>2. Found(records, names, F[i])
    BY <1>4, <2>1
  <2>3. F[i + 1] = UpTo(records, names, F, i + 1)
    BY <1>2, <2>1
  <2>4. CASE ~(records[i + 1].kind = "addr" /\ records[i + 1].owner \in names)
    BY <2>1, <2>2, <2>3, <2>4 DEF UpTo
  <2>5. CASE records[i + 1].kind = "addr" /\ records[i + 1].owner \in names
    <3>1. F[i + 1] = Append(F[i], records[i + 1].to)
      BY <2>1, <2>3, <2>5 DEF UpTo
    <3>2. records[i + 1].to \in Seq(STRING)
      BY <1>0, <2>1 DEF Record
    <3>3. ASSUME NEW k \in 1..Len(F[i + 1])
          PROVE  \E j \in 1..Len(records) :
                   records[j].kind = "addr" /\ records[j].owner \in names /\ records[j].to = F[i + 1][k]
      <4>1. CASE k = Len(F[i]) + 1
        <5>1. F[i + 1][k] = records[i + 1].to
          BY <3>1, <3>2, <2>2, <4>1 DEF Found
        <5> QED BY <5>1, <2>1, <2>5 DEF n
      <4>2. CASE k # Len(F[i]) + 1
        <5>1. k \in 1..Len(F[i]) /\ F[i + 1][k] = F[i][k]
          BY <3>1, <3>2, <2>2, <4>2 DEF Found
        <5> QED BY <5>1, <2>2 DEF Found
      <4> QED BY <4>1, <4>2
    <3>4. F[i + 1] \in Seq(Seq(STRING))
      BY <3>1, <3>2, <2>2 DEF Found
    <3> QED BY <3>3, <3>4 DEF Found
  <2> QED BY <2>4, <2>5
<1>5. n \in S
  <2> HIDE DEF S
  <2> QED BY <1>0, <1>3, <1>4, NatByInduction
<1> QED BY <1>0, <1>1, <1>5 DEF n

(* A name's alias is the value of one of its CNAMEs.                       *)
LEMMA AliasFound ==
  ASSUME NEW records \in Seq(Record), NEW name, Alias(records, name) # <<>>
  PROVE  \E i \in 1..Len(records) :
           /\ records[i].kind = "cname" /\ records[i].owner = name
           /\ Alias(records, name)[1] = records[i].to
<1> DEFINE of == {i \in 1..Len(records) : records[i].kind = "cname" /\ records[i].owner = name}
           first == CHOOSE i \in of : \A j \in of : i <= j
<1>1. of # {} /\ Alias(records, name) = <<records[first].to>>
  BY DEF Alias
<1>2. of \in SUBSET Nat
  BY LenProperties
<1>3. first \in of
  <2> HIDE DEF of
  <2> QED BY <1>1, <1>2, LeastNatural
<1>4. first \in 1..Len(records) /\ records[first].kind = "cname" /\ records[first].owner = name
  <2> HIDE DEF first
  <2> QED BY <1>3
<1>5. Alias(records, name)[1] = records[first].to
  <2> HIDE DEF first
  <2> QED BY <1>1
<1> HIDE DEF first, of
<1> QED BY <1>4, <1>5

(* The recursion of Hops() has a value.                                    *)
Hop(name, records, f, k) ==
  IF k = 0 THEN <<name>> ELSE IF f[k - 1] = <<>> THEN <<>> ELSE Alias(records, f[k - 1][1])
LEMMA HopExists ==
  ASSUME NEW name, NEW records
  PROVE  \A n \in Nat : \E f : f = [k \in 0..n |-> Hop(name, records, f, k)]
<1> DEFINE S == {n \in Nat : \E f : f = [k \in 0..n |-> Hop(name, records, f, k)]}
<1>1. 0 \in S
  <2> DEFINE g == [k \in 0..0 |-> <<name>>]
  <2>1. g = [k \in 0..0 |-> Hop(name, records, g, k)]
    BY DEF Hop
  <2> QED BY <2>1
<1>2. ASSUME NEW n \in Nat, n \in S
      PROVE  n + 1 \in S
  <2>1. PICK f : f = [k \in 0..n |-> Hop(name, records, f, k)]
    BY <1>2
  <2> DEFINE g == [k \in 0..(n + 1) |-> IF k <= n THEN f[k] ELSE Hop(name, records, f, n + 1)]
  <2>2. \A k \in 0..n : g[k] = f[k]
    OBVIOUS
  <2>3. \A k \in 0..n : f[k] = Hop(name, records, f, k)
    BY <2>1
  <2>4. ASSUME NEW k \in 0..(n + 1)
        PROVE  Hop(name, records, f, k) = Hop(name, records, g, k)
    <3>1. CASE k = 0
      BY <3>1 DEF Hop
    <3>2. CASE k # 0
      <4>1. k - 1 \in 0..n
        BY <3>2
      <4>2. g[k - 1] = f[k - 1]
        BY <4>1, <2>2
      <4> QED BY <3>2, <4>2 DEF Hop
    <3> QED BY <3>1, <3>2
  <2>5. ASSUME NEW k \in 0..(n + 1)
        PROVE  g[k] = Hop(name, records, g, k)
    <3>1. CASE k <= n
      <4>1. k \in 0..n
        BY <3>1
      <4> QED BY <4>1, <2>2, <2>3, <2>4
    <3>2. CASE ~(k <= n)
      <4>1. k = n + 1
        BY <3>2
      <4>2. g[n + 1] = Hop(name, records, f, n + 1)
        OBVIOUS
      <4> QED BY <4>1, <4>2, <2>4
    <3> QED BY <3>1, <3>2
  <2>6. g = [k \in 0..(n + 1) |-> Hop(name, records, g, k)]
    BY <2>5
  <2> HIDE DEF g
  <2> QED BY <2>6
<1> HIDE DEF S
<1>3. Nat \subseteq S
  BY <1>1, <1>2, NatByInduction
<1> QED BY <1>3 DEF S

(* A chain never leaves a set that holds the name asked about and every    *)
(* CNAME of its members.                                                   *)
LEMMA HopsStay ==
  ASSUME NEW a, a.records \in Seq(Record), NEW name, NEW T, name \in T, Closed(a, T),
         NEW k \in 0..MaxCnames, Hops(name, a.records)[k] # <<>>
  PROVE  Hops(name, a.records)[k][1] \in T
<1> DEFINE H == Hops(name, a.records)
           S == {i \in Nat : i <= MaxCnames /\ H[i] # <<>> => H[i][1] \in T}
<1>0. MaxCnames \in Nat
  BY ProxyAssumption
<1>1. H = [i \in 0..MaxCnames |-> Hop(name, a.records, H, i)]
  <2> DEFINE F == CHOOSE f : f = [i \in 0..MaxCnames |-> Hop(name, a.records, f, i)]
  <2>1. H = F
    BY DEF Hops, Hop
  <2>2. F = [i \in 0..MaxCnames |-> Hop(name, a.records, F, i)]
    BY <1>0, HopExists
  <2> HIDE DEF F, H
  <2> QED BY <2>1, <2>2
<1> HIDE DEF H
<1>2. 0 \in S
  <2>1. H[0] = <<name>>
    BY <1>0, <1>1 DEF Hop
  <2> QED BY <2>1
<1>3. ASSUME NEW i \in Nat, i \in S
      PROVE  i + 1 \in S
  <2> SUFFICES ASSUME i + 1 <= MaxCnames, H[i + 1] # <<>>
               PROVE  H[i + 1][1] \in T
    OBVIOUS
  <2>1. i + 1 \in 0..MaxCnames /\ i + 1 # 0 /\ (i + 1) - 1 = i /\ i <= MaxCnames
    BY <1>0
  <2>2. H[i + 1] = Hop(name, a.records, H, i + 1)
    BY <1>1, <2>1
  <2>3. H[i] # <<>> /\ H[i + 1] = Alias(a.records, H[i][1])
    BY <2>1, <2>2 DEF Hop
  <2>4. H[i][1] \in T
    BY <1>3, <2>1, <2>3
  <2>5. PICK j \in 1..Len(a.records) :
          /\ a.records[j].kind = "cname" /\ a.records[j].owner = H[i][1]
          /\ Alias(a.records, H[i][1])[1] = a.records[j].to
    BY <2>3, AliasFound
  <2> QED BY <2>3, <2>4, <2>5 DEF Closed
<1>4. k \in S
  <2> HIDE DEF S
  <2> QED BY <1>0, <1>2, <1>3, NatByInduction
<1> QED BY <1>0, <1>4 DEF H

(* What chain() takes for a name is what the answer gives for that name.   *)
LEMMA ChainVouched ==
  ASSUME NEW a \in Answers, Checked(a), NEW name
  PROVE  /\ Chain(name, a.records) \in Seq(Seq(STRING))
         /\ \A k \in 1..Len(Chain(name, a.records)) : Chain(name, a.records)[k] \in Vouched(name)
<1> DEFINE records == a.records
           H == Hops(name, records)
           with == {k \in 0..(MaxCnames - 1) : H[k] # <<>> /\ AddressesOf(records, {H[k][1]}) # <<>>}
           k0 == CHOOSE k \in with : \A j \in with : k <= j
<1>0. records \in Seq(Record) /\ MaxCnames \in Nat \ {0}
  BY NamesAssumption, ProxyAssumption DEF Record
<1>1. CASE with = {}
  <2>1. Chain(name, records) = <<>>
    BY <1>1 DEF Chain
  <2> HIDE DEF records
  <2> QED BY <2>1, EmptySeq DEF records
<1>2. CASE with # {}
  <2>1. Chain(name, records) = AddressesOf(records, {H[k0][1]})
    BY <1>2 DEF Chain
  <2>2. k0 \in with
    <3>1. with \in SUBSET Nat
      BY <1>0
    <3> HIDE DEF with
    <3> QED BY <1>2, <3>1, LeastNatural
  <2>3. k0 \in 0..MaxCnames /\ H[k0] # <<>>
    <3> HIDE DEF k0, H
    <3> QED BY <1>0, <2>2
  <2> DEFINE o == H[k0][1]
  <2>4. Found(records, {o}, Chain(name, records))
    BY <1>0, <2>1, AddressesFound
  <2>5. ASSUME NEW T, name \in T, Closed(a, T)
        PROVE  o \in T
    <3> HIDE DEF k0
    <3> QED BY <1>0, <2>3, <2>5, HopsStay
  <2> HIDE DEF o, k0, H, with
  <2>6. ASSUME NEW k \in 1..Len(Chain(name, records))
        PROVE  Chain(name, records)[k] \in Vouched(name)
    <3>1. PICK i \in 1..Len(records) :
            records[i].kind = "addr" /\ records[i].owner \in {o} /\ records[i].to = Chain(name, records)[k]
      BY <2>4 DEF Found
    <3>2. o \in Names(a, name)
      BY <3>1 DEF Names
    <3>3. o \in Leads(a, name)
      BY <2>5, <3>2 DEF Leads
    <3>4. Chain(name, records)[k] \in GivenBy(a, name)
      BY <3>1, <3>3 DEF GivenBy
    <3> QED BY <3>4, Zenon DEF Vouched
  <2> QED BY <2>4, <2>6 DEF Found
<1> QED BY <1>1, <1>2

(* ---------------------------- the invariant ----------------------------- *)

(* Every unit a source sent is in its socket, behind the request, held by  *)
(* the relay or taken by the sink; only a failed write loses what was held.*)
Behind(c, d) == IF d = "out" THEN buffered[c] ELSE 0
Held(c, d)   == src[c][d] + buf[c][d] + got[c][d] + Behind(c, d)
FlowOf(c, d) ==
  /\ Held(c, d) <= sent[c][d]
  /\ shut[c][d] \/ ~sinkDone[c][d] => Held(c, d) = sent[c][d]
  /\ pc[c] \notin {"relay", "drop"} =>
       ~srcDone[c][d] /\ ~sinkDone[c][d] /\ ~shut[c][d] /\ buf[c][d] = 0
  /\ srcDone[c][d] /\ ~sinkDone[c][d] => eof[c][d] /\ src[c][d] = 0
  /\ shut[c][d] => /\ sinkDone[c][d] /\ srcDone[c][d] /\ eof[c][d]
                   /\ src[c][d] = 0 /\ buf[c][d] = 0 /\ Behind(c, d) = 0
Empty == {"idle", "queued", "turned", "request", "relay", "done"}
Flow == \A c \in Conns : /\ pc[c] \in Empty => buffered[c] = 0
                         /\ \A d \in Dirs : FlowOf(c, d)

(* A name is resolved, and an address dialled, only for a request that is  *)
(* whole, and the target is then the one that was judged.                  *)
RouteOf(c) ==
  /\ wire[c] = "whole" => target[c] \in Targets
  /\ wire[c] # "whole" => /\ addrs[c] = <<>> /\ upstream[c] = Nowhere
                          /\ pc[c] \notin {"judge", "ask", "dial", "open", "relay"}
  /\ pc[c] \in {"ask", "dial", "open", "relay"} => Granted(target[c])
  /\ upstream[c] # Nowhere => /\ upstream[c] \notin Inward /\ Granted(target[c])
                              /\ upstream[c] \in Vouched(target[c].host)
AllVouched(c) == \A k \in 1..Len(addrs[c]) : addrs[c][k] \in Vouched(target[c].host)
Route == \A c \in Conns : RouteOf(c) /\ AllVouched(c)

IInv == TypeOK /\ SlotsCounted /\ Flow /\ Route

LEMMA InitInv == Init => IInv
<1> SUFFICES ASSUME Init PROVE IInv
  OBVIOUS
<1> USE ProxyAssumption DEF Init
<1>1. TypeOK
  BY DEF TypeOK, PerDir, Threads, NoTarget, Nowhere, None
<1>2. SlotsCounted
  <2>1. {c \in Conns : pc[c] \in Threads} = {}
    BY DEF Threads
  <2> QED BY <2>1, FS_EmptySet DEF SlotsCounted
<1>3. Flow
  BY DEF Flow, FlowOf, Held, Behind
<1>4. Route
  BY DEF Route, RouteOf, AllVouched, NoTarget
<1> QED BY <1>1, <1>2, <1>3, <1>4 DEF IInv

(* What one direction of one connection has is of its type.                *)
LEMMA PerDirValue ==
  ASSUME NEW S, NEW f \in PerDir(S), NEW c \in Conns, NEW d \in Dirs
  PROVE  f[c][d] \in S
  BY DEF PerDir


(* Every variable keeps its type, the count of slots apart.                *)
LEMMA TypeStep ==
  ASSUME IInv, [Next]_vars, live' \in 0..MaxTunnels
  PROVE  TypeOK'
<1> USE ProxyAssumption
<1>0. TypeOK /\ Flow
  BY DEF IInv
<1>a. /\ src \in PerDir(Nat) /\ buf \in PerDir(0..Chunk) /\ sent \in PerDir(0..MaxUnits) /\ got \in PerDir(Nat)
      /\ eof \in PerDir(BOOLEAN) /\ shut \in PerDir(BOOLEAN)
      /\ srcDone \in PerDir(BOOLEAN) /\ sinkDone \in PerDir(BOOLEAN)
      /\ "out" \in Dirs
  BY <1>0 DEF TypeOK, Dirs
<1>b. \A c \in Conns, d \in Dirs : src[c][d] \in Nat /\ buf[c][d] \in 0..Chunk /\ sent[c][d] \in 0..MaxUnits
                                   /\ got[c][d] \in Nat /\ src[c][d] <= sent[c][d]
  <2>1. TAKE c \in Conns, d \in Dirs
  <2>2. src[c][d] \in Nat /\ buf[c][d] \in 0..Chunk /\ sent[c][d] \in 0..MaxUnits /\ got[c][d] \in Nat
    BY <1>a, PerDirValue
  <2>3. Behind(c, d) \in Nat /\ Held(c, d) <= sent[c][d]
    BY <1>0 DEF TypeOK, Flow, FlowOf, Behind
  <2> QED BY <2>2, <2>3 DEF Held
<1>1. ASSUME NEW c \in Conns, Accept(c)
      PROVE  TypeOK'
  BY <1>1, <1>0 DEF Accept, Accepting, Go, control, request, dial, tunnel, TypeOK, Threads, Statuses
<1>2. ASSUME NEW c \in Conns, TurnAway(c)
      PROVE  TypeOK'
  BY <1>2, <1>0 DEF TurnAway, Go, control, request, dial, tunnel, TypeOK, Threads, Statuses
<1>3. ASSUME NEW c \in Conns, ReadRequest(c)
      PROVE  TypeOK'
  <2>1. src' \in PerDir(Nat)
    <3>1. CASE UNCHANGED src
      BY <1>a, <3>1
    <3>2. CASE \E k \in 0..src[c]["out"] : src' = [src EXCEPT ![c]["out"] = src[c]["out"] - k]
      <4>1. PICK k \in 0..src[c]["out"] : src' = [src EXCEPT ![c]["out"] = src[c]["out"] - k]
        BY <3>2
      <4>2. src[c]["out"] - k \in Nat
        BY <1>a, <1>b
      <4> QED BY <1>a, <4>1, <4>2 DEF PerDir
    <3> QED BY <1>3, <3>1, <3>2 DEF ReadRequest
  <2>2. buffered' \in [Conns -> Nat]
    <3>1. buffered \in [Conns -> Nat] /\ src[c]["out"] \in Nat
      BY <1>0, <1>a, <1>b DEF TypeOK
    <3>2. CASE UNCHANGED buffered
      BY <3>1, <3>2
    <3>3. CASE \E k \in 0..src[c]["out"] : buffered' = [buffered EXCEPT ![c] = k]
      BY <3>1, <3>3
    <3> QED BY <1>3, <3>2, <3>3 DEF ReadRequest
  <2> QED
    BY <1>0, <1>3, <2>1, <2>2 DEF ReadRequest, Go, RefuseWith, control, request, dial, TypeOK,
       Threads, Statuses
<1>4. ASSUME NEW c \in Conns, Judge(c)
      PROVE  TypeOK'
  BY <1>4, <1>0 DEF Judge, Go, RefuseWith, control, request, dial, tunnel, TypeOK, Threads, Statuses
<1>5. ASSUME NEW c \in Conns, Ask(c)
      PROVE  TypeOK'
  <2>1. /\ pc' \in [Conns -> {"idle", "queued", "turned", "done"} \cup Threads]
        /\ status' \in [Conns -> {None} \cup Statuses] /\ question' \in [Conns -> {"A", "AAAA"}]
    BY <1>0, <1>5 DEF Ask, NextQuestion, Go, RefuseWith, TypeOK, Threads, Statuses
  <2>2. tries' \in [Conns -> 0..(Attempts - 1)]
    <3>1. tries \in [Conns -> 0..(Attempts - 1)]
      BY <1>0 DEF TypeOK
    <3>2. CASE tries[c] + 1 < Attempts /\ tries' = [tries EXCEPT ![c] = tries[c] + 1]
      BY <3>1, <3>2
    <3>3. CASE tries' = [tries EXCEPT ![c] = 0]
      BY <3>1, <3>3
    <3> QED BY <1>5, <3>2, <3>3, Zenon DEF Ask, NextQuestion
  <2>3. answered' \in [Conns -> BOOLEAN]
    <3>1. answered \in [Conns -> BOOLEAN]
      BY <1>0 DEF TypeOK
    <3>2. CASE UNCHANGED answered
      BY <3>1, <3>2
    <3>3. ASSUME NEW ok \in BOOLEAN, answered' = [answered EXCEPT ![c] = answered[c] \/ ok]
          PROVE  answered' \in [Conns -> BOOLEAN]
      BY <3>1, <3>3
    <3> QED BY <1>5, <3>2, <3>3, Zenon DEF Ask, NextQuestion
  <2>4. addrs' \in [Conns -> Seq(Seq(STRING))]
    <3>1. addrs \in [Conns -> Seq(Seq(STRING))]
      BY <1>0 DEF TypeOK
    <3>2. CASE UNCHANGED addrs
      BY <3>1, <3>2
    <3>3. CASE addrs' = [addrs EXCEPT ![c] = addrs[c] \o <<>>]
      BY <3>1, <3>3
    <3>4. CASE \E b \in Answers : Checked(b) /\ addrs' = [addrs EXCEPT ![c] = addrs[c] \o Chain(target[c].host, b.records)]
      <4>1. PICK b \in Answers : Checked(b) /\ addrs' = [addrs EXCEPT ![c] = addrs[c] \o Chain(target[c].host, b.records)]
        BY <3>4
      <4>2. Chain(target[c].host, b.records) \in Seq(Seq(STRING))
        BY <4>1, ChainVouched
      <4>3. addrs[c] \o Chain(target[c].host, b.records) \in Seq(Seq(STRING))
        BY <3>1, <4>2
      <4> QED BY <3>1, <4>1, <4>3
    <3> QED BY <1>5, <3>2, <3>3, <3>4 DEF Ask, NextQuestion
  <2> QED BY <1>0, <1>5, <2>1, <2>2, <2>3, <2>4 DEF Ask, request, tunnel, TypeOK
<1>6. ASSUME NEW c \in Conns, Dial(c)
      PROVE  TypeOK'
  <2>1. /\ pc' \in [Conns -> {"idle", "queued", "turned", "done"} \cup Threads]
        /\ status' \in [Conns -> {None} \cup Statuses] /\ question' \in [Conns -> {"A", "AAAA"}]
    BY <1>0, <1>6 DEF Dial, DialOver, Go, RefuseWith, TypeOK, Threads, Statuses
  <2>2. answered' \in [Conns -> BOOLEAN] /\ late' \in [Conns -> BOOLEAN]
    <3>1. answered \in [Conns -> BOOLEAN] /\ late \in [Conns -> BOOLEAN]
      BY <1>0 DEF TypeOK
    <3>2. CASE DialOver(c)
      BY <3>1, <3>2 DEF DialOver
    <3>3. CASE UNCHANGED answered /\ late' \in {late, [late EXCEPT ![c] = TRUE]}
      BY <3>1, <3>3
    <3> QED BY <1>6, <3>2, <3>3 DEF Dial
  <2>3. addrs' \in [Conns -> Seq(Seq(STRING))]
    <3>1. addrs \in [Conns -> Seq(Seq(STRING))] /\ addrs[c] \in Seq(Seq(STRING))
      BY <1>0 DEF TypeOK
    <3>2. [addrs EXCEPT ![c] = <<>>] \in [Conns -> Seq(Seq(STRING))]
      BY <3>1
    <3>3. CASE addrs[c] # <<>> /\ addrs' = [addrs EXCEPT ![c] = Tail(addrs[c])]
      <4>1. Tail(addrs[c]) \in Seq(Seq(STRING))
        BY <3>1, <3>3
      <4> QED BY <3>1, <3>3, <4>1
    <3> QED BY <1>6, <3>2, <3>3, Zenon DEF Dial, DialOver
  <2>4. upstream' \in [Conns -> Seq(STRING)]
    <3>1. upstream \in [Conns -> Seq(STRING)] /\ addrs[c] \in Seq(Seq(STRING))
      BY <1>0 DEF TypeOK
    <3>2. CASE addrs[c] # <<>> /\ upstream' = [upstream EXCEPT ![c] = Head(addrs[c])]
      <4>1. Head(addrs[c]) \in Seq(STRING)
        BY <3>1, <3>2
      <4> QED BY <3>1, <3>2, <4>1
    <3> QED BY <1>6, <3>1, <3>2, Zenon DEF Dial
  <2> QED BY <1>0, <1>6, <2>1, <2>2, <2>3, <2>4 DEF Dial, request, tunnel, TypeOK
<1>7. ASSUME NEW c \in Conns, Open(c)
      PROVE  TypeOK'
  <2>1. got' \in PerDir(Nat)
    <3>1. buffered[c] \in Nat
      BY <1>0 DEF TypeOK
    <3>2. CASE UNCHANGED got
      BY <1>a, <3>2
    <3>3. CASE got' = [got EXCEPT ![c]["out"] = got[c]["out"] + buffered[c]]
      <4>1. got[c]["out"] + buffered[c] \in Nat
        BY <1>a, <1>b, <3>1
      <4> QED BY <1>a, <3>3, <4>1 DEF PerDir
    <3> QED BY <1>7, <3>2, <3>3 DEF Open
  <2>2. buffered' \in [Conns -> Nat]
    <3>1. buffered \in [Conns -> Nat]
      BY <1>0 DEF TypeOK
    <3>2. [buffered EXCEPT ![c] = 0] \in [Conns -> Nat]
      BY <3>1
    <3> QED BY <1>7, <3>1, <3>2, Zenon DEF Open
  <2> QED BY <1>0, <1>7, <2>1, <2>2 DEF Open, Go, request, dial, TypeOK, Threads
<1>8. ASSUME NEW c \in Conns, Refuse(c)
      PROVE  TypeOK'
  BY <1>8, <1>0 DEF Refuse, Go, control, request, dial, tunnel, TypeOK, Threads, Statuses
<1>9. ASSUME NEW c \in Conns, Drop(c)
      PROVE  TypeOK'
  <2>1. /\ src' \in PerDir(Nat) /\ buf' \in PerDir(0..Chunk) /\ sent' \in PerDir(0..MaxUnits) /\ got' \in PerDir(Nat)
    <3>1. 0 \in Nat /\ 0 \in 0..Chunk /\ 0 \in 0..MaxUnits
      OBVIOUS
    <3> QED BY <1>a, <1>9, <3>1 DEF PerDir, Drop
  <2>2. /\ eof' \in PerDir(BOOLEAN) /\ shut' \in PerDir(BOOLEAN)
        /\ srcDone' \in PerDir(BOOLEAN) /\ sinkDone' \in PerDir(BOOLEAN)
    BY <1>a, <1>9 DEF PerDir, Drop
  <2>3. wire' \in [Conns -> {"none", "part", "bad", "whole"}] /\ target' \in [Conns -> Targets \cup {NoTarget}]
    BY <1>0, <1>9 DEF Drop, TypeOK
  <2>4. addrs' \in [Conns -> Seq(Seq(STRING))] /\ upstream' \in [Conns -> Seq(STRING)]
    BY <1>0, <1>9 DEF Drop, TypeOK, Nowhere
  <2> HIDE ProxyAssumption
  <2>5. /\ pc' \in [Conns -> {"idle", "queued", "turned", "done"} \cup Threads]
        /\ status' \in [Conns -> {None} \cup Statuses] /\ question' \in [Conns -> {"A", "AAAA"}]
        /\ answered' \in [Conns -> BOOLEAN] /\ late' \in [Conns -> BOOLEAN]
    BY <1>0, <1>9 DEF Drop, TypeOK, Go
  <2>6. buffered' \in [Conns -> Nat] /\ tries' \in [Conns -> 0..(Attempts - 1)]
    BY <1>0, <1>9, ProxyAssumption DEF Drop, TypeOK
  <2> QED BY <2>1, <2>2, <2>3, <2>4, <2>5, <2>6 DEF TypeOK
<1>10. ASSUME NEW c \in Conns, RelayOver(c)
      PROVE  TypeOK'
  BY <1>10, <1>0 DEF RelayOver, Go, InRelay, control, request, dial, tunnel, TypeOK, Threads,
     Statuses
<1>11. ASSUME NEW c \in Conns, HeaderDeadline(c)
      PROVE  TypeOK'
  BY <1>11, <1>0 DEF HeaderDeadline, Go, RefuseWith, control, request, dial, tunnel, TypeOK,
     Threads, Statuses
<1>12. ASSUME NEW c \in Conns, BudgetSpent(c)
      PROVE  TypeOK'
  BY <1>12, <1>0 DEF BudgetSpent, Go, RefuseWith, control, request, dial, tunnel, TypeOK, Threads,
     Statuses
<1>13. ASSUME NEW c \in Conns, DialDeadline(c)
      PROVE  TypeOK'
  BY <1>13, <1>0, SMTT(30) DEF DialDeadline, Go, RefuseWith, DialOver, control, request, dial, tunnel,
     TypeOK, Threads, Statuses
<1>14. ASSUME NEW c \in Conns, Idle(c)
      PROVE  TypeOK'
  BY <1>14, <1>0 DEF Idle, Go, InRelay, control, request, dial, tunnel, TypeOK, Threads, Statuses
<1>15. ASSUME NEW c \in Conns, Connect(c)
      PROVE  TypeOK'
  BY <1>15, <1>0 DEF Connect, Go, control, request, dial, tunnel, TypeOK, Threads, Statuses
<1>16. ASSUME NEW c \in Conns, SendRequest(c)
      PROVE  TypeOK'
  <2>1. wire' \in [Conns -> {"none", "part", "bad", "whole"}]
    BY <1>0, <1>16 DEF SendRequest, TypeOK
  <2>2. target' \in [Conns -> Targets \cup {NoTarget}]
    BY <1>0, <1>16 DEF SendRequest, TypeOK
  <2> QED BY <1>0, <1>16, <2>1, <2>2 DEF SendRequest, control, dial, tunnel, TypeOK
<1>17. ASSUME NEW c \in Conns, NEW d \in Dirs, ReadFrom(c, d)
      PROVE  TypeOK'
  <2>1. src' \in PerDir(Nat) /\ buf' \in PerDir(0..Chunk)
    <3>1. CASE UNCHANGED <<buf, src>>
      BY <1>a, <3>1
    <3>2. CASE \E k \in 1..Least(Chunk, src[c][d]) :
                 buf' = [buf EXCEPT ![c][d] = k] /\ src' = [src EXCEPT ![c][d] = src[c][d] - k]
      <4>1. PICK k \in 1..Least(Chunk, src[c][d]) :
                   buf' = [buf EXCEPT ![c][d] = k] /\ src' = [src EXCEPT ![c][d] = src[c][d] - k]
        BY <3>2
      <4>2. src[c][d] - k \in Nat /\ k \in 0..Chunk
        BY <1>a, <1>b DEF Least
      <4> QED BY <1>a, <4>1, <4>2 DEF PerDir
    <3> QED BY <1>17, <3>1, <3>2 DEF ReadFrom
  <2>2. srcDone' \in PerDir(BOOLEAN)
    <3>1. CASE UNCHANGED srcDone
      BY <1>a, <3>1
    <3>2. CASE srcDone' = [srcDone EXCEPT ![c][d] = TRUE]
      BY <1>a, <3>2 DEF PerDir
    <3> QED BY <1>17, <3>1, <3>2 DEF ReadFrom
  <2> QED BY <1>0, <1>17, <2>1, <2>2 DEF ReadFrom, control, request, dial, TypeOK
<1>18. ASSUME NEW c \in Conns, NEW d \in Dirs, WriteTo(c, d)
      PROVE  TypeOK'
  <2>1. buf' \in PerDir(0..Chunk) /\ got' \in PerDir(Nat)
    <3>1. CASE UNCHANGED got /\ buf' = [buf EXCEPT ![c][d] = 0]
      <4>1. 0 \in 0..Chunk
        OBVIOUS
      <4> QED BY <1>a, <3>1, <4>1 DEF PerDir
    <3>2. CASE \E k \in 1..buf[c][d] :
                 buf' = [buf EXCEPT ![c][d] = buf[c][d] - k] /\ got' = [got EXCEPT ![c][d] = got[c][d] + k]
      <4>1. PICK k \in 1..buf[c][d] :
                   buf' = [buf EXCEPT ![c][d] = buf[c][d] - k] /\ got' = [got EXCEPT ![c][d] = got[c][d] + k]
        BY <3>2
      <4>2. buf[c][d] - k \in 0..Chunk /\ got[c][d] + k \in Nat
        BY <1>a, <1>b
      <4> QED BY <1>a, <4>1, <4>2 DEF PerDir
    <3> QED BY <1>18, <3>1, <3>2 DEF WriteTo
  <2>2. srcDone' \in PerDir(BOOLEAN) /\ sinkDone' \in PerDir(BOOLEAN)
    <3>1. CASE UNCHANGED <<srcDone, sinkDone>>
      BY <1>a, <3>1
    <3>2. CASE srcDone' = [srcDone EXCEPT ![c][d] = TRUE] /\ sinkDone' = [sinkDone EXCEPT ![c][d] = TRUE]
      BY <1>a, <3>2 DEF PerDir
    <3> QED BY <1>18, <3>1, <3>2 DEF WriteTo
  <2> QED BY <1>0, <1>18, <2>1, <2>2 DEF WriteTo, control, request, dial, TypeOK
<1>19. ASSUME NEW c \in Conns, NEW d \in Dirs, CloseSink(c, d)
      PROVE  TypeOK'
  <2>1. sinkDone' \in PerDir(BOOLEAN) /\ shut' \in PerDir(BOOLEAN)
    BY <1>a, <1>19 DEF PerDir, CloseSink
  <2> QED BY <1>0, <1>19, <2>1 DEF CloseSink, control, request, dial, TypeOK
<1>20. ASSUME NEW c \in Conns, NEW d \in Dirs, Send(c, d)
      PROVE  TypeOK'
  <2>1. sent[c][d] + 1 \in 0..MaxUnits /\ src[c][d] + 1 \in Nat
    BY <1>a, <1>b, <1>20, SMTT(30) DEF Send
  <2>2. sent' \in PerDir(0..MaxUnits) /\ src' \in PerDir(Nat)
    BY <1>a, <1>20, <2>1 DEF PerDir, Send
  <2> QED BY <1>0, <1>20, <2>2 DEF Send, control, request, dial, TypeOK
<1>21. ASSUME NEW c \in Conns, NEW d \in Dirs, End(c, d)
      PROVE  TypeOK'
  <2>1. sent[c][d] - src[c][d] \in 0..MaxUnits /\ 0 \in Nat
    BY <1>b
  <2>2. sent' \in PerDir(0..MaxUnits) /\ src' \in PerDir(Nat)
    <3>1. CASE UNCHANGED <<src, sent>>
      BY <1>a, <3>1
    <3>2. CASE src' = [src EXCEPT ![c][d] = 0] /\ sent' = [sent EXCEPT ![c][d] = sent[c][d] - src[c][d]]
      BY <1>a, <2>1, <3>2 DEF PerDir
    <3> QED BY <1>21, <3>1, <3>2 DEF End
  <2>3. eof' \in PerDir(BOOLEAN)
    BY <1>a, <1>21 DEF PerDir, End
  <2> QED BY <1>0, <1>21, <2>2, <2>3 DEF End, control, request, dial, TypeOK
<1>22. CASE UNCHANGED vars
  BY <1>0, <1>22 DEF vars, TypeOK, Threads, Statuses
<1> QED
  BY <1>1, <1>2, <1>3, <1>4, <1>5, <1>6, <1>7, <1>8, <1>9, <1>10, <1>11, <1>12, <1>13, <1>14,
     <1>15, <1>16, <1>17, <1>18, <1>19, <1>20, <1>21, <1>22 DEF Next, Serving, Deadline, Outside,
           Ended

(* A step takes a slot, gives one back or leaves the count as it is.       *)
Busy == {c \in Conns : pc[c] \in Threads}
SlotMove ==
  \/ live' = live /\ Busy' = Busy
  \/ live < MaxTunnels /\ live' = live + 1 /\ \E c \in Conns : c \notin Busy /\ Busy' = Busy \cup {c}
  \/ live' = live - 1 /\ \E c \in Conns : c \in Busy /\ Busy' = Busy \ {c}
LEMMA SlotMoves ==
  ASSUME IInv, [Next]_vars
  PROVE  SlotMove
<1>0. pc \in [Conns -> {"idle", "queued", "turned", "done"} \cup Threads]
  BY DEF IInv, TypeOK
<1>1. ASSUME NEW c \in Conns, Accept(c)
      PROVE  SlotMove
  <2>1. pc[c] \notin Threads
    BY <1>1 DEF Accept, Accepting, Threads
  <2>2. CASE live < MaxTunnels /\ Go(c, "request") /\ live' = live + 1
    <3>1. Busy' = Busy \cup {c}
      BY <1>0, <2>2 DEF Go, Busy, Threads
    <3> QED BY <2>1, <2>2, <3>1 DEF SlotMove, Busy
  <2>3. CASE live' = live /\ (Go(c, "turned") \/ Go(c, "done"))
    <3>1. Busy' = Busy
      BY <1>0, <2>1, <2>3 DEF Go, Busy, Threads
    <3> QED BY <2>3, <3>1 DEF SlotMove
  <2> QED BY <1>1, <2>2, <2>3 DEF Accept
<1>2. ASSUME NEW c \in Conns, TurnAway(c)
      PROVE  SlotMove
  <2>1. \A e \in Conns : pc'[e] \in Threads <=> pc[e] \in Threads
    BY <1>0, <1>2 DEF TurnAway, Go, Threads
  <2>2. UNCHANGED live
    BY <1>2 DEF TurnAway, RefuseWith
  <2> QED BY <2>1, <2>2 DEF SlotMove, Busy
<1>3. ASSUME NEW c \in Conns, ReadRequest(c)
      PROVE  SlotMove
  <2>1. \A e \in Conns : pc'[e] \in Threads <=> pc[e] \in Threads
    BY <1>0, <1>3 DEF ReadRequest, Go, RefuseWith, Threads
  <2>2. UNCHANGED live
    BY <1>3 DEF ReadRequest, RefuseWith
  <2> QED BY <2>1, <2>2 DEF SlotMove, Busy
<1>4. ASSUME NEW c \in Conns, Judge(c)
      PROVE  SlotMove
  <2>1. \A e \in Conns : pc'[e] \in Threads <=> pc[e] \in Threads
    BY <1>0, <1>4 DEF Judge, Go, RefuseWith, Threads
  <2>2. UNCHANGED live
    BY <1>4 DEF Judge, RefuseWith
  <2> QED BY <2>1, <2>2 DEF SlotMove, Busy
<1>5. ASSUME NEW c \in Conns, Ask(c)
      PROVE  SlotMove
  <2>1. \A e \in Conns : pc'[e] \in Threads <=> pc[e] \in Threads
    BY <1>0, <1>5 DEF Ask, Go, RefuseWith, NextQuestion, Threads
  <2>2. UNCHANGED live
    BY <1>5 DEF Ask, RefuseWith
  <2> QED BY <2>1, <2>2 DEF SlotMove, Busy
<1>6. ASSUME NEW c \in Conns, Dial(c)
      PROVE  SlotMove
  <2>1. \A e \in Conns : pc'[e] \in Threads <=> pc[e] \in Threads
    BY <1>0, <1>6 DEF Dial, Go, RefuseWith, DialOver, Threads
  <2>2. UNCHANGED live
    BY <1>6 DEF Dial, RefuseWith
  <2> QED BY <2>1, <2>2 DEF SlotMove, Busy
<1>7. ASSUME NEW c \in Conns, Open(c)
      PROVE  SlotMove
  <2>1. \A e \in Conns : pc'[e] \in Threads <=> pc[e] \in Threads
    BY <1>0, <1>7 DEF Open, Go, Threads
  <2>2. UNCHANGED live
    BY <1>7 DEF Open, RefuseWith
  <2> QED BY <2>1, <2>2 DEF SlotMove, Busy
<1>8. ASSUME NEW c \in Conns, Refuse(c)
      PROVE  SlotMove
  <2>1. \A e \in Conns : pc'[e] \in Threads <=> pc[e] \in Threads
    BY <1>0, <1>8 DEF Refuse, Go, Threads
  <2>2. UNCHANGED live
    BY <1>8 DEF Refuse, RefuseWith
  <2> QED BY <2>1, <2>2 DEF SlotMove, Busy
<1>9. ASSUME NEW c \in Conns, Drop(c)
      PROVE  SlotMove
  <2>1. c \in Busy /\ Busy' = Busy \ {c}
    BY <1>0, <1>9 DEF Drop, Go, Busy, Threads
  <2> QED BY <1>9, <2>1 DEF Drop, SlotMove
<1>10. ASSUME NEW c \in Conns, RelayOver(c)
      PROVE  SlotMove
  <2>1. \A e \in Conns : pc'[e] \in Threads <=> pc[e] \in Threads
    BY <1>0, <1>10 DEF RelayOver, Go, InRelay, Threads
  <2>2. UNCHANGED live
    BY <1>10 DEF RelayOver, RefuseWith
  <2> QED BY <2>1, <2>2 DEF SlotMove, Busy
<1>11. ASSUME NEW c \in Conns, HeaderDeadline(c)
      PROVE  SlotMove
  <2>1. \A e \in Conns : pc'[e] \in Threads <=> pc[e] \in Threads
    BY <1>0, <1>11 DEF HeaderDeadline, Go, RefuseWith, Threads
  <2>2. UNCHANGED live
    BY <1>11 DEF HeaderDeadline, RefuseWith
  <2> QED BY <2>1, <2>2 DEF SlotMove, Busy
<1>12. ASSUME NEW c \in Conns, BudgetSpent(c)
      PROVE  SlotMove
  <2>1. \A e \in Conns : pc'[e] \in Threads <=> pc[e] \in Threads
    BY <1>0, <1>12 DEF BudgetSpent, Go, RefuseWith, Threads
  <2>2. UNCHANGED live
    BY <1>12 DEF BudgetSpent, RefuseWith
  <2> QED BY <2>1, <2>2 DEF SlotMove, Busy
<1>13. ASSUME NEW c \in Conns, DialDeadline(c)
      PROVE  SlotMove
  <2>1. \A e \in Conns : pc'[e] \in Threads <=> pc[e] \in Threads
    BY <1>0, <1>13 DEF DialDeadline, Go, RefuseWith, DialOver, Threads
  <2>2. UNCHANGED live
    BY <1>13 DEF DialDeadline, RefuseWith
  <2> QED BY <2>1, <2>2 DEF SlotMove, Busy
<1>14. ASSUME NEW c \in Conns, Idle(c)
      PROVE  SlotMove
  <2>1. \A e \in Conns : pc'[e] \in Threads <=> pc[e] \in Threads
    BY <1>0, <1>14 DEF Idle, Go, InRelay, Threads
  <2>2. UNCHANGED live
    BY <1>14 DEF Idle, RefuseWith
  <2> QED BY <2>1, <2>2 DEF SlotMove, Busy
<1>15. ASSUME NEW c \in Conns, Connect(c)
      PROVE  SlotMove
  <2>1. \A e \in Conns : pc'[e] \in Threads <=> pc[e] \in Threads
    BY <1>0, <1>15 DEF Connect, Go, Threads
  <2>2. UNCHANGED live
    BY <1>15 DEF Connect, RefuseWith
  <2> QED BY <2>1, <2>2 DEF SlotMove, Busy
<1>16. ASSUME NEW c \in Conns, SendRequest(c)
      PROVE  SlotMove
  BY <1>16 DEF SendRequest, control, SlotMove, Busy
<1>17. ASSUME NEW c \in Conns, NEW d \in Dirs, ReadFrom(c, d)
      PROVE  SlotMove
  BY <1>17 DEF ReadFrom, control, SlotMove, Busy
<1>18. ASSUME NEW c \in Conns, NEW d \in Dirs, WriteTo(c, d)
      PROVE  SlotMove
  BY <1>18 DEF WriteTo, control, SlotMove, Busy
<1>19. ASSUME NEW c \in Conns, NEW d \in Dirs, CloseSink(c, d)
      PROVE  SlotMove
  BY <1>19 DEF CloseSink, control, SlotMove, Busy
<1>20. ASSUME NEW c \in Conns, NEW d \in Dirs, Send(c, d)
      PROVE  SlotMove
  BY <1>20 DEF Send, control, SlotMove, Busy
<1>21. ASSUME NEW c \in Conns, NEW d \in Dirs, End(c, d)
      PROVE  SlotMove
  BY <1>21 DEF End, control, SlotMove, Busy
<1>22. CASE UNCHANGED vars
  BY <1>22 DEF vars, SlotMove, Busy
<1> QED
  BY <1>1, <1>2, <1>3, <1>4, <1>5, <1>6, <1>7, <1>8, <1>9, <1>10, <1>11, <1>12, <1>13, <1>14,
     <1>15, <1>16, <1>17, <1>18, <1>19, <1>20, <1>21, <1>22 DEF Next, Serving, Deadline, Outside,
           Ended

LEMMA SlotStep ==
  ASSUME IInv, [Next]_vars
  PROVE  SlotsCounted' /\ live' \in 0..MaxTunnels
<1>1. /\ N \in Nat /\ MaxTunnels \in Nat /\ live \in 0..MaxTunnels /\ live = Cardinality(Busy)
      /\ SlotMove
  BY ProxyAssumption, SlotMoves DEF IInv, TypeOK, SlotsCounted, Busy
<1>2. IsFiniteSet(Busy)
  <2>1. IsFiniteSet(Conns)
    BY <1>1, FS_Interval DEF Conns
  <2> QED BY <2>1, FS_Subset DEF Busy
<1>3. SlotsCounted' <=> live' = Cardinality(Busy')
  BY DEF SlotsCounted, Busy
<1>4. CASE live' = live /\ Busy' = Busy
  BY <1>1, <1>3, <1>4
<1>5. ASSUME live < MaxTunnels, live' = live + 1, NEW c \in Conns, c \notin Busy, Busy' = Busy \cup {c}
      PROVE  SlotsCounted' /\ live' \in 0..MaxTunnels
  <2>1. Cardinality(Busy') = Cardinality(Busy) + 1
    BY <1>2, <1>5, FS_AddElement
  <2> QED BY <1>1, <1>3, <1>5, <2>1
<1>6. ASSUME live' = live - 1, NEW c \in Conns, c \in Busy, Busy' = Busy \ {c}
      PROVE  SlotsCounted' /\ live' \in 0..MaxTunnels
  <2>1. Cardinality(Busy') = Cardinality(Busy) - 1 /\ IsFiniteSet(Busy')
    BY <1>2, <1>6, FS_RemoveElement
  <2>2. Cardinality(Busy') \in Nat
    BY <2>1, FS_CardinalityType
  <2> QED BY <1>1, <1>3, <1>6, <2>1, <2>2
<1> QED BY <1>1, <1>4, <1>5, <1>6 DEF SlotMove

LEMMA FlowStep ==
  ASSUME IInv, [Next]_vars
  PROVE  Flow'
<1>0. /\ Flow /\ pc \in [Conns -> {"idle", "queued", "turned", "done"} \cup Threads] /\ buffered \in [Conns -> Nat]
      /\ src \in PerDir(Nat) /\ buf \in PerDir(0..Chunk) /\ sent \in PerDir(0..MaxUnits) /\ got \in PerDir(Nat)
      /\ eof \in PerDir(BOOLEAN) /\ shut \in PerDir(BOOLEAN)
      /\ srcDone \in PerDir(BOOLEAN) /\ sinkDone \in PerDir(BOOLEAN)
      /\ Chunk \in Nat /\ MaxUnits \in Nat
  BY ProxyAssumption DEF IInv, TypeOK
<1>1. ASSUME NEW c \in Conns, Accept(c)
      PROVE  Flow'
  BY <1>1, <1>0 DEF Accept, Accepting, Go, control, tunnel, Flow, FlowOf, Held, Behind, Empty,
     Threads
<1>2. ASSUME NEW c \in Conns, TurnAway(c)
      PROVE  Flow'
  BY <1>2, <1>0 DEF TurnAway, Go, control, tunnel, Flow, FlowOf, Held, Behind, Empty, Threads
<1>3. ASSUME NEW c \in Conns, ReadRequest(c)
      PROVE  Flow'
  <2>1. CASE UNCHANGED <<buffered, src>> /\ Go(c, "refuse")
    BY <1>0, <1>3, <2>1 DEF ReadRequest, Go, PerDir, Flow, FlowOf, Held, Behind, Empty, Threads
  <2>2. CASE UNCHANGED <<buffered, src>> /\ Go(c, "drop")
    BY <1>0, <1>3, <2>2 DEF ReadRequest, Go, PerDir, Flow, FlowOf, Held, Behind, Empty, Threads
  <2>3. ASSUME NEW k \in 0..src[c]["out"], buffered' = [buffered EXCEPT ![c] = k],
               src' = [src EXCEPT ![c]["out"] = src[c]["out"] - k], Go(c, "judge")
        PROVE  Flow'
    BY <1>0, <1>3, <2>3 DEF ReadRequest, Go, PerDir, Flow, FlowOf, Held, Behind, Empty, Threads
  <2> QED BY <1>3, <2>1, <2>2, <2>3 DEF ReadRequest, RefuseWith
<1>4. ASSUME NEW c \in Conns, Judge(c)
      PROVE  Flow'
  BY <1>4, <1>0 DEF Judge, Go, RefuseWith, control, tunnel, Flow, FlowOf, Held, Behind, Empty,
     Threads
<1>5. ASSUME NEW c \in Conns, Ask(c)
      PROVE  Flow'
  <2>1. \A e \in Conns : pc'[e] = pc[e] \/ (pc[e] = "ask" /\ pc'[e] \in {"dial", "refuse"})
    BY <1>0, <1>5 DEF Ask, NextQuestion, Go, RefuseWith
  <2>2. UNCHANGED <<buffered, tunnel>>
    BY <1>5 DEF Ask
  <2> QED BY <1>0, <2>1, <2>2 DEF tunnel, Flow, FlowOf, Held, Behind, Empty
<1>6. ASSUME NEW c \in Conns, Dial(c)
      PROVE  Flow'
  BY <1>6, <1>0 DEF Dial, Go, RefuseWith, DialOver, control, tunnel, Flow, FlowOf, Held, Behind,
     Empty, Threads
<1>7. ASSUME NEW c \in Conns, Open(c)
      PROVE  Flow'
  BY <1>7, <1>0 DEF Open, Go, control, request, dial, tunnel, PerDir, Flow, FlowOf, Held, Behind,
     Empty, Threads
<1>8. ASSUME NEW c \in Conns, Refuse(c)
      PROVE  Flow'
  BY <1>8, <1>0 DEF Refuse, Go, control, tunnel, Flow, FlowOf, Held, Behind, Empty, Threads
<1>9. ASSUME NEW c \in Conns, Drop(c)
      PROVE  Flow'
  BY <1>9, <1>0, SMTT(30) DEF Drop, Go, control, request, dial, tunnel, PerDir, Flow, FlowOf, Held, Behind,
     Empty, Threads
<1>10. ASSUME NEW c \in Conns, RelayOver(c)
      PROVE  Flow'
  BY <1>10, <1>0 DEF RelayOver, Go, InRelay, control, tunnel, Flow, FlowOf, Held, Behind, Empty,
     Threads
<1>11. ASSUME NEW c \in Conns, HeaderDeadline(c)
      PROVE  Flow'
  BY <1>11, <1>0 DEF HeaderDeadline, Go, RefuseWith, control, tunnel, Flow, FlowOf, Held, Behind,
     Empty, Threads
<1>12. ASSUME NEW c \in Conns, BudgetSpent(c)
      PROVE  Flow'
  BY <1>12, <1>0 DEF BudgetSpent, Go, RefuseWith, control, tunnel, Flow, FlowOf, Held, Behind,
     Empty, Threads
<1>13. ASSUME NEW c \in Conns, DialDeadline(c)
      PROVE  Flow'
  BY <1>13, <1>0 DEF DialDeadline, Go, RefuseWith, DialOver, control, tunnel, Flow, FlowOf, Held,
     Behind, Empty, Threads
<1>14. ASSUME NEW c \in Conns, Idle(c)
      PROVE  Flow'
  BY <1>14, <1>0 DEF Idle, Go, InRelay, control, tunnel, Flow, FlowOf, Held, Behind, Empty, Threads
<1>15. ASSUME NEW c \in Conns, Connect(c)
      PROVE  Flow'
  BY <1>15, <1>0 DEF Connect, Go, control, tunnel, Flow, FlowOf, Held, Behind, Empty, Threads
<1>16. ASSUME NEW c \in Conns, SendRequest(c)
      PROVE  Flow'
  BY <1>16, <1>0 DEF SendRequest, Connected, control, tunnel, Flow, FlowOf, Held, Behind, Empty,
     Threads
<1>17. ASSUME NEW c \in Conns, NEW d \in Dirs, ReadFrom(c, d)
      PROVE  Flow'
  <2>1. CASE srcDone' = [srcDone EXCEPT ![c][d] = TRUE] /\ UNCHANGED <<buf, src>> /\ src[c][d] = 0 /\ eof[c][d]
    BY <1>0, <1>17, <2>1 DEF ReadFrom, InRelay, WantsRead, control, PerDir, Flow, FlowOf, Held,
       Behind, Empty, Threads
  <2>2. ASSUME NEW k \in 1..Least(Chunk, src[c][d]), buf' = [buf EXCEPT ![c][d] = k],
               src' = [src EXCEPT ![c][d] = src[c][d] - k], UNCHANGED srcDone
        PROVE  Flow'
    <3>1. src[c][d] \in Nat /\ k \in Nat /\ k <= src[c][d]
      BY <1>0, PerDirValue DEF Least
    <3>2. \A e \in Conns, b \in Dirs :
            /\ buf'[e][b] = IF e = c /\ b = d THEN k ELSE buf[e][b]
            /\ src'[e][b] = IF e = c /\ b = d THEN src[c][d] - k ELSE src[e][b]
      BY <1>0, <2>2 DEF PerDir
    <3>3. \A e \in Conns, b \in Dirs : Held(e, b)' = Held(e, b)
      <4> TAKE e \in Conns, b \in Dirs
      <4>1. src[e][b] \in Nat /\ got[e][b] \in Nat /\ Behind(e, b) \in Nat /\ buf[e][b] \in Nat
        BY <1>0, PerDirValue DEF Behind
      <4> QED BY <1>17, <3>1, <3>2, <4>1 DEF ReadFrom, WantsRead, Held, Behind
    <3> QED
      BY <1>0, <1>17, <2>2, <3>1, <3>2, <3>3 DEF ReadFrom, InRelay, WantsRead, control, Flow,
         FlowOf, Behind
  <2> QED BY <1>17, <2>1, <2>2 DEF ReadFrom
<1>18. ASSUME NEW c \in Conns, NEW d \in Dirs, WriteTo(c, d)
      PROVE  Flow'
  <2>1. CASE /\ buf' = [buf EXCEPT ![c][d] = 0] /\ srcDone' = [srcDone EXCEPT ![c][d] = TRUE]
             /\ sinkDone' = [sinkDone EXCEPT ![c][d] = TRUE] /\ UNCHANGED got
    BY <1>0, <1>18, <2>1 DEF WriteTo, InRelay, WantsWrite, control, PerDir, Flow, FlowOf, Held,
       Behind, Empty, Threads
  <2>2. ASSUME NEW k \in 1..buf[c][d], buf' = [buf EXCEPT ![c][d] = buf[c][d] - k],
               got' = [got EXCEPT ![c][d] = got[c][d] + k], UNCHANGED <<srcDone, sinkDone>>
        PROVE  Flow'
    BY <1>0, <1>18, <2>2 DEF WriteTo, InRelay, WantsWrite, control, PerDir, Flow, FlowOf, Held,
       Behind, Empty, Threads
  <2> QED BY <1>18, <2>1, <2>2 DEF WriteTo
<1>19. ASSUME NEW c \in Conns, NEW d \in Dirs, CloseSink(c, d)
      PROVE  Flow'
  BY <1>19, <1>0 DEF CloseSink, InRelay, control, request, dial, tunnel, PerDir, Flow, FlowOf,
     Held, Behind, Empty, Threads
<1>20. ASSUME NEW c \in Conns, NEW d \in Dirs, Send(c, d)
      PROVE  Flow'
  BY <1>20, <1>0 DEF Send, Talking, Connected, InRelay, control, request, dial, tunnel, PerDir,
     Flow, FlowOf, Held, Behind, Empty, Threads
<1>21. ASSUME NEW c \in Conns, NEW d \in Dirs, End(c, d)
      PROVE  Flow'
  <2>1. CASE UNCHANGED <<src, sent>>
    BY <1>0, <1>21, <2>1 DEF End, control, PerDir, Flow, FlowOf, Held, Behind, Empty, Threads
  <2>2. CASE src' = [src EXCEPT ![c][d] = 0] /\ sent' = [sent EXCEPT ![c][d] = sent[c][d] - src[c][d]]
    <3>1. \A e \in Conns, b \in Dirs :
            /\ src'[e][b] = IF e = c /\ b = d THEN 0 ELSE src[e][b]
            /\ sent'[e][b] = IF e = c /\ b = d THEN sent[c][d] - src[c][d] ELSE sent[e][b]
            /\ eof'[e][b] = IF e = c /\ b = d THEN TRUE ELSE eof[e][b]
      BY <1>0, <1>21, <2>2 DEF End, PerDir
    <3>2. \A e \in Conns, b \in Dirs : Held(e, b)' = IF e = c /\ b = d THEN Held(c, d) - src[c][d] ELSE Held(e, b)
      <4> TAKE e \in Conns, b \in Dirs
      <4>1. src[e][b] \in Nat /\ got[e][b] \in Nat /\ Behind(e, b) \in Nat /\ buf[e][b] \in Nat
        BY <1>0, PerDirValue DEF Behind
      <4>2. buf'[e][b] = buf[e][b] /\ got'[e][b] = got[e][b] /\ Behind(e, b)' = Behind(e, b)
        BY <1>21 DEF End, Behind
      <4>3. CASE e = c /\ b = d
        <5>1. src'[e][b] = 0
          BY <3>1, <4>3
        <5>2. Held(e, b)' = 0 + buf[e][b] + got[e][b] + Behind(e, b)
          BY <4>2, <5>1 DEF Held
        <5>3. Held(e, b) = src[e][b] + buf[e][b] + got[e][b] + Behind(e, b)
          BY DEF Held
        <5>4. Held(e, b)' = Held(e, b) - src[e][b]
          BY <4>1, <5>2, <5>3
        <5> QED BY <4>3, <5>4
      <4>4. CASE ~(e = c /\ b = d)
        BY <3>1, <4>1, <4>2, <4>4 DEF Held
      <4> QED BY <4>3, <4>4
    <3>3. \A e \in Conns, b \in Dirs : Held(e, b) \in Nat /\ src[e][b] \in Nat /\ sent[e][b] \in Nat
      <4> TAKE e \in Conns, b \in Dirs
      <4>1. src[e][b] \in Nat /\ got[e][b] \in Nat /\ Behind(e, b) \in Nat /\ buf[e][b] \in Nat /\ sent[e][b] \in Nat
        BY <1>0, PerDirValue DEF Behind
      <4> QED BY <4>1 DEF Held
    <3>4. ASSUME NEW e \in Conns, NEW b \in Dirs
          PROVE  FlowOf(e, b)'
      <4>1. /\ UNCHANGED <<pc, buf, srcDone, sinkDone, shut>> /\ Behind(e, b)' = Behind(e, b)
            /\ ~eof[c][d] /\ FlowOf(e, b)
        BY <1>0, <1>21 DEF End, control, Behind, Flow
      <4>2. CASE e = c /\ b = d
        <5>1. /\ src'[c][d] = 0 /\ sent'[c][d] = sent[c][d] - src[c][d] /\ eof'[c][d]
              /\ Held(c, d)' = Held(c, d) - src[c][d]
          BY <3>1, <3>2
        <5> QED BY <3>3, <4>1, <4>2, <5>1 DEF FlowOf
      <4>3. CASE ~(e = c /\ b = d)
        BY <3>1, <3>2, <3>3, <4>1, <4>3 DEF FlowOf
      <4> QED BY <4>2, <4>3
    <3> QED BY <1>0, <1>21, <3>4 DEF End, control, Flow
  <2> QED BY <1>21, <2>1, <2>2 DEF End
<1>22. CASE UNCHANGED vars
  BY <1>0, <1>22 DEF vars, PerDir, Flow, FlowOf, Held, Behind, Empty, Threads
<1> QED
  BY <1>1, <1>2, <1>3, <1>4, <1>5, <1>6, <1>7, <1>8, <1>9, <1>10, <1>11, <1>12, <1>13, <1>14,
     <1>15, <1>16, <1>17, <1>18, <1>19, <1>20, <1>21, <1>22 DEF Next, Serving, Deadline, Outside,
           Ended

LEMMA RouteStep ==
  ASSUME IInv, [Next]_vars
  PROVE  Route'
<1>0. /\ Route /\ pc \in [Conns -> {"idle", "queued", "turned", "done"} \cup Threads]
      /\ wire \in [Conns -> {"none", "part", "bad", "whole"}] /\ target \in [Conns -> Targets \cup {NoTarget}]
      /\ addrs \in [Conns -> Seq(Seq(STRING))] /\ upstream \in [Conns -> Seq(STRING)]
  BY DEF IInv, TypeOK
<1>1. ASSUME NEW c \in Conns, Accept(c)
      PROVE  Route'
  BY <1>1, <1>0 DEF Accept, Accepting, Go, dial, request, control, Route, RouteOf, AllVouched,
     Threads, Statuses
<1>2. ASSUME NEW c \in Conns, TurnAway(c)
      PROVE  Route'
  BY <1>2, <1>0 DEF TurnAway, Go, dial, request, control, Route, RouteOf, AllVouched, Threads,
     Statuses
<1>3. ASSUME NEW c \in Conns, ReadRequest(c)
      PROVE  Route'
  BY <1>3, <1>0 DEF ReadRequest, Go, RefuseWith, dial, request, control, Route, RouteOf,
     AllVouched, Threads, Statuses
<1>4. ASSUME NEW c \in Conns, Judge(c)
      PROVE  Route'
  BY <1>4, <1>0 DEF Judge, Go, RefuseWith, dial, request, control, Route, RouteOf, AllVouched,
     Threads, Statuses
<1>5. ASSUME NEW c \in Conns, Ask(c)
      PROVE  Route'
  <2>1. UNCHANGED <<wire, target, upstream>>
    BY <1>5 DEF Ask, request
  <2>2. \A e \in Conns : pc'[e] = pc[e] \/ (pc[e] = "ask" /\ pc'[e] \in {"dial", "refuse"})
    BY <1>0, <1>5 DEF Ask, NextQuestion, Go, RefuseWith
  <2>3. wire[c] = "whole" /\ Granted(target[c])
    BY <1>0, <1>5 DEF Ask, Route, RouteOf
  <2>4. \A e \in Conns : e # c => addrs'[e] = addrs[e]
    BY <1>0, <1>5 DEF Ask, NextQuestion
  <2>5. AllVouched(c)'
    <3>1. CASE UNCHANGED addrs
      BY <1>0, <2>1, <3>1 DEF Route, AllVouched
    <3>2. ASSUME NEW found \in Seq(Seq(STRING)), addrs' = [addrs EXCEPT ![c] = addrs[c] \o found],
                 \A k \in 1..Len(found) : found[k] \in Vouched(target[c].host)
          PROVE  AllVouched(c)'
      <4>1. addrs'[c] = addrs[c] \o found /\ addrs[c] \in Seq(Seq(STRING)) /\ AllVouched(c)
        BY <1>0, <3>2 DEF Route
      <4>2. ASSUME NEW k \in 1..Len(addrs'[c])
            PROVE  addrs'[c][k] \in Vouched(target[c].host)
        <5>1. CASE k <= Len(addrs[c])
          BY <4>1, <5>1 DEF AllVouched
        <5>2. CASE ~(k <= Len(addrs[c]))
          <6>1. k - Len(addrs[c]) \in 1..Len(found) /\ addrs'[c][k] = found[k - Len(addrs[c])]
            BY <4>1, <5>2
          <6> QED BY <3>2, <6>1
        <5> QED BY <5>1, <5>2
      <4> QED BY <2>1, <4>2 DEF AllVouched
    <3>3. CASE addrs' = [addrs EXCEPT ![c] = addrs[c] \o <<>>]
      <4>1. addrs[c] \o <<>> = addrs[c]
        BY <1>0
      <4> QED BY <1>0, <2>1, <3>3, <4>1 DEF Route, AllVouched
    <3>4. ASSUME NEW b \in Answers, Checked(b),
                 addrs' = [addrs EXCEPT ![c] = addrs[c] \o Chain(target[c].host, b.records)]
          PROVE  AllVouched(c)'
      BY <3>2, <3>4, ChainVouched
    <3> QED BY <1>5, <3>1, <3>3, <3>4, Zenon DEF Ask, NextQuestion
  <2>6. \A e \in Conns : AllVouched(e)'
    BY <1>0, <2>1, <2>4, <2>5 DEF Route, AllVouched
  <2>7. \A e \in Conns : RouteOf(e)'
    BY <1>0, <2>1, <2>2, <2>3, <2>4 DEF Route, RouteOf
  <2> QED BY <2>6, <2>7 DEF Route
<1>6. ASSUME NEW c \in Conns, Dial(c)
      PROVE  Route'
  <2>1. UNCHANGED <<wire, target>> /\ wire[c] = "whole" /\ Granted(target[c])
    BY <1>0, <1>6 DEF Dial, request, Route, RouteOf
  <2>2. \A e \in Conns : pc'[e] = pc[e] \/ (pc[e] = "dial" /\ pc'[e] \in {"open", "refuse"})
    BY <1>0, <1>6 DEF Dial, Go, RefuseWith
  <2>3. \A e \in Conns : e # c => addrs'[e] = addrs[e] /\ upstream'[e] = upstream[e]
    BY <1>0, <1>6 DEF Dial, DialOver
  <2>4. addrs[c] # <<>> => Head(addrs[c]) \in Vouched(target[c].host)
    BY <1>0 DEF Route, AllVouched
  <2>5. upstream'[c] = upstream[c] \/ (upstream'[c] \in Vouched(target[c].host) /\ upstream'[c] \notin Inward)
    BY <1>0, <1>6, <2>4 DEF Dial
  <2>6. AllVouched(c)'
    <3>1. CASE addrs[c] # <<>> /\ addrs' = [addrs EXCEPT ![c] = Tail(addrs[c])]
      <4>1. addrs'[c] = Tail(addrs[c]) /\ addrs[c] \in Seq(Seq(STRING)) /\ AllVouched(c)
        BY <1>0, <3>1 DEF Route
      <4>2. ASSUME NEW k \in 1..Len(addrs'[c])
            PROVE  addrs'[c][k] = addrs[c][k + 1] /\ k + 1 \in 1..Len(addrs[c])
        <5>1. Len(Tail(addrs[c])) = Len(addrs[c]) - 1 /\ Len(addrs[c]) \in Nat
          BY <3>1, <4>1, HeadTailProperties, LenProperties
        <5>2. Tail(addrs[c])[k] = addrs[c][k + 1]
          BY <3>1, <4>1, <5>1, HeadTailProperties
        <5> QED BY <4>1, <5>1, <5>2
      <4> QED BY <2>1, <4>1, <4>2 DEF AllVouched
    <3>2. CASE DialOver(c)
      BY <1>0, <3>2 DEF DialOver, AllVouched
    <3> QED BY <1>6, <3>1, <3>2 DEF Dial
  <2>7. \A e \in Conns : AllVouched(e)'
    BY <1>0, <2>1, <2>3, <2>6 DEF Route, AllVouched
  <2>8. \A e \in Conns : RouteOf(e)'
    BY <1>0, <2>1, <2>2, <2>3, <2>5 DEF Route, RouteOf
  <2> QED BY <2>7, <2>8 DEF Route
<1>7. ASSUME NEW c \in Conns, Open(c)
      PROVE  Route'
  BY <1>7, <1>0 DEF Open, Go, dial, request, control, Route, RouteOf, AllVouched, Threads, Statuses
<1>8. ASSUME NEW c \in Conns, Refuse(c)
      PROVE  Route'
  BY <1>8, <1>0 DEF Refuse, Go, dial, request, control, Route, RouteOf, AllVouched, Threads,
     Statuses
<1>9. ASSUME NEW c \in Conns, Drop(c)
      PROVE  Route'
  <2>1. \A e \in Conns : e # c => /\ pc'[e] = pc[e] /\ wire'[e] = wire[e] /\ target'[e] = target[e]
                                  /\ addrs'[e] = addrs[e] /\ upstream'[e] = upstream[e]
    BY <1>0, <1>9 DEF Drop, Go
  <2>2. pc'[c] = "done" /\ wire'[c] = "none" /\ addrs'[c] = <<>> /\ upstream'[c] = Nowhere
    BY <1>0, <1>9 DEF Drop, Go
  <2>3. \A e \in Conns : AllVouched(e)'
    BY <1>0, <2>1, <2>2 DEF Route, AllVouched
  <2>4. \A e \in Conns : RouteOf(e)'
    BY <1>0, <2>1, <2>2 DEF Route, RouteOf
  <2> QED BY <2>3, <2>4 DEF Route
<1>10. ASSUME NEW c \in Conns, RelayOver(c)
      PROVE  Route'
  BY <1>10, <1>0 DEF RelayOver, Go, InRelay, dial, request, control, Route, RouteOf, AllVouched,
     Threads, Statuses
<1>11. ASSUME NEW c \in Conns, HeaderDeadline(c)
      PROVE  Route'
  BY <1>11, <1>0 DEF HeaderDeadline, Go, RefuseWith, dial, request, control, Route, RouteOf,
     AllVouched, Threads, Statuses
<1>12. ASSUME NEW c \in Conns, BudgetSpent(c)
      PROVE  Route'
  BY <1>12, <1>0 DEF BudgetSpent, Go, RefuseWith, dial, request, control, Route, RouteOf,
     AllVouched, Threads, Statuses
<1>13. ASSUME NEW c \in Conns, DialDeadline(c)
      PROVE  Route'
  <2>1. \A e \in Conns : addrs'[e] = addrs[e] \/ addrs'[e] = <<>>
    BY <1>0, <1>13 DEF DialDeadline, DialOver
  <2>2. \A e \in Conns : AllVouched(e)'
    BY <1>0, <1>13, <2>1 DEF DialDeadline, request, Route, AllVouched
  <2>3. \A e \in Conns : RouteOf(e)'
    BY <1>0, <1>13, <2>1 DEF DialDeadline, RefuseWith, Go, request, Route, RouteOf
  <2> QED BY <2>2, <2>3 DEF Route
<1>14. ASSUME NEW c \in Conns, Idle(c)
      PROVE  Route'
  BY <1>14, <1>0 DEF Idle, Go, InRelay, dial, request, control, Route, RouteOf, AllVouched,
     Threads, Statuses
<1>15. ASSUME NEW c \in Conns, Connect(c)
      PROVE  Route'
  BY <1>15, <1>0 DEF Connect, Go, dial, request, control, Route, RouteOf, AllVouched, Threads,
     Statuses
<1>16. ASSUME NEW c \in Conns, SendRequest(c)
      PROVE  Route'
  <2>1. /\ UNCHANGED <<pc, addrs, upstream>> /\ wire[c] # "whole" /\ addrs[c] = <<>> /\ upstream[c] = Nowhere
        /\ pc[c] \notin {"judge", "ask", "dial", "open", "relay"}
    BY <1>0, <1>16 DEF SendRequest, control, dial, Route, RouteOf
  <2>2. \A e \in Conns : e # c => wire'[e] = wire[e] /\ target'[e] = target[e]
    BY <1>0, <1>16 DEF SendRequest
  <2>3. wire'[c] = "whole" => target'[c] \in Targets
    BY <1>0, <1>16 DEF SendRequest
  <2>4. ASSUME NEW e \in Conns
        PROVE  AllVouched(e)'
    <3>1. CASE e = c
      BY <2>1, <3>1 DEF AllVouched
    <3>2. CASE e # c
      BY <1>0, <2>1, <2>2, <3>2 DEF Route, AllVouched
    <3> QED BY <3>1, <3>2
  <2>5. \A e \in Conns : RouteOf(e)'
    BY <1>0, <2>1, <2>2, <2>3 DEF Route, RouteOf
  <2> QED BY <2>4, <2>5 DEF Route
<1>17. ASSUME NEW c \in Conns, NEW d \in Dirs, ReadFrom(c, d)
      PROVE  Route'
  BY <1>17, <1>0 DEF ReadFrom, InRelay, WantsRead, Least, dial, request, control, Route, RouteOf,
     AllVouched, Threads, Statuses
<1>18. ASSUME NEW c \in Conns, NEW d \in Dirs, WriteTo(c, d)
      PROVE  Route'
  BY <1>18, <1>0 DEF WriteTo, InRelay, WantsWrite, dial, request, control, Route, RouteOf,
     AllVouched, Threads, Statuses
<1>19. ASSUME NEW c \in Conns, NEW d \in Dirs, CloseSink(c, d)
      PROVE  Route'
  BY <1>19, <1>0 DEF CloseSink, InRelay, dial, request, control, Route, RouteOf, AllVouched,
     Threads, Statuses
<1>20. ASSUME NEW c \in Conns, NEW d \in Dirs, Send(c, d)
      PROVE  Route'
  BY <1>20, <1>0 DEF Send, Talking, Connected, InRelay, dial, request, control, Route, RouteOf,
     AllVouched, Threads, Statuses
<1>21. ASSUME NEW c \in Conns, NEW d \in Dirs, End(c, d)
      PROVE  Route'
  BY <1>21, <1>0 DEF End, Connected, InRelay, dial, request, control, Route, RouteOf, AllVouched,
     Threads, Statuses
<1>22. CASE UNCHANGED vars
  BY <1>0, <1>22 DEF vars, Route, RouteOf, AllVouched
<1> QED
  BY <1>1, <1>2, <1>3, <1>4, <1>5, <1>6, <1>7, <1>8, <1>9, <1>10, <1>11, <1>12, <1>13, <1>14,
     <1>15, <1>16, <1>17, <1>18, <1>19, <1>20, <1>21, <1>22 DEF Next, Serving, Deadline, Outside,
           Ended

LEMMA StepInv == IInv /\ [Next]_vars => IInv'
  BY TypeStep, SlotStep, FlowStep, RouteStep DEF IInv

(* A grant covers a name in full, but for the one label of a wildcard.     *)
LEMMA GrantedInFull ==
  ASSUME NEW t \in Targets, Granted(t)
  PROVE  \E e \in Allow : /\ e.port = t.port
                          /\ \/ ~e.wildcard /\ t.host = e.labels
                             \/ e.wildcard /\ t.host = <<Head(t.host)>> \o e.labels
<1>1. PICK e \in Allow : e.port = t.port /\ Covers(e, t.host)
  BY DEF Granted
<1>2. t.host \in Seq(STRING) \ {<<>>} /\ e.wildcard \in BOOLEAN
  BY NamesAssumption
<1>3. t.host = <<Head(t.host)>> \o Tail(t.host)
  BY <1>2
<1> QED BY <1>1, <1>2, <1>3 DEF Covers

LEMMA InvTunnelTrue == IInv => TunnelTrue
<1> SUFFICES ASSUME IInv PROVE TunnelTrue
  OBVIOUS
<1>1. DialledIsGranted
  BY GrantedInFull DEF IInv, Route, RouteOf, DialledIsGranted
<1>2. TunnelIntact
  <2> SUFFICES ASSUME NEW c \in Conns, NEW d \in Dirs, InRelay(c)
               PROVE  /\ shut[c][d] \/ ~sinkDone[c][d] => sent[c][d] = src[c][d] + buf[c][d] + got[c][d]
                      /\ shut[c][d] => eof[c][d] /\ got[c][d] = sent[c][d]
    BY DEF TunnelIntact
  <2>1. src[c][d] \in Nat /\ buf[c][d] \in Nat /\ got[c][d] \in Nat /\ sent[c][d] \in Nat
    BY ProxyAssumption, PerDirValue, SMTT(30) DEF IInv, TypeOK
  <2>2. Behind(c, d) = 0 /\ FlowOf(c, d)
    BY DEF IInv, Flow, InRelay, Empty, Behind
  <2> QED BY <2>1, <2>2 DEF FlowOf, Held
<1> QED BY <1>1, <1>2 DEF IInv, TunnelTrue

LEMMA Invariant == Spec => []IInv
  BY InitInv, StepInv, PTL DEF Spec

(* The proxy's variables keep their types, the count of tunnels within     *)
(* MAX_TUNNELS and a direction's buffer within CHUNK among them.           *)
THEOREM ProxyTypes == Spec => []TypeOK
<1>1. IInv => TypeOK
  BY DEF IInv
<1> QED BY <1>1, Invariant, PTL

(* Whatever the allowlist, the requests and the answers of the resolvers:  *)
(* a tunnel goes to an address outside the namespace that was given for a  *)
(* name and port one entry grants, at the end of a chain of CNAMEs of any  *)
(* length (dial(), chain()); it loses nothing, and passes an end on behind *)
(* everything before it (relay::run()); and every slot is counted (Live).  *)
THEOREM TunnelTrueHolds == Spec => []TunnelTrue
  BY Invariant, InvTunnelTrue, PTL

(* ------------------------------ refinement ------------------------------ *)

(* One stream's value changed, or none.                                    *)
LEMMA StreamValue ==
  ASSUME NEW f, NEW c \in Conns, NEW d \in Dirs
  PROVE  <<c, d>> \in Conns \X Dirs /\ PerStream(f)[<<c, d>>] = f[c][d]
  BY DEF PerStream
Put(f, c, d, v) == [PerStream(f) EXCEPT ![<<c, d>>] = v]
LEMMA StreamOne ==
  ASSUME NEW f, NEW g, NEW c \in Conns, NEW d \in Dirs, NEW v,
         \A e \in Conns, b \in Dirs : g[e][b] = IF e = c /\ b = d THEN v ELSE f[e][b]
  PROVE  PerStream(g) = Put(f, c, d, v)
<1>1. ASSUME NEW s \in Conns \X Dirs
      PROVE  g[s[1]][s[2]] = IF s = <<c, d>> THEN v ELSE f[s[1]][s[2]]
  OBVIOUS
<1> QED BY <1>1 DEF PerStream, Put
LEMMA StreamSame ==
  ASSUME NEW f, NEW g, \A e \in Conns, b \in Dirs : g[e][b] = f[e][b]
  PROVE  PerStream(g) = PerStream(f)
  BY DEF PerStream

(* What the tunnels do, as steps of the streams.                           *)
LEMMA StreamInit == Init => EndToEnd!Init
<1> SUFFICES ASSUME Init PROVE EndToEnd!Init
  OBVIOUS
<1>1. \A s \in Conns \X Dirs : s[1] \in Conns /\ s[2] \in Dirs
  OBVIOUS
<1>2. PerStream(sent) = [s \in Conns \X Dirs |-> 0] /\ PerStream(got) = [s \in Conns \X Dirs |-> 0]
  BY <1>1 DEF Init, PerStream
<1>3. PerStream(eof) = [s \in Conns \X Dirs |-> FALSE] /\ PerStream(shut) = [s \in Conns \X Dirs |-> FALSE]
  BY <1>1 DEF Init, PerStream
<1> QED BY <1>2, <1>3 DEF EndToEnd!Init

LEMMA StreamStep ==
  ASSUME IInv, [Next]_vars
  PROVE  [EndToEnd!Next]_(EndToEnd!svars)
<1>0. /\ buffered \in [Conns -> Nat] /\ "out" \in Dirs /\ Flow
      /\ src \in PerDir(Nat) /\ buf \in PerDir(0..Chunk) /\ sent \in PerDir(0..MaxUnits) /\ got \in PerDir(Nat)
      /\ eof \in PerDir(BOOLEAN) /\ shut \in PerDir(BOOLEAN)
  BY DEF IInv, TypeOK, Dirs
<1>a. \A c \in Conns, d \in Dirs :
        /\ src[c][d] \in Nat /\ buf[c][d] \in Nat /\ sent[c][d] \in Nat /\ got[c][d] \in Nat
        /\ src[c][d] + buf[c][d] + got[c][d] + Behind(c, d) <= sent[c][d] /\ Behind(c, d) \in Nat
        /\ FlowOf(c, d)
  <2> TAKE c \in Conns, d \in Dirs
  <2>1. src[c][d] \in Nat /\ buf[c][d] \in Nat /\ sent[c][d] \in Nat /\ got[c][d] \in Nat
    BY <1>0, ProxyAssumption, PerDirValue
  <2> QED BY <1>0, <2>1 DEF Flow, FlowOf, Held, Behind
<1>b. ASSUME UNCHANGED <<sent, got, eof, shut>>
      PROVE  UNCHANGED EndToEnd!svars
  BY <1>b DEF EndToEnd!svars, PerStream
<1>1. ASSUME NEW c \in Conns, Accept(c)
      PROVE  [EndToEnd!Next]_(EndToEnd!svars)
  BY <1>1, <1>b DEF Accept, tunnel
<1>2. ASSUME NEW c \in Conns, TurnAway(c)
      PROVE  [EndToEnd!Next]_(EndToEnd!svars)
  BY <1>2, <1>b DEF TurnAway, tunnel
<1>3. ASSUME NEW c \in Conns, ReadRequest(c)
      PROVE  [EndToEnd!Next]_(EndToEnd!svars)
  BY <1>3, <1>b DEF ReadRequest, tunnel
<1>4. ASSUME NEW c \in Conns, Judge(c)
      PROVE  [EndToEnd!Next]_(EndToEnd!svars)
  BY <1>4, <1>b DEF Judge, tunnel
<1>5. ASSUME NEW c \in Conns, Ask(c)
      PROVE  [EndToEnd!Next]_(EndToEnd!svars)
  BY <1>5, <1>b DEF Ask, tunnel
<1>6. ASSUME NEW c \in Conns, Dial(c)
      PROVE  [EndToEnd!Next]_(EndToEnd!svars)
  BY <1>6, <1>b DEF Dial, tunnel
<1>7. ASSUME NEW c \in Conns, Open(c)
      PROVE  [EndToEnd!Next]_(EndToEnd!svars)
  <2>1. CASE UNCHANGED got
    BY <1>b, <1>7, <2>1 DEF Open
  <2>2. CASE buffered[c] # 0 /\ got' = [got EXCEPT ![c]["out"] = got[c]["out"] + buffered[c]]
    <3> DEFINE n == got[c]["out"] + buffered[c]
    <3>1. PerStream(got') = Put(got, c, "out", n)
      <4>1. \A e \in Conns, b \in Dirs : got'[e][b] = IF e = c /\ b = "out" THEN n ELSE got[e][b]
        BY <1>0, <2>2 DEF PerDir
      <4> HIDE DEF n
      <4> QED BY <1>0, <4>1, StreamOne
    <3>2. n \in (got[c]["out"] + 1)..sent[c]["out"] /\ ~shut[c]["out"]
      BY <1>0, <1>7, <1>a, <2>2, SMTT(30) DEF Open, Behind, FlowOf
    <3>3. UNCHANGED <<sent, eof, shut>>
      BY <1>7 DEF Open
    <3> HIDE DEF n
    <3>4. EndToEnd!Take(<<c, "out">>)
      BY <1>0, <3>1, <3>2, <3>3, StreamValue DEF EndToEnd!Take, PerStream, Put
    <3> QED BY <1>0, <3>4, StreamValue DEF EndToEnd!Next
  <2>3. CASE buffered[c] = 0 /\ got' = [got EXCEPT ![c]["out"] = got[c]["out"] + buffered[c]]
    <3>1. \A e \in Conns, b \in Dirs : got'[e][b] = got[e][b]
      BY <1>0, <1>a, <2>3 DEF PerDir
    <3>2. PerStream(got') = PerStream(got) /\ UNCHANGED <<sent, eof, shut>>
      BY <1>7, <3>1, StreamSame DEF Open
    <3> QED BY <3>2 DEF EndToEnd!svars, PerStream
  <2> QED BY <1>7, <2>1, <2>2, <2>3 DEF Open
<1>8. ASSUME NEW c \in Conns, Refuse(c)
      PROVE  [EndToEnd!Next]_(EndToEnd!svars)
  BY <1>8, <1>b DEF Refuse, tunnel
<1>9. ASSUME NEW c \in Conns, Drop(c)
      PROVE  [EndToEnd!Next]_(EndToEnd!svars)
  <2> DEFINE S == {c} \X Dirs
  <2>1. \A e \in Conns, b \in Dirs :
          /\ sent'[e][b] = IF e = c THEN 0 ELSE sent[e][b]
          /\ got'[e][b] = IF e = c THEN 0 ELSE got[e][b]
    BY <1>0, <1>9 DEF Drop, PerDir
  <2>2. \A e \in Conns, b \in Dirs :
          /\ eof'[e][b] = (e # c /\ eof[e][b])
          /\ shut'[e][b] = (e # c /\ shut[e][b])
    BY <1>0, <1>9 DEF Drop, PerDir
  <2>3. \A s \in Conns \X Dirs : s[1] \in Conns /\ s[2] \in Dirs /\ (s \in S <=> s[1] = c)
    OBVIOUS
  <2>4. /\ PerStream(sent)' = [s \in Conns \X Dirs |-> IF s \in S THEN 0 ELSE PerStream(sent)[s]]
        /\ PerStream(got)' = [s \in Conns \X Dirs |-> IF s \in S THEN 0 ELSE PerStream(got)[s]]
    BY <2>1, <2>3 DEF PerStream
  <2>5. /\ PerStream(eof)' = [s \in Conns \X Dirs |-> s \notin S /\ PerStream(eof)[s]]
        /\ PerStream(shut)' = [s \in Conns \X Dirs |-> s \notin S /\ PerStream(shut)[s]]
    BY <2>2, <2>3 DEF PerStream
  <2>6. S \in SUBSET (Conns \X Dirs)
    OBVIOUS
  <2> HIDE DEF S
  <2>7. EndToEnd!Cut(S)
    BY <2>4, <2>5 DEF EndToEnd!Cut
  <2> QED BY <2>6, <2>7 DEF EndToEnd!Next
<1>10. ASSUME NEW c \in Conns, RelayOver(c)
      PROVE  [EndToEnd!Next]_(EndToEnd!svars)
  BY <1>10, <1>b DEF RelayOver, tunnel
<1>11. ASSUME NEW c \in Conns, HeaderDeadline(c)
      PROVE  [EndToEnd!Next]_(EndToEnd!svars)
  BY <1>11, <1>b DEF HeaderDeadline, tunnel
<1>12. ASSUME NEW c \in Conns, BudgetSpent(c)
      PROVE  [EndToEnd!Next]_(EndToEnd!svars)
  BY <1>12, <1>b DEF BudgetSpent, tunnel
<1>13. ASSUME NEW c \in Conns, DialDeadline(c)
      PROVE  [EndToEnd!Next]_(EndToEnd!svars)
  BY <1>13, <1>b DEF DialDeadline, tunnel
<1>14. ASSUME NEW c \in Conns, Idle(c)
      PROVE  [EndToEnd!Next]_(EndToEnd!svars)
  BY <1>14, <1>b DEF Idle, tunnel
<1>15. ASSUME NEW c \in Conns, Connect(c)
      PROVE  [EndToEnd!Next]_(EndToEnd!svars)
  BY <1>15, <1>b DEF Connect, tunnel
<1>16. ASSUME NEW c \in Conns, SendRequest(c)
      PROVE  [EndToEnd!Next]_(EndToEnd!svars)
  BY <1>16, <1>b DEF SendRequest, tunnel
<1>17. ASSUME NEW c \in Conns, NEW d \in Dirs, ReadFrom(c, d)
      PROVE  [EndToEnd!Next]_(EndToEnd!svars)
  BY <1>17, <1>b DEF ReadFrom, tunnel
<1>18. ASSUME NEW c \in Conns, NEW d \in Dirs, WriteTo(c, d)
      PROVE  [EndToEnd!Next]_(EndToEnd!svars)
  <2>1. CASE UNCHANGED got
    BY <1>b, <1>18, <2>1 DEF WriteTo
  <2>2. ASSUME NEW k \in 1..buf[c][d], got' = [got EXCEPT ![c][d] = got[c][d] + k]
        PROVE  EndToEnd!Next
    <3> DEFINE n == got[c][d] + k
    <3>1. PerStream(got') = Put(got, c, d, n)
      <4>1. \A e \in Conns, b \in Dirs : got'[e][b] = IF e = c /\ b = d THEN n ELSE got[e][b]
        BY <1>0, <2>2 DEF PerDir
      <4> HIDE DEF n
      <4> QED BY <4>1, StreamOne
    <3>2. n \in (got[c][d] + 1)..sent[c][d] /\ ~shut[c][d]
      BY <1>18, <1>a, <2>2 DEF WriteTo, WantsWrite, FlowOf
    <3>3. UNCHANGED <<sent, eof, shut>>
      BY <1>18 DEF WriteTo
    <3> HIDE DEF n
    <3>4. EndToEnd!Take(<<c, d>>)
      BY <3>1, <3>2, <3>3, StreamValue DEF EndToEnd!Take, PerStream, Put
    <3> QED BY <3>4, StreamValue DEF EndToEnd!Next
  <2> QED BY <1>18, <2>1, <2>2 DEF WriteTo
<1>19. ASSUME NEW c \in Conns, NEW d \in Dirs, CloseSink(c, d)
      PROVE  [EndToEnd!Next]_(EndToEnd!svars)
  <2>1. eof[c][d] /\ got[c][d] = sent[c][d] /\ ~shut[c][d]
    <3>1. ~shut[c][d] /\ eof[c][d] /\ src[c][d] = 0 /\ buf[c][d] = 0 /\ Held(c, d) = sent[c][d]
      BY <1>19, <1>a DEF CloseSink, FlowOf
    <3>2. Behind(c, d) = 0
      BY <1>0, <1>19 DEF CloseSink, InRelay, Flow, Empty, Behind
    <3> QED BY <1>a, <3>1, <3>2 DEF Held
  <2>2. PerStream(shut') = Put(shut, c, d, TRUE)
    <3> DEFINE yes == TRUE
    <3>1. \A e \in Conns, b \in Dirs : shut'[e][b] = IF e = c /\ b = d THEN yes ELSE shut[e][b]
      BY <1>0, <1>19 DEF CloseSink, PerDir
    <3>2. PerStream(shut') = Put(shut, c, d, yes)
      <4> HIDE DEF yes
      <4> QED BY <3>1, StreamOne
    <3> QED BY <3>2
  <2>3. EndToEnd!Close(<<c, d>>)
    BY <1>19, <2>1, <2>2, StreamValue DEF CloseSink, EndToEnd!Close, PerStream, Put
  <2> QED BY <2>3, StreamValue DEF EndToEnd!Next
<1>20. ASSUME NEW c \in Conns, NEW d \in Dirs, Send(c, d)
      PROVE  [EndToEnd!Next]_(EndToEnd!svars)
  <2>1. PerStream(sent') = Put(sent, c, d, sent[c][d] + 1)
    <3>1. \A e \in Conns, b \in Dirs : sent'[e][b] = IF e = c /\ b = d THEN sent[c][d] + 1 ELSE sent[e][b]
      BY <1>0, <1>20 DEF Send, PerDir
    <3> QED BY <3>1, StreamOne
  <2>2. EndToEnd!Give(<<c, d>>)
    BY <1>20, <2>1, StreamValue DEF Send, EndToEnd!Give, PerStream, Put
  <2> QED BY <2>2, StreamValue DEF EndToEnd!Next
<1>21. ASSUME NEW c \in Conns, NEW d \in Dirs, End(c, d)
      PROVE  [EndToEnd!Next]_(EndToEnd!svars)
  <2>1. PICK n \in got[c][d]..sent[c][d] : \A e \in Conns, b \in Dirs :
          sent'[e][b] = IF e = c /\ b = d THEN n ELSE sent[e][b]
    <3>1. CASE UNCHANGED sent
      BY <1>a, <3>1
    <3>2. CASE sent' = [sent EXCEPT ![c][d] = sent[c][d] - src[c][d]]
      <4>1. sent[c][d] - src[c][d] \in got[c][d]..sent[c][d]
        BY <1>a
      <4>2. \A e \in Conns, b \in Dirs : sent'[e][b] = IF e = c /\ b = d THEN sent[c][d] - src[c][d] ELSE sent[e][b]
        BY <1>0, <3>2 DEF PerDir
      <4> QED BY <4>1, <4>2
    <3> QED BY <1>21, <3>1, <3>2 DEF End
  <2>2. PerStream(sent') = Put(sent, c, d, n)
    BY <2>1, StreamOne
  <2>3. PerStream(eof') = Put(eof, c, d, TRUE)
    <3> DEFINE yes == TRUE
    <3>1. \A e \in Conns, b \in Dirs : eof'[e][b] = IF e = c /\ b = d THEN yes ELSE eof[e][b]
      BY <1>0, <1>21 DEF End, PerDir
    <3>2. PerStream(eof') = Put(eof, c, d, yes)
      <4> HIDE DEF yes
      <4> QED BY <3>1, StreamOne
    <3> QED BY <3>2
  <2>4. UNCHANGED <<got, shut>> /\ ~eof[c][d]
    BY <1>21 DEF End
  <2>5. EndToEnd!End(<<c, d>>)
    BY <2>2, <2>3, <2>4, StreamValue DEF EndToEnd!End, PerStream, Put
  <2> QED BY <2>5, StreamValue DEF EndToEnd!Next
<1>22. CASE UNCHANGED vars
  BY <1>b, <1>22 DEF vars
<1> QED
  BY <1>1, <1>2, <1>3, <1>4, <1>5, <1>6, <1>7, <1>8, <1>9, <1>10, <1>11, <1>12, <1>13, <1>14,
     <1>15, <1>16, <1>17, <1>18, <1>19, <1>20, <1>21, <1>22 DEF Next, Serving, Deadline, Outside,
           Ended

(* Each direction of each tunnel is a stream from the application to the   *)
(* host or back, whatever relay::run() holds and however reads, writes,    *)
(* half-closes and resets interleave: the units taken are a prefix of      *)
(* those given, and an end arrives only behind the last of them.           *)
THEOREM TunnelsAreStreamsHolds == Spec => TunnelsAreStreams
<1>1. IInv /\ [Next]_vars => [EndToEnd!Next]_(EndToEnd!svars)
  BY StreamStep
<1> QED BY <1>1, StreamInit, Invariant, PTL DEF Spec, TunnelsAreStreams, EndToEnd!Spec
=============================================================================
