------------------------------- MODULE WlProofs -------------------------------
(***************************************************************************)
(* Theorems about bubbler-wl-proxy.  First its judging half, WlPolicy, for *)
(* any globals, tables and ids, any number of messages on their way, and a *)
(* client that keeps the protocol or does not; then its carrying half,     *)
(* WlRelay, for any number of connections and any limits.                  *)
(***************************************************************************)
EXTENDS WlRelay, FiniteSetTheorems, SequenceTheorems, TLAPS

\* What the messages in the sockets may say.
RequestOps == {"bind", "sync", "receive", "destroy"}
EventOps == {"global", "global_remove", "data_offer", "input", "event", "delete_id"}

Ifaces == {Globals[n].iface : n \in Names} \cup {"none"}
Messages == [op : RequestOps \cup EventOps, obj : Ids \cup {"core"}, new : Ids \cup {"none"},
             name : Names \cup Ids \cup {"none"}, iface : Ifaces, version : Nat, since : Nat]

IsRequest(m) ==
  /\ m \in Messages /\ m.op \in RequestOps /\ m.since = 1
  /\ m.op \in {"bind", "sync"} => m.obj = "core" /\ m.new \in Ids
  /\ m.op \in {"receive", "destroy"} => m.obj \in Ids /\ m.new = "none"
  /\ m.op = "bind" => m.name \in Names
  /\ m.op = "sync" => m.version = 1

IsEvent(m) ==
  /\ m \in Messages /\ m.op \in EventOps
  /\ m.op \in {"global", "global_remove"} => m.name \in Names
  /\ m.op = "delete_id" => m.name \in ClientIds
  /\ m.op \in {"data_offer", "input", "event"} => m.obj \in Ids
  /\ m.op = "data_offer" => m.new \in ServerIds

\* The interface of what a request makes.
Faces == DOMAIN Table \cup Ifaces
Makes(m) == IF m.op = "bind" THEN m.iface ELSE "callback"

\* A request the proxy let through.
Judged(m) ==
  m.op \in {"bind", "sync"} =>
    m.new \in ClientIds /\ Makes(m) \in DOMAIN Table /\ m.version <= Table[Makes(m)]

Shapes ==
  /\ c2p \in Seq(Messages) /\ \A k \in 1 .. Len(c2p) : IsRequest(c2p[k])
  /\ p2s \in Seq(Messages) /\ \A k \in 1 .. Len(p2s) : IsRequest(p2s[k]) /\ Judged(p2s[k])
  /\ s2p \in Seq(Messages) /\ \A k \in 1 .. Len(s2p) : IsEvent(s2p[k])
  /\ p2c \in Seq(Messages) /\ \A k \in 1 .. Len(p2c) : IsEvent(p2c[k])

\* The two ends.
ClientOK ==
  /\ client = [honest |-> client.honest, objs |-> client.objs, free |-> client.free,
               seen |-> client.seen]
  /\ client.honest \in BOOLEAN /\ client.free \subseteq ClientIds
  /\ DOMAIN client.seen \subseteq Names /\ DOMAIN client.objs \subseteq Ids
ServerOK ==
  /\ server = [objs |-> server.objs, offered |-> server.offered, removed |-> server.removed,
               bound |-> server.bound]
  /\ DOMAIN server.objs \subseteq Ids /\ server.offered \subseteq Names
  /\ \A i \in DOMAIN server.objs :
       /\ server.objs[i].version \in Nat
       /\ server.objs[i].iface \in DOMAIN Table
       /\ server.objs[i].version <= Table[server.objs[i].iface]
       /\ i \in ServerIds => server.objs[i].iface = "offer"

\* Objects.map: server ids are offers; the cap and the count hold.
Entries == [iface : DOMAIN Table, zombie : BOOLEAN]
MapOK == /\ DOMAIN objects \subseteq Ids /\ objects \in [DOMAIN objects -> Entries]
         /\ \A i \in DOMAIN objects : i \in ServerIds => objects[i].iface = "offer"
         /\ IsFiniteSet(DOMAIN objects) /\ ZombiesCounted /\ MapBounded

\* Only what the compositor offered and the tables describe is offered on,
\* asked for, or bound.
Shown ==
  /\ \A n \in DOMAIN globals : n \in server.offered /\ Described(n) /\ globals[n] = Offer(n)
  /\ \A n \in hidden : ~Described(n)
  /\ \A k \in 1 .. Len(s2p) : s2p[k].op = "global" => s2p[k].name \in server.offered
  /\ \A k \in 1 .. Len(p2s) :
       p2s[k].op = "bind" => p2s[k].name \in server.offered /\ Described(p2s[k].name)
  /\ BoundWasShown

\* What the client was told of can be bound at the version it was told, until
\* the compositor withdraws it.
Bindable(g, r, n) == Described(n) /\ (n \in DOMAIN g \/ n \in r)
Lasts ==
  /\ \A n \in DOMAIN client.seen : Bindable(globals, server.removed, n) /\ client.seen[n] = Offer(n)
  /\ \A k \in 1 .. Len(s2p) : s2p[k].op = "global_remove" => s2p[k].name \in server.removed
  /\ \A k \in 1 .. Len(p2c) :
       p2c[k].op = "global" => /\ Bindable(globals, server.removed, p2c[k].name)
                               /\ p2c[k].version = Offer(p2c[k].name)
  /\ client.honest =>
       \A k \in 1 .. Len(c2p) : c2p[k].op = "bind" =>
         /\ Bindable(globals, server.removed, c2p[k].name)
         /\ c2p[k].iface = Globals[c2p[k].name].iface
         /\ c2p[k].version \in 1 .. Offer(c2p[k].name)

----------------------------------------------------------------------------
(* Where an id of a client that keeps the protocol is.                      *)

Creates(m, i) == m.op \in {"bind", "sync"} /\ m.new = i
Concerns(m, i) == m.op \in {"receive", "destroy"} /\ m.obj = i
Deletes(m, i) == m.op = "delete_id" /\ m.name = i
About(m, i) == m.op \in {"data_offer", "input", "event"} /\ m.obj = i
Offers(m, i) == m.op = "data_offer" /\ m.new = i

\* Some message of the queue q, or of those before its k-th.
Creating(q, i) == \E k \in 1 .. Len(q) : Creates(q[k], i)
Concerning(q, i) == \E k \in 1 .. Len(q) : Concerns(q[k], i)
Ending(q, i) == \E k \in 1 .. Len(q) : Concerns(q[k], i) /\ q[k].op = "destroy"
Deleting(q, i) == \E k \in 1 .. Len(q) : Deletes(q[k], i)
Offering(q, i) == \E k \in 1 .. Len(q) : Offers(q[k], i)
CreatingAs(q, i, f) == \E k \in 1 .. Len(q) : Creates(q[k], i) /\ Makes(q[k]) = f
CreatedAs(q, k, i, f) == \E j \in 1 .. k - 1 : Creates(q[j], i) /\ Makes(q[j]) = f
Offered(q, k, i) == \E j \in 1 .. k - 1 : Offers(q[j], i)
Deleted(q, k, i) == \E j \in 1 .. k - 1 : Deletes(q[j], i)

\* At most one of them, and nothing about i after its destructor.
CreatesOnce(q, i) ==
  \A j, k \in 1 .. Len(q) : Creates(q[j], i) /\ Creates(q[k], i) => j = k
DeletesOnce(q, i) ==
  \A j, k \in 1 .. Len(q) : Deletes(q[j], i) /\ Deletes(q[k], i) => j = k
EndsLast(q, i) ==
  \A j, k \in 1 .. Len(q) :
    Concerns(q[j], i) /\ q[j].op = "destroy" /\ Concerns(q[k], i) => k <= j

Asked(i) == Creating(c2p, i)
Passed(i) == Creating(p2s, i)
Given(i) == Deleting(s2p, i)
Freed(i) == Deleting(p2c, i)

\* An id is free, asked for, mapped, or on its way back, and only one of them;
\* a mapped one is on its way to the compositor, there, or on its way back.
OnePlace ==
  \A i \in ClientIds :
    /\ i \in client.free => ~Asked(i) /\ ~Freed(i) /\ i \notin DOMAIN objects
    /\ Asked(i) => ~Freed(i) /\ i \notin DOMAIN objects
    /\ Freed(i) => i \notin DOMAIN objects
    /\ Passed(i) => i \in DOMAIN objects /\ i \notin DOMAIN server.objs /\ ~Given(i)
    /\ i \in DOMAIN server.objs => i \in DOMAIN objects /\ ~Given(i)
    /\ Given(i) => i \in DOMAIN objects
Once ==
  \A i \in ClientIds : /\ CreatesOnce(c2p, i) /\ CreatesOnce(p2s, i)
                       /\ DeletesOnce(s2p, i) /\ DeletesOnce(p2c, i)

Mapped(i, f) == i \in DOMAIN objects /\ objects[i].iface = f

Answers(m, f) == (m.op = "receive" => f = "offer") /\ f # "callback"

\* A request concerns an object the proxy knows by the time it judges it, and
\* what the client has is known by the time it judges all that was sent.
Awaited ==
  \A k \in 1 .. Len(c2p), i \in Ids : Concerns(c2p[k], i) =>
    \E f \in Faces : Answers(c2p[k], f) /\ (Mapped(i, f) \/ CreatedAs(c2p, k, i, f))
Arrived == \A i \in Ids : Concerning(p2s, i) => i \in DOMAIN objects /\ ~Mapped(i, "callback")
Held ==
  \A i \in DOMAIN client.objs : client.objs[i] # "callback" =>
    Mapped(i, client.objs[i]) \/ CreatingAs(c2p, i, client.objs[i])
OwnRange == \A i \in Ids : Asked(i) => i \in ClientIds
Decodable == Awaited /\ Arrived /\ Held /\ OwnRange

\* After its destructor nothing concerns an id any more.
Quiet(i) == /\ i \in DOMAIN client.objs => client.objs[i] = "callback"
            /\ ~Concerning(c2p, i)
LastWords ==
  \A i \in ClientIds :
    /\ EndsLast(c2p, i) /\ (Ending(c2p, i) => i \notin DOMAIN client.objs)
    /\ EndsLast(p2s, i) /\ (Ending(p2s, i) => Quiet(i))
    /\ Given(i) => Quiet(i) /\ ~Concerning(p2s, i)

\* An event concerns an object the proxy knows by the time it judges it.
Known(i, v) == i \in DOMAIN objects /\ v <= Table[objects[i].iface]
Foretold ==
  \A k \in 1 .. Len(s2p), i \in Ids : About(s2p[k], i) =>
    /\ Known(i, s2p[k].since) \/ (s2p[k].since <= Table["offer"] /\ Offered(s2p, k, i))
    /\ ~Deleted(s2p, k, i)
\* Both sides agree on the interface of an id.
Agreed ==
  /\ \A i \in ClientIds : i \in DOMAIN server.objs => Mapped(i, server.objs[i].iface)
  /\ \A i \in ServerIds : i \in DOMAIN server.objs => Mapped(i, "offer") \/ Offering(s2p, i)
Promised ==
  /\ \A i \in ServerIds : Offering(p2c, i) => Mapped(i, "offer")
  /\ \A i \in ClientIds, f \in Faces : CreatingAs(p2s, i, f) => Mapped(i, f)
Announced == Foretold /\ Agreed /\ Promised

InProtocol == OnePlace /\ Once /\ Decodable /\ LastWords /\ Announced

PolicyInv ==
  /\ Shapes /\ ClientOK /\ ServerOK /\ MapOK /\ Shown /\ Lasts /\ HonestServed /\ quiet = age
  /\ client.honest /\ closed = "no" => InProtocol
----------------------------------------------------------------------------
(* The queues.                                                              *)

\* r is q without its head, or q with m behind it.
Pops(q, r) == /\ Len(q) \in Nat /\ Len(r) \in Nat /\ Len(q) = Len(r) + 1
              /\ \A k \in 1 .. Len(r) : r[k] = q[k + 1]
              /\ \A k \in 2 .. Len(q) : q[k] = r[k - 1]
Puts(q, r, m) == /\ Len(q) \in Nat /\ Len(r) \in Nat /\ Len(r) = Len(q) + 1
                 /\ r[Len(q) + 1] = m /\ \A k \in 1 .. Len(q) : r[k] = q[k]

(* Taking the head off a socket moves every message one place forward.     *)
LEMMA TailPops ==
  ASSUME NEW q \in Seq(Messages), q # <<>>
  PROVE  /\ Head(q) = q[1] /\ Head(q) \in Messages /\ Tail(q) \in Seq(Messages)
         /\ Pops(q, Tail(q))
BY DEF Pops

(* A message sent comes last.                                              *)
LEMMA AppendPuts ==
  ASSUME NEW q \in Seq(Messages), NEW m \in Messages
  PROVE  Append(q, m) \in Seq(Messages) /\ Puts(q, Append(q, m), m)
BY DEF Puts

(* Two of them.                                                            *)
LEMMA TwoPuts ==
  ASSUME NEW q \in Seq(Messages), NEW m \in Messages, NEW n \in Messages
  PROVE  q \o <<m, n>> = Append(Append(q, m), n)
BY DEF Messages

(* What holds of every message of a socket goes on to hold of the rest of   *)
(* it, and of it with one more of the kind.                                 *)
LEMMA PopsKeep ==
  ASSUME NEW q, NEW r, Pops(q, r)
  PROVE  \A k \in 1 .. Len(r) : \E l \in 1 .. Len(q) : r[k] = q[l]
BY DEF Pops

(* And with one message more.                                             *)
LEMMA PutsKeep ==
  ASSUME NEW q, NEW r, NEW m, Puts(q, r, m)
  PROVE  \A k \in 1 .. Len(r) : r[k] = m \/ \E l \in 1 .. Len(q) : r[k] = q[l]
BY DEF Puts

(* The first state.                                                        *)
LEMMA InitPolicyInv == PolicyInit => PolicyInv
<1> SUFFICES ASSUME PolicyInit PROVE PolicyInv
    OBVIOUS
<1>0. /\ Len(<<>>) = 0 /\ <<>> \in Seq(Messages)
      /\ DOMAIN <<>> = {}
  OBVIOUS
<1>1. Shapes
  BY <1>0 DEF PolicyInit, Shapes
<1>2. ClientOK /\ ServerOK /\ (DOMAIN objects = {} => objects \in [DOMAIN objects -> Entries])
  <2>1. objects \in [DOMAIN objects -> Entries] /\ DOMAIN objects = {}
    BY DEF PolicyInit
  <2>2. DOMAIN client.objs = {} /\ client.free = ClientIds /\ DOMAIN client.seen = {}
        /\ client.honest \in BOOLEAN
        /\ client = [honest |-> client.honest, objs |-> client.objs, free |-> client.free,
                     seen |-> client.seen]
    BY <1>0 DEF PolicyInit
  <2>3. DOMAIN server.objs = {} /\ server.offered = {} /\ server.bound = {}
        /\ server = [objs |-> server.objs, offered |-> server.offered,
                     removed |-> server.removed, bound |-> server.bound]
    BY <1>0 DEF PolicyInit
  <2> QED BY <2>1, <2>2, <2>3 DEF ClientOK, ServerOK
<1>3. Shown
  BY <1>0 DEF PolicyInit, Shown, BoundWasShown
<1>7. Lasts /\ quiet = age
  BY <1>0 DEF PolicyInit, Lasts
<1>4. MapOK
  <2>1. DOMAIN objects = {} /\ zombies = 0
    BY <1>0 DEF PolicyInit
  <2>2. {i \in DOMAIN objects \cap ServerIds : objects[i].zombie} = {}
    BY <2>1
  <2>3. IsFiniteSet({}) /\ Cardinality({}) = 0
    BY FS_EmptySet
  <2>4. Cardinality(DOMAIN objects) <= 2 * MaxObjects
    BY <2>1, <2>3, IdsAssumption
  <2> QED BY <1>2, <2>1, <2>2, <2>3, <2>4 DEF MapOK, ZombiesCounted, MapBounded
<1>5. HonestServed
  BY DEF PolicyInit, HonestServed
<1>6. InProtocol
  <2>1. Len(c2p) = 0 /\ Len(p2s) = 0 /\ Len(s2p) = 0 /\ Len(p2c) = 0
        /\ DOMAIN objects = {} /\ DOMAIN client.objs = {} /\ DOMAIN server.objs = {}
    BY <1>0 DEF PolicyInit
  <2> QED BY <2>1 DEF InProtocol, OnePlace, Once, Decodable, Awaited, Arrived, Held, OwnRange,
                      LastWords, Announced, Foretold, Agreed, Promised, Asked, Passed,
                      Given, Freed, Creating, CreatingAs, Concerning, Ending, Deleting, Offering,
                      CreatesOnce, DeletesOnce, EndsLast
<1> QED BY <1>1, <1>2, <1>3, <1>4, <1>5, <1>6, <1>7 DEF PolicyInv

----------------------------------------------------------------------------
(* The object map.                                                          *)

\* The interface of every id but i is what it was, and i has f, or is gone.
SameMap == /\ DOMAIN objects' = DOMAIN objects
           /\ \A x \in DOMAIN objects : objects'[x].iface = objects[x].iface
Gains(i, f) == /\ DOMAIN objects' = DOMAIN objects \cup {i} /\ objects'[i].iface = f
               /\ \A x \in DOMAIN objects \ {i} : objects'[x].iface = objects[x].iface
Loses(i) == /\ DOMAIN objects' = DOMAIN objects \ {i}
            /\ \A x \in DOMAIN objects' : objects'[x].iface = objects[x].iface

Dead == {i \in DOMAIN objects \cap ServerIds : objects[i].zombie}

(* The dead server ids are finitely many, and as many as are counted.      *)
LEMMA DeadCounted ==
  ASSUME MapOK
  PROVE  /\ IsFiniteSet(Dead) /\ zombies = Cardinality(Dead) /\ zombies \in Nat
         /\ Cardinality(DOMAIN objects) \in Nat
<1>1. IsFiniteSet(Dead)
  BY FS_Subset DEF MapOK, Dead
<1> QED BY <1>1, FS_CardinalityType DEF MapOK, ZombiesCounted, MapBounded, Dead

(* Objects::record where it does not refuse: the map has the id, alive.    *)
LEMMA RecordMaps ==
  ASSUME MapOK, NEW c \in BOOLEAN, NEW id, NEW f \in DOMAIN Table,
         RecordError(c, id) = "no", Record(id, f), ~c => f = "offer"
  PROVE  MapOK' /\ Gains(id, f) /\ (c => id \in ClientIds \ DOMAIN objects)
                /\ (~c => id \in ServerIds)
<1>1. (c => id \in ClientIds /\ id \notin DOMAIN objects) /\ (~c => id \in ServerIds)
  BY DEF RecordError
<1>2. objects' = [y \in DOMAIN objects \cup {id} |->
                    IF y = id THEN [iface |-> f, zombie |-> FALSE] ELSE objects[y]]
  BY DEF Record, With
<1>3. /\ DOMAIN objects' = DOMAIN objects \cup {id}
      /\ objects'[id] = [iface |-> f, zombie |-> FALSE]
      /\ \A x \in DOMAIN objects \ {id} : objects'[x] = objects[x]
  BY <1>2
<1>4. [iface |-> f, zombie |-> FALSE] \in Entries
  BY DEF Entries
<1>5. DOMAIN objects' \subseteq Ids /\ objects' \in [DOMAIN objects' -> Entries]
  BY <1>1, <1>2, <1>3, <1>4 DEF MapOK, Ids
<1>6. \A i \in DOMAIN objects' : i \in ServerIds => objects'[i].iface = "offer"
  BY <1>1, <1>3, IdsAssumption DEF MapOK
<1>7. IsFiniteSet(DOMAIN objects')
  BY <1>3, FS_AddElement DEF MapOK
<1>8. Dead' = Dead \ {id}
  BY <1>3 DEF Dead
<1>9. zombies' = Cardinality(Dead')
  <2>1. CASE id \in DOMAIN objects /\ objects[id].zombie
    BY <1>1, <1>8, <2>1, DeadCounted, FS_RemoveElement DEF Record, Dead
  <2>2. CASE ~(id \in DOMAIN objects /\ objects[id].zombie)
    BY <1>8, <2>2, DeadCounted DEF Record, Dead
  <2> QED BY <2>1, <2>2
<1>10. Cardinality(DOMAIN objects') <= 2 * MaxObjects
  <2>1. CASE id \in DOMAIN objects
    <3>1. DOMAIN objects' = DOMAIN objects
      BY <1>3, <2>1
    <3> QED BY <3>1 DEF MapOK, ZombiesCounted, MapBounded
  <2>2. CASE id \notin DOMAIN objects
    <3>1. Cardinality(DOMAIN objects) - zombies < MaxObjects /\ zombies < MaxObjects
      BY <1>1, <2>2, DeadCounted, IdsAssumption DEF RecordError, Live
    <3>2. Cardinality(DOMAIN objects') = Cardinality(DOMAIN objects) + 1
      BY <1>3, <2>2, FS_AddElement DEF MapOK
    <3> QED BY <3>1, <3>2, DeadCounted, IdsAssumption
  <2> QED BY <2>1, <2>2
<1>11. MapOK'
  BY <1>5, <1>6, <1>7, <1>9, <1>10 DEF MapOK, ZombiesCounted, MapBounded, Dead
<1>12. Gains(id, f)
  BY <1>3 DEF Gains
<1> QED BY <1>1, <1>11, <1>12

(* Objects::destroy keeps the id mapped.                                   *)
LEMMA DestroyMaps ==
  ASSUME MapOK, NEW id \in DOMAIN objects, Destroy(id)
  PROVE  MapOK' /\ SameMap
<1>1. /\ DOMAIN objects' = DOMAIN objects
      /\ objects'[id] = [objects[id] EXCEPT !.zombie = TRUE]
      /\ \A x \in DOMAIN objects \ {id} : objects'[x] = objects[x]
  BY DEF Destroy
<1>2. objects[id] \in Entries
  BY DEF MapOK
<1>3. objects'[id] \in Entries /\ objects'[id].iface = objects[id].iface /\ objects'[id].zombie
  BY <1>1, <1>2 DEF Entries
<1>4. SameMap
  BY <1>1, <1>3 DEF SameMap
<1>5. DOMAIN objects' \subseteq Ids /\ objects' \in [DOMAIN objects' -> Entries]
  <2>1. objects' = [x \in DOMAIN objects |-> objects'[x]]
    BY DEF Destroy, MapOK
  <2> QED BY <1>1, <1>3, <2>1 DEF MapOK
<1>6. \A i \in DOMAIN objects' : i \in ServerIds => objects'[i].iface = "offer"
  BY <1>4 DEF MapOK, SameMap
<1>7. Dead' = IF id \in ServerIds THEN Dead \cup {id} ELSE Dead
  BY <1>1, <1>3 DEF Dead
<1>8. zombies' = Cardinality(Dead')
  <2>1. CASE id \in ServerIds /\ ~objects[id].zombie
    <3>1. id \notin Dead
      BY <2>1 DEF Dead
    <3> QED BY <1>7, <2>1, <3>1, DeadCounted, FS_AddElement DEF Destroy
  <2>2. CASE ~(id \in ServerIds /\ ~objects[id].zombie)
    <3>1. Dead' = Dead
      BY <1>7, <2>2 DEF Dead
    <3> QED BY <2>2, <3>1, DeadCounted DEF Destroy
  <2> QED BY <2>1, <2>2
<1>9. MapOK'
  BY <1>1, <1>5, <1>6, <1>8 DEF MapOK, ZombiesCounted, MapBounded, Dead
<1> QED BY <1>4, <1>9

(* Objects::delete_id forgets it.                                          *)
LEMMA DeleteMaps ==
  ASSUME MapOK, NEW id, DeleteId(id)
  PROVE  MapOK' /\ Loses(id)
<1>1. objects' = [x \in DOMAIN objects \ {id} |-> objects[x]]
  BY DEF DeleteId, Without, Restrict
<1>2. DOMAIN objects' = DOMAIN objects \ {id} /\ \A x \in DOMAIN objects' : objects'[x] = objects[x]
  BY <1>1
<1>3. Loses(id)
  BY <1>2 DEF Loses
<1>4. /\ DOMAIN objects' \subseteq Ids /\ objects' \in [DOMAIN objects' -> Entries]
      /\ \A i \in DOMAIN objects' : i \in ServerIds => objects'[i].iface = "offer"
  BY <1>1, <1>2 DEF MapOK
<1>5. IsFiniteSet(DOMAIN objects') /\ Cardinality(DOMAIN objects') <= Cardinality(DOMAIN objects)
  BY <1>2, FS_Subset, FS_CardinalityType DEF MapOK
<1>6. Dead' = Dead \ {id}
  BY <1>2 DEF Dead
<1>7. zombies' = Cardinality(Dead')
  <2>1. CASE id \in Dead
    <3>1. id \in DOMAIN objects /\ objects[id].zombie /\ id \in ServerIds
      BY <2>1 DEF Dead
    <3> QED BY <1>6, <2>1, <3>1, DeadCounted, FS_RemoveElement DEF DeleteId
  <2>2. CASE id \notin Dead
    <3>1. ~(id \in DOMAIN objects /\ objects[id].zombie /\ id \in ServerIds) /\ Dead' = Dead
      BY <1>6, <2>2 DEF Dead
    <3> QED BY <3>1, DeadCounted DEF DeleteId
  <2> QED BY <2>1, <2>2
<1>8. Cardinality(DOMAIN objects') <= 2 * MaxObjects
  BY <1>5, FS_CardinalityType, IdsAssumption DEF MapOK, ZombiesCounted, MapBounded
<1>9. MapOK'
  BY <1>4, <1>5, <1>7, <1>8 DEF MapOK, ZombiesCounted, MapBounded, Dead
<1> QED BY <1>3, <1>9

----------------------------------------------------------------------------
(* The proxy's steps, as what they do to the queues and the map.            *)

Stays == UNCHANGED <<client, server, closed>>

\* The head of c2p makes an object, goes through, or is dropped.
LetsCreate ==
  /\ c2p[1].op \in {"bind", "sync"} /\ c2p[1].new \in ClientIds \ DOMAIN objects
  /\ Pops(c2p, c2p') /\ Puts(p2s, p2s', c2p[1]) /\ Gains(c2p[1].new, Makes(c2p[1]))
  /\ UNCHANGED <<s2p, p2c>> /\ Stays
LetsPass ==
  /\ c2p[1].op \in {"receive", "destroy"}
  /\ Pops(c2p, c2p') /\ Puts(p2s, p2s', c2p[1]) /\ SameMap
  /\ c2p[1].obj \in DOMAIN objects /\ objects[c2p[1].obj].iface # "callback"
  /\ UNCHANGED <<s2p, p2c>> /\ Stays
LetsDrop ==
  /\ c2p[1].op = "receive" /\ Pops(c2p, c2p') /\ SameMap /\ UNCHANGED <<p2s, s2p, p2c>> /\ Stays

\* What the policy remembers besides is as it was.
Remembers == UNCHANGED <<hidden, globals>>

\* What such a client may lose its connection to.
Losses == {"too many"} \cup server.removed

(* The relay closes a connection of a client that keeps the protocol only   *)
(* for a bind of what has gone or for the cap.                              *)
LEMMA RequestCloses ==
  ASSUME PolicyInv, closed = "no", c2p # <<>>, client.honest, NEW why,
         LET m == Head(c2p) IN
           \/ /\ m.op = "bind" /\ ~BindAllowed(m) /\ why = m.name
           \/ /\ m.op = "bind" /\ BindAllowed(m) /\ m.name \in hidden /\ why = "hidden"
           \/ /\ m.op \in {"bind", "sync"} /\ RecordError(TRUE, m.new) # "no"
              /\ why = RecordError(TRUE, m.new)
           \/ /\ m.op # "bind" /\ ~Decodes(m) /\ why = "undecodable"
  PROVE  why \in Losses
<1> DEFINE m == Head(c2p)
<1>1. m = c2p[1] /\ 1 \in 1 .. Len(c2p) /\ IsRequest(m)
  BY TailPops DEF PolicyInv, Shapes, Pops
<1>2. OnePlace /\ Decodable
  BY DEF PolicyInv, InProtocol
<1>6. ASSUME m.op = "bind", ~BindAllowed(m) PROVE m.name \in server.removed
  <2>1. /\ Bindable(globals, server.removed, m.name) /\ m.iface = Globals[m.name].iface
        /\ m.version \in 1 .. Offer(m.name)
    BY <1>1, <1>6 DEF PolicyInv, Lasts
  <2>2. m.name \in DOMAIN globals => globals[m.name] = Offer(m.name)
    BY DEF PolicyInv, Shown
  <2> QED BY <1>6, <2>1, <2>2 DEF BindAllowed, Bindable
<1>3. ASSUME m.op = "bind", BindAllowed(m), m.name \in hidden PROVE FALSE
  BY <1>3 DEF BindAllowed, PolicyInv, Shown
<1>4. ASSUME m.op \in {"bind", "sync"} PROVE RecordError(TRUE, m.new) \in {"no", "too many"}
  <2>1. Creates(m, m.new)
    BY <1>4 DEF Creates
  <2>2. m.new \in ClientIds
    <3>1. m.new \in Ids /\ Asked(m.new)
      BY <1>1, <1>4, <2>1 DEF Asked, Creating, IsRequest
    <3> QED BY <1>2, <3>1 DEF Decodable, OwnRange
  <2>3. m.new \notin DOMAIN objects
    BY <1>1, <1>2, <2>1, <2>2 DEF OnePlace, Asked, Creating
  <2> QED BY <2>2, <2>3 DEF RecordError
<1>5. ASSUME m.op # "bind" PROVE Decodes(m)
  <2>1. CASE m.op = "sync"
    BY <1>1, <2>1 DEF IsRequest, Decodes
  <2>2. CASE m.op \in {"receive", "destroy"}
    <3>1. Concerns(m, m.obj) /\ m.obj \in Ids
      BY <1>1, <2>2 DEF Concerns, IsRequest
    <3>2. PICK f \in Faces : Answers(m, f) /\ (Mapped(m.obj, f) \/ CreatedAs(c2p, 1, m.obj, f))
      BY <1>1, <1>2, <3>1 DEF Decodable, Awaited
    <3>3. m.obj \in DOMAIN objects /\ objects[m.obj].iface = f
      BY <3>2 DEF CreatedAs, Mapped
    <3>4. m.since <= Table[f]
      BY <1>1, <3>3, TableAssumption DEF IsRequest, PolicyInv, MapOK, Entries
    <3> QED BY <2>2, <3>2, <3>3, <3>4 DEF Decodes, HasMessage, Answers
  <2> QED BY <1>1, <1>5, <2>1, <2>2 DEF IsRequest, RequestOps
<1> HIDE DEF m
<1> QED BY <1>3, <1>4, <1>5, <1>6 DEF m, Losses

(* Policy::bind lets through what was offered, at a version the tables know. *)
LEMMA BindJudged ==
  ASSUME PolicyInv, NEW m, IsRequest(m), m.op = "bind", BindAllowed(m)
  PROVE  /\ m.name \in server.offered /\ Described(m.name)
         /\ Makes(m) \in DOMAIN Table /\ m.version <= Table[Makes(m)]
<1>1. m.name \in server.offered /\ Described(m.name) /\ globals[m.name] = Offer(m.name)
  BY DEF PolicyInv, Shown, BindAllowed
<1>2. m.iface = Globals[m.name].iface /\ m.version \in 1 .. Offer(m.name)
  BY <1>1 DEF BindAllowed
<1>3. Globals[m.name].version \in Nat /\ Globals[m.name].iface \in DOMAIN Table
      /\ Table[Globals[m.name].iface] \in Nat
  BY <1>1, TableAssumption DEF IsRequest, Described
<1>4. Offer(m.name) \in Nat /\ Offer(m.name) <= Table[Globals[m.name].iface]
  BY <1>3 DEF Offer
<1>5. m.version <= Table[m.iface]
  BY <1>2, <1>3, <1>4
<1> QED BY <1>1, <1>2, <1>3, <1>5 DEF Makes

(* A request is judged: the map, and one of the four outcomes.             *)
LEMMA JudgesRequest ==
  ASSUME PolicyInv, JudgeRequest
  PROVE  /\ MapOK' /\ Remembers
         /\ c2p' = Tail(c2p) /\ Pops(c2p, c2p') /\ (p2s' = p2s \/ p2s' = Append(p2s, Head(c2p)))
         /\ p2s' # p2s => /\ Judged(Head(c2p))
                          /\ Head(c2p).op = "bind" => /\ Head(c2p).name \in server.offered
                                                      /\ Described(Head(c2p).name)
         /\ \/ LetsCreate \/ LetsPass \/ LetsDrop
            \/ closed' # "no" /\ (client.honest => closed' \in Losses)
<1> DEFINE m == Head(c2p)
<1>0. c2p # <<>> /\ closed = "no" /\ UNCHANGED <<s2p, p2c, client, server>>
  BY DEF JudgeRequest
<1>1. m = c2p[1] /\ 1 \in 1 .. Len(c2p) /\ IsRequest(m) /\ Pops(c2p, Tail(c2p))
  BY <1>0, TailPops DEF PolicyInv, Shapes, Pops
<1>2. Puts(p2s, Append(p2s, m), m)
  BY <1>1, AppendPuts DEF PolicyInv, Shapes, IsRequest
<1>3. MapOK
  BY DEF PolicyInv
<1>4. ASSUME NEW why, Close(why, c2p, p2s), why # "no",
             client.honest => why \in Losses
      PROVE  /\ MapOK' /\ Remembers /\ c2p' = Tail(c2p) /\ p2s' = p2s
             /\ closed' # "no" /\ (client.honest => closed' \in Losses)
  BY <1>3, <1>4 DEF Close, MapOK, ZombiesCounted, MapBounded, Remembers
<1>5. CASE Bind(m)
  <2>1. CASE ~BindAllowed(m)
    <3>1. client.honest => m.name \in Losses
      BY <1>0, <1>5, <2>1, RequestCloses DEF Bind
    <3>2. m.name # "no"
      BY <1>1, <1>5, NamesAssumption DEF Bind, IsRequest
    <3> QED BY <1>0, <1>1, <1>4, <1>5, <2>1, <3>1, <3>2 DEF Bind
  <2>2. CASE BindAllowed(m) /\ m.name \in hidden
    <3>1. ASSUME client.honest PROVE "hidden" \in Losses
      BY <1>0, <1>5, <2>2, <3>1, RequestCloses DEF Bind
    <3> QED BY <1>0, <1>1, <1>4, <1>5, <2>2, <3>1 DEF Bind
  <2>3. CASE BindAllowed(m) /\ m.name \notin hidden /\ RecordError(TRUE, m.new) # "no"
    <3>1. ASSUME client.honest PROVE RecordError(TRUE, m.new) \in Losses
      BY <1>0, <1>5, <2>3, <3>1, RequestCloses DEF Bind
    <3> QED BY <1>0, <1>1, <1>4, <1>5, <2>3, <3>1 DEF Bind
  <2>4. CASE BindAllowed(m) /\ m.name \notin hidden /\ RecordError(TRUE, m.new) = "no"
    <3>1. /\ m.op = "bind" /\ Record(m.new, m.iface) /\ c2p' = Tail(c2p) /\ p2s' = Append(p2s, m)
          /\ UNCHANGED <<hidden, globals, closed>>
      BY <1>5, <2>4 DEF Bind, Forward
    <3>2. /\ m.name \in server.offered /\ Described(m.name) /\ Makes(m) = m.iface
          /\ Makes(m) \in DOMAIN Table /\ m.version <= Table[Makes(m)]
      BY <1>1, <2>4, <3>1, BindJudged DEF Makes
    <3>3. MapOK' /\ Gains(m.new, Makes(m)) /\ m.new \in ClientIds \ DOMAIN objects
      BY <1>3, <2>4, <3>1, <3>2, RecordMaps
    <3> QED BY <1>0, <1>1, <1>2, <3>1, <3>2, <3>3 DEF LetsCreate, Stays, Judged, Remembers
  <2> QED BY <2>1, <2>2, <2>3, <2>4
<1>6. CASE Receive(m)
  <2>1. /\ m.op = "receive" /\ m.obj \in DOMAIN objects /\ objects[m.obj].iface = "offer"
    BY <1>1, <1>6, IdsAssumption DEF Receive, Decodes, HasMessage, IsRequest
  <2>2. MapOK' /\ SameMap /\ Remembers /\ UNCHANGED closed
    BY <1>3, <1>6 DEF Receive, proxy, MapOK, ZombiesCounted, MapBounded, SameMap, Remembers
  <2> QED BY <1>0, <1>1, <1>2, <1>6, <2>1, <2>2
          DEF Receive, Forward, Drop, LetsPass, LetsDrop, Stays, Judged
<1>7. CASE NewObject(m, c2p, p2s)
  <2>0. m.op = "sync"
    BY <1>1, <1>7 DEF NewObject, IsRequest, RequestOps
  <2>1. CASE RecordError(TRUE, m.new) # "no"
    <3>1. ASSUME client.honest PROVE RecordError(TRUE, m.new) \in Losses
      BY <1>0, <2>0, <2>1, <3>1, RequestCloses
    <3> QED BY <1>0, <1>1, <1>4, <1>7, <2>0, <2>1, <3>1 DEF NewObject
  <2>2. CASE RecordError(TRUE, m.new) = "no"
    <3>1. /\ Record(m.new, "callback") /\ c2p' = Tail(c2p) /\ p2s' = Append(p2s, m)
          /\ UNCHANGED <<hidden, globals, closed>>
      BY <1>7, <2>0, <2>2 DEF NewObject, NewOf, Forward
    <3>2. Makes(m) = "callback" /\ "callback" \in DOMAIN Table /\ m.version <= Table["callback"]
      BY <1>1, <2>0, TableAssumption DEF Makes, IsRequest
    <3>3. MapOK' /\ Gains(m.new, Makes(m)) /\ m.new \in ClientIds \ DOMAIN objects
      BY <1>3, <2>2, <3>1, <3>2, RecordMaps
    <3> QED BY <1>0, <1>1, <1>2, <2>0, <3>1, <3>2, <3>3 DEF LetsCreate, Stays, Judged, Remembers
  <2> QED BY <2>1, <2>2
<1>8. CASE DestroyRequest(m)
  <2>1. m.op = "destroy" /\ m.obj \in DOMAIN objects /\ objects[m.obj].iface # "callback"
    BY <1>1, <1>8, IdsAssumption DEF DestroyRequest, Decodes, HasMessage, IsRequest
  <2>2. MapOK' /\ SameMap
    BY <1>3, <1>8, <2>1, DestroyMaps DEF DestroyRequest
  <2> QED BY <1>0, <1>1, <1>2, <1>8, <2>1, <2>2
          DEF DestroyRequest, Forward, LetsPass, Stays, Judged, Remembers
<1>9. CASE Undecodable(m, c2p, p2s)
  <2>1. ASSUME client.honest PROVE "undecodable" \in Losses
    BY <1>0, <1>9, <2>1, RequestCloses DEF Undecodable
  <2> QED BY <1>0, <1>1, <1>4, <1>9, <2>1 DEF Undecodable
<1> QED BY <1>5, <1>6, <1>7, <1>8, <1>9 DEF JudgeRequest

\* The head of s2p goes through and changes nothing here, ends an id, or
\* makes an object.
Plain == {"global", "global_remove", "input", "event"}
LetsHear ==
  /\ s2p[1].op \in Plain /\ Pops(s2p, s2p') /\ SameMap
  /\ p2c' = p2c \/ \E m \in Messages : m.op \in Plain /\ Puts(p2c, p2c', m)
  /\ UNCHANGED <<c2p, p2s>> /\ Stays
LetsDelete ==
  /\ s2p[1].op = "delete_id" /\ Pops(s2p, s2p') /\ Puts(p2c, p2c', s2p[1])
  /\ Loses(s2p[1].name) /\ UNCHANGED <<c2p, p2s>> /\ Stays
LetsOffer ==
  /\ s2p[1].op = "data_offer" /\ Pops(s2p, s2p') /\ Puts(p2c, p2c', s2p[1])
  /\ s2p[1].new \in ServerIds /\ Gains(s2p[1].new, "offer")
  /\ UNCHANGED <<c2p, p2s>> /\ Stays

\* Connection.globals and hidden_globals.
GlobalsOK ==
  /\ \A n \in DOMAIN globals : n \in server.offered /\ Described(n) /\ globals[n] = Offer(n)
  /\ \A n \in hidden : ~Described(n)

(* The relay closes no connection of a client that keeps the protocol for   *)
(* what the compositor sent, the cap apart.                                 *)
LEMMA EventDecodes ==
  ASSUME PolicyInv, closed = "no", s2p # <<>>, client.honest,
         Head(s2p).op \notin {"global", "global_remove", "delete_id"}
  PROVE  Decodes(Head(s2p))
<1> DEFINE m == Head(s2p)
<1>1. m = s2p[1] /\ 1 \in 1 .. Len(s2p) /\ IsEvent(m)
  BY TailPops DEF PolicyInv, Shapes, Pops
<1>2. About(m, m.obj) /\ m.obj \in Ids
  BY <1>1 DEF IsEvent, EventOps, About
<1>3. Known(m.obj, m.since)
  BY <1>1, <1>2 DEF PolicyInv, InProtocol, Announced, Foretold, Offered
<1>4. m.obj \in DOMAIN objects /\ m.since <= Table[objects[m.obj].iface]
  BY <1>3 DEF Known
<1> QED BY <1>1, <1>4 DEF Decodes, HasMessage, IsEvent, EventOps

(* An event is judged: the map, the globals, and one of the four outcomes. *)
LEMMA JudgesEvent ==
  ASSUME PolicyInv, JudgeEvent
  PROVE  /\ MapOK' /\ GlobalsOK' /\ s2p' = Tail(s2p) /\ Pops(s2p, s2p')
         /\ p2c' = p2c \/ \E m \in Messages : IsEvent(m) /\ p2c' = Append(p2c, m)
         /\ \/ LetsHear \/ LetsDelete \/ LetsOffer
            \/ closed' # "no" /\ (client.honest => closed' \in Losses)
<1> DEFINE m == Head(s2p)
<1>0. s2p # <<>> /\ closed = "no" /\ UNCHANGED <<c2p, p2s, client, server>>
  BY DEF JudgeEvent
<1>1. m = s2p[1] /\ 1 \in 1 .. Len(s2p) /\ IsEvent(m) /\ Pops(s2p, Tail(s2p))
  BY <1>0, TailPops DEF PolicyInv, Shapes, Pops
<1>2. m \in Messages /\ Puts(p2c, Append(p2c, m), m)
  BY <1>1, AppendPuts DEF PolicyInv, Shapes, IsEvent
<1>3. MapOK /\ GlobalsOK
  BY DEF PolicyInv, Shown, GlobalsOK
<1>4. ASSUME NEW why, Close(why, s2p, p2c), why # "no",
             client.honest => why \in Losses
      PROVE  /\ MapOK' /\ GlobalsOK' /\ s2p' = Tail(s2p) /\ p2c' = p2c
             /\ closed' # "no" /\ (client.honest => closed' \in Losses)
  BY <1>0, <1>3, <1>4 DEF Close, MapOK, ZombiesCounted, MapBounded, GlobalsOK
<1>5. ASSUME UNCHANGED <<objects, zombies>> PROVE MapOK' /\ SameMap
  BY <1>3, <1>5 DEF MapOK, ZombiesCounted, MapBounded, SameMap
<1>6. CASE Global(m)
  <2>0. m.op = "global" /\ m.name \in Names /\ m.name \in server.offered
    BY <1>1, <1>6 DEF Global, IsEvent, PolicyInv, Shown
  <2>1. MapOK' /\ SameMap /\ UNCHANGED closed
    BY <1>5, <1>6 DEF Global
  <2>2. CASE Described(m.name)
    <3> DEFINE n == [m EXCEPT !.version = Offer(m.name)]
    <3>1. Offer(m.name) \in Nat
      BY <2>0, <2>2, TableAssumption DEF Offer, Described
    <3>2. n \in Messages /\ n.op = "global" /\ n.name = m.name
      BY <1>2, <2>0, <3>1 DEF Messages
    <3>3. IsEvent(n)
      BY <2>0, <3>2 DEF IsEvent, EventOps
    <3>4. /\ globals' = With(globals, m.name, Offer(m.name)) /\ UNCHANGED hidden
          /\ s2p' = Tail(s2p) /\ p2c' = Append(p2c, n)
      BY <1>6, <2>2 DEF Global, Forward
    <3>5. GlobalsOK'
      BY <1>0, <1>3, <2>0, <2>2, <3>4 DEF GlobalsOK, With, Described, Offer
    <3>6. Puts(p2c, p2c', n)
      BY <3>2, <3>4, AppendPuts DEF PolicyInv, Shapes
    <3> HIDE DEF n
    <3> QED BY <1>0, <1>1, <2>0, <2>1, <3>2, <3>3, <3>4, <3>5, <3>6 DEF LetsHear, Plain, Stays
  <2>3. CASE ~Described(m.name)
    <3>1. UNCHANGED globals /\ hidden' = hidden \cup {m.name} /\ s2p' = Tail(s2p) /\ p2c' = p2c
      BY <1>6, <2>3 DEF Global, Drop
    <3>2. GlobalsOK'
      BY <1>0, <1>3, <2>3, <3>1 DEF GlobalsOK, Described, Offer
    <3> QED BY <1>0, <1>1, <2>0, <2>1, <3>1, <3>2 DEF LetsHear, Plain, Stays
  <2> QED BY <2>2, <2>3
<1>7. CASE GlobalRemove(m)
  <2>1. MapOK' /\ SameMap /\ UNCHANGED <<closed, hidden>> /\ m.op = "global_remove"
    BY <1>5, <1>7 DEF GlobalRemove
  <2>2. GlobalsOK'
    BY <1>0, <1>3, <1>7, <2>1 DEF GlobalRemove, Without, Restrict, GlobalsOK, Described, Offer
  <2>3. s2p' = Tail(s2p) /\ (p2c' = p2c \/ p2c' = Append(p2c, m))
    BY <1>7 DEF GlobalRemove, Forward, Drop
  <2> QED BY <1>0, <1>1, <1>2, <2>1, <2>2, <2>3 DEF LetsHear, Plain, Stays
<1>8. CASE DeleteIdEvent(m)
  <2>1. MapOK' /\ Loses(m.name)
    BY <1>3, <1>8, DeleteMaps DEF DeleteIdEvent
  <2>2. /\ m.op = "delete_id" /\ s2p' = Tail(s2p) /\ p2c' = Append(p2c, m)
        /\ UNCHANGED <<globals, hidden, closed>>
    BY <1>8 DEF DeleteIdEvent, Forward
  <2>3. GlobalsOK'
    BY <1>0, <1>3, <2>2 DEF GlobalsOK, Described, Offer
  <2> QED BY <1>0, <1>1, <1>2, <2>1, <2>2, <2>3 DEF LetsDelete, Stays
<1>9. CASE NewObject(m, s2p, p2c)
  <2>0. m.op = "data_offer" /\ m.new \in ServerIds
    BY <1>1, <1>9 DEF NewObject, IsEvent, EventOps
  <2>1. CASE RecordError(FALSE, m.new) # "no"
    <3>1. RecordError(FALSE, m.new) = "too many"
      BY <2>0, <2>1 DEF RecordError
    <3> QED BY <1>0, <1>1, <1>4, <1>9, <2>0, <3>1 DEF NewObject, Losses
  <2>2. CASE RecordError(FALSE, m.new) = "no"
    <3>1. /\ Record(m.new, "offer") /\ s2p' = Tail(s2p) /\ p2c' = Append(p2c, m)
          /\ UNCHANGED <<hidden, globals, closed>>
      BY <1>9, <2>0, <2>2 DEF NewObject, NewOf, Forward
    <3>2. MapOK' /\ Gains(m.new, "offer")
      BY <1>3, <2>2, <3>1, RecordMaps, TableAssumption
    <3>3. GlobalsOK'
      BY <1>0, <1>3, <3>1 DEF GlobalsOK, Described, Offer
    <3> QED BY <1>0, <1>1, <1>2, <2>0, <3>1, <3>2, <3>3 DEF LetsOffer, Stays
  <2> QED BY <2>1, <2>2
<1>10. CASE PlainEvent(m)
  <2>1. MapOK' /\ SameMap /\ m.op \in {"input", "event"}
        /\ s2p' = Tail(s2p) /\ p2c' = Append(p2c, m) /\ UNCHANGED <<globals, hidden, closed>>
    BY <1>5, <1>10 DEF PlainEvent, Forward
  <2>2. GlobalsOK'
    BY <1>0, <1>3, <2>1 DEF GlobalsOK, Described, Offer
  <2> QED BY <1>0, <1>1, <1>2, <2>1, <2>2 DEF LetsHear, Plain, Stays
<1>11. CASE Undecodable(m, s2p, p2c)
  <2>1. ~client.honest
    BY <1>0, <1>11, EventDecodes DEF Undecodable
  <2> QED BY <1>0, <1>1, <1>4, <1>11, <2>1 DEF Undecodable
<1> QED BY <1>6, <1>7, <1>8, <1>9, <1>10, <1>11 DEF JudgeEvent

----------------------------------------------------------------------------
(* The steps of the two ends.                                               *)

\* A function with one value more, or one fewer.
Adds(f, g, x, v) == /\ DOMAIN g = DOMAIN f \cup {x} /\ g[x] = v
                    /\ \A y \in DOMAIN f \ {x} : g[y] = f[y]
Removes(f, g, x) == DOMAIN g = DOMAIN f \ {x} /\ \A y \in DOMAIN g : g[y] = f[y]

(* With.                                                                   *)
LEMMA WithAdds ==
  ASSUME NEW f, NEW x, NEW v
  PROVE  Adds(f, With(f, x, v), x, v)
BY DEF Adds, With

(* Without.                                                                *)
LEMMA WithoutRemoves ==
  ASSUME NEW f, NEW x
  PROVE  Removes(f, Without(f, x), x)
BY DEF Removes, Without, Restrict

\* What one end does leaves the proxy alone.
Aside == UNCHANGED <<gate, age, objects, zombies, hidden, globals, closed>>

ClientAsks(m) ==
  /\ m.op \in {"bind", "sync"} /\ m.new \in client.free
  /\ client'.free = client.free \ {m.new}
  /\ Adds(client.objs, client'.objs, m.new, Makes(m))
ClientUses(m) ==
  /\ m.op = "receive" /\ m.obj \in DOMAIN client.objs /\ client.objs[m.obj] = "offer"
  /\ client' = client
ClientEnds(m) ==
  /\ m.op = "destroy" /\ m.obj \in DOMAIN client.objs /\ client.objs[m.obj] # "callback"
  /\ client'.free = client.free /\ Removes(client.objs, client'.objs, m.obj)

(* The requests of a client, one that keeps the protocol or not.           *)
LEMMA RequestForms ==
  ASSUME ClientOK, NEW m \in Requests
  PROVE  /\ IsRequest(m)
         /\ client.honest =>
              /\ m.op \in {"bind", "sync"} => m.new \in client.free
              /\ m.op \in {"receive", "destroy"} => m.obj \in DOMAIN client.objs
              /\ m.op = "receive" => client.objs[m.obj] = "offer"
              /\ m.op = "destroy" => client.objs[m.obj] # "callback"
              /\ m.op = "bind" => /\ m.name \in DOMAIN client.seen
                                  /\ m.iface = Globals[m.name].iface /\ m.version >= 1
<1>0. Own \subseteq Ids /\ Free \subseteq Ids /\ Told \subseteq Names
  BY DEF ClientOK, Ids, Own, Free, Told
<1>1. CASE m \in Binds
  <2>1. PICK b \in [name : Told, version : 1 .. MaxVersion, new : Free] :
          m = [Msg("bind", "core") EXCEPT !.name = b.name, !.iface = Globals[b.name].iface,
                                          !.version = b.version, !.new = b.new]
    BY <1>1 DEF Binds
  <2>2. m = [op |-> "bind", obj |-> "core", new |-> b.new, name |-> b.name,
             iface |-> Globals[b.name].iface, version |-> b.version, since |-> 1]
    BY <2>1 DEF Msg
  <2>3. m \in Messages
    BY <1>0, <2>2, IdsAssumption DEF Messages, RequestOps, Ifaces
  <2> QED BY <1>0, <2>2, <2>3, IdsAssumption DEF IsRequest, RequestOps, Free, Told
<1>2. CASE m \in Syncs
  <2>1. PICK i \in Free : m = [Msg("sync", "core") EXCEPT !.new = i]
    BY <1>2 DEF Syncs
  <2>2. m = [op |-> "sync", obj |-> "core", new |-> i, name |-> "none",
             iface |-> "none", version |-> 1, since |-> 1]
    BY <2>1 DEF Msg
  <2>3. m \in Messages
    BY <1>0, <2>2 DEF Messages, RequestOps, Ifaces
  <2> QED BY <1>0, <2>2, <2>3 DEF IsRequest, RequestOps, Free
<1>3. CASE m \in Uses
  <2>1. PICK o \in Own : m = Msg("receive", o) /\ (client.honest => client.objs[o] = "offer")
    BY <1>3 DEF Uses
  <2> QED BY <1>0, <2>1 DEF IsRequest, Messages, RequestOps, Ifaces, Msg, Own
<1>4. CASE m \in Destroys
  <2>1. PICK o \in Own : m = Msg("destroy", o) /\ (client.honest => client.objs[o] # "callback")
    BY <1>4 DEF Destroys
  <2> QED BY <1>0, <2>1 DEF IsRequest, Messages, RequestOps, Ifaces, Msg, Own
<1> QED BY <1>1, <1>2, <1>3, <1>4 DEF Requests

\* A bind of what the client was told of, at a version it was told.
Fair(m) == m.op = "bind" => /\ m.name \in DOMAIN client.seen
                            /\ m.iface = Globals[m.name].iface
                            /\ 1 <= m.version /\ m.version <= client.seen[m.name]

(* A client sends a request.                                               *)
LEMMA SendsRequest ==
  ASSUME PolicyInv, ClientSends
  PROVE  \E m : /\ IsRequest(m) /\ c2p' = Append(c2p, m) /\ Puts(c2p, c2p', m) /\ ClientOK'
                /\ Aside /\ UNCHANGED <<p2s, s2p, p2c, server>> /\ closed = "no"
                /\ client'.honest = client.honest
                /\ client'.seen = client.seen /\ (client.honest => Fair(m))
                /\ client.honest => ClientAsks(m) \/ ClientUses(m) \/ ClientEnds(m)
<1>1. PICK m \in Requests :
        /\ client.honest /\ m.op = "bind" => m.version <= client.seen[m.name]
        /\ c2p' = Append(c2p, m)
        /\ client' = CASE client.honest /\ m.op \in {"bind", "sync"} ->
                          [client EXCEPT !.free = @ \ {m.new},
                             !.objs = With(@, m.new, IF m.op = "bind"
                                             THEN m.iface ELSE "callback")]
                      [] client.honest /\ m.op = "destroy" ->
                          [client EXCEPT !.objs = Without(@, m.obj)]
                      [] OTHER -> client
  BY DEF ClientSends
<1>2. ClientOK /\ IsRequest(m) /\ (client.honest => Fair(m))
  BY <1>1, RequestForms DEF PolicyInv, Fair
<1>3. Puts(c2p, c2p', m)
  BY <1>1, <1>2, AppendPuts DEF PolicyInv, Shapes, IsRequest
<1>4. CASE client' = client
  <2>1. ClientOK' /\ client'.honest = client.honest /\ client'.seen = client.seen
    BY <1>2, <1>4 DEF ClientOK
  <2>2. client.honest => ClientAsks(m) \/ ClientUses(m) \/ ClientEnds(m)
    <3>1. CASE ~client.honest
      BY <3>1
    <3>2. CASE client.honest /\ m.op = "receive"
      BY <1>2, <1>4, <3>2, RequestForms DEF ClientUses
    <3>3. CASE client.honest /\ m.op \in {"bind", "sync"}
      <4>1. client' = [client EXCEPT !.free = @ \ {m.new},
                             !.objs = With(@, m.new, IF m.op = "bind"
                                             THEN m.iface ELSE "callback")]
        BY <1>1, <3>3
      <4>2. client'.free = client.free \ {m.new} /\ client'.objs = With(client.objs, m.new, Makes(m))
        BY <1>2, <4>1 DEF ClientOK, Makes
      <4> QED BY <1>2, <3>3, <4>2, WithAdds, RequestForms DEF ClientAsks
    <3>4. CASE client.honest /\ m.op = "destroy"
      <4>1. client' = [client EXCEPT !.objs = Without(@, m.obj)]
        BY <1>1, <3>4
      <4>2. client'.free = client.free /\ client'.objs = Without(client.objs, m.obj)
        BY <1>2, <4>1 DEF ClientOK
      <4> QED BY <1>2, <3>4, <4>2, WithoutRemoves, RequestForms DEF ClientEnds
    <3> QED BY <1>2, <3>1, <3>2, <3>3, <3>4 DEF IsRequest, RequestOps
  <2> QED BY <1>1, <1>2, <1>3, <2>1, <2>2 DEF ClientSends, Room, Aside, proxy
<1>5. CASE client.honest /\ m.op \in {"bind", "sync"}
  <2>1. client' = [client EXCEPT !.free = @ \ {m.new},
                         !.objs = With(@, m.new, IF m.op = "bind"
                                         THEN m.iface ELSE "callback")]
    BY <1>1, <1>5
  <2>2. client' = [honest |-> client.honest, objs |-> With(client.objs, m.new, Makes(m)),
                   free |-> client.free \ {m.new}, seen |-> client.seen]
    BY <1>2, <2>1 DEF ClientOK, Makes
  <2>3. Adds(client.objs, client'.objs, m.new, Makes(m))
    BY <2>2, WithAdds
  <2>4. ClientAsks(m)
    BY <1>2, <1>5, <2>2, <2>3, RequestForms DEF ClientAsks
  <2>5. ClientOK' /\ client'.honest = client.honest /\ client'.seen = client.seen
    BY <1>2, <1>5, <2>2, <2>3 DEF ClientOK, Adds, IsRequest
  <2> QED BY <1>1, <1>2, <1>3, <2>4, <2>5 DEF ClientSends, Room, Aside, proxy
<1>6. CASE client.honest /\ m.op = "destroy"
  <2>1. client' = [client EXCEPT !.objs = Without(@, m.obj)]
    BY <1>1, <1>6
  <2>2. client' = [honest |-> client.honest, objs |-> Without(client.objs, m.obj),
                   free |-> client.free, seen |-> client.seen]
    BY <1>2, <2>1 DEF ClientOK
  <2>3. Removes(client.objs, client'.objs, m.obj)
    BY <2>2, WithoutRemoves
  <2>4. ClientEnds(m)
    BY <1>2, <1>6, <2>2, <2>3, RequestForms DEF ClientEnds
  <2>5. ClientOK' /\ client'.honest = client.honest /\ client'.seen = client.seen
    BY <1>2, <2>2, <2>3 DEF ClientOK, Removes
  <2> QED BY <1>1, <1>2, <1>3, <2>4, <2>5 DEF ClientSends, Room, Aside, proxy
<1>7. ~client.honest \/ m.op = "receive" => client' = client
  BY <1>1
<1>8. m.op \in {"bind", "sync", "receive", "destroy"}
  BY <1>2 DEF IsRequest, RequestOps
<1> QED BY <1>4, <1>5, <1>6, <1>7, <1>8

\* The client hears that an id is free, of an offer, or of nothing it keeps.
ClientFrees(m) ==
  /\ m.op = "delete_id" /\ client'.free = client.free \cup {m.name}
  /\ Removes(client.objs, client'.objs, m.name)
ClientLearns(m) ==
  /\ m.op = "data_offer" /\ client'.free = client.free
  /\ Adds(client.objs, client'.objs, m.new, "offer")
ClientNotes(m) ==
  /\ m.op \in Plain /\ client'.free = client.free /\ client'.objs = client.objs

\* What it has been told of is what it had been, and what this event tells.
ClientHears(m) ==
  \A n \in DOMAIN client'.seen :
    \/ n \in DOMAIN client.seen /\ client'.seen[n] = client.seen[n]
    \/ m.op = "global" /\ n = m.name /\ client'.seen[n] = m.version

(* A client reads an event.                                                *)
LEMMA ReadsEvent ==
  ASSUME PolicyInv, ClientReads
  PROVE  /\ IsEvent(p2c[1]) /\ p2c' = Tail(p2c) /\ Pops(p2c, p2c') /\ ClientOK'
         /\ Aside /\ UNCHANGED <<c2p, p2s, s2p, server>> /\ closed = "no"
         /\ client'.honest = client.honest
         /\ client.honest => ClientFrees(p2c[1]) \/ ClientLearns(p2c[1]) \/ ClientNotes(p2c[1])
         /\ ClientHears(p2c[1])
<1> DEFINE m == Head(p2c)
<1>0. p2c # <<>> /\ p2c' = Tail(p2c) /\ Aside /\ UNCHANGED <<c2p, p2s, s2p, server>>
      /\ closed = "no"
  BY DEF ClientReads, Aside, proxy
<1>1. m = p2c[1] /\ IsEvent(m) /\ Pops(p2c, p2c')
  BY <1>0, TailPops DEF PolicyInv, Shapes, Pops
<1>2. ClientOK
  BY DEF PolicyInv
<1>3. client' = IF ~client.honest THEN client ELSE
              CASE m.op = "global" -> [client EXCEPT !.seen = With(@, m.name, m.version)]
              [] m.op = "global_remove" ->
                   [client EXCEPT !.seen = Without(@, m.name)]
              [] m.op = "delete_id" ->
                   [client EXCEPT !.free = @ \cup {m.name},
                                  !.objs = Without(@, m.name)]
              [] m.op = "data_offer" ->
                   [client EXCEPT !.objs = With(@, m.new, "offer")]
              [] OTHER -> client
  BY DEF ClientReads
<1> HIDE DEF m
<1>4. CASE ~client.honest
  <2>1. client' = client
    BY <1>3, <1>4
  <2> QED BY <1>0, <1>1, <1>2, <1>4, <2>1 DEF ClientOK, ClientHears
<1>5. CASE client.honest /\ m.op \in {"global", "global_remove"}
  <2>1. /\ client'.seen = IF m.op = "global" THEN With(client.seen, m.name, m.version)
                                            ELSE Without(client.seen, m.name)
        /\ client' = [honest |-> client.honest, objs |-> client.objs, free |-> client.free,
                      seen |-> client'.seen]
    BY <1>2, <1>3, <1>5 DEF ClientOK
  <2>2. /\ client'.honest = client.honest /\ client'.objs = client.objs
        /\ client'.free = client.free
    BY <2>1
  <2>5. \/ Adds(client.seen, client'.seen, m.name, m.version) /\ m.op = "global"
        \/ Removes(client.seen, client'.seen, m.name)
    BY <2>1, WithAdds, WithoutRemoves
  <2>3. DOMAIN client'.seen \subseteq Names /\ ClientHears(m)
    BY <1>1, <1>2, <1>5, <2>5 DEF ClientOK, IsEvent, Adds, Removes, ClientHears
  <2>4. ClientOK' /\ client'.honest = client.honest /\ ClientNotes(m)
    BY <1>2, <1>5, <2>1, <2>2, <2>3 DEF ClientOK, ClientNotes, Plain
  <2> QED BY <1>0, <1>1, <2>3, <2>4
<1>6. CASE client.honest /\ m.op = "delete_id"
  <2>1. client' = [honest |-> client.honest, objs |-> Without(client.objs, m.name),
                   free |-> client.free \cup {m.name}, seen |-> client.seen]
    BY <1>2, <1>3, <1>6 DEF ClientOK
  <2>2. Removes(client.objs, client'.objs, m.name)
    BY <2>1, WithoutRemoves
  <2>3. ClientOK' /\ client'.honest = client.honest /\ ClientFrees(m)
    BY <1>1, <1>2, <1>6, <2>1, <2>2 DEF ClientOK, ClientFrees, Removes, IsEvent
  <2> QED BY <1>0, <1>1, <2>1, <2>3 DEF ClientHears
<1>7. CASE client.honest /\ m.op = "data_offer"
  <2>1. client' = [honest |-> client.honest, objs |-> With(client.objs, m.new, "offer"),
                   free |-> client.free, seen |-> client.seen]
    BY <1>2, <1>3, <1>7 DEF ClientOK
  <2>2. Adds(client.objs, client'.objs, m.new, "offer")
    BY <2>1, WithAdds
  <2>3. ClientOK' /\ client'.honest = client.honest /\ ClientLearns(m)
    BY <1>1, <1>2, <1>7, <2>1, <2>2 DEF ClientOK, ClientLearns, Adds, IsEvent, Ids
  <2> QED BY <1>0, <1>1, <2>1, <2>3 DEF ClientHears
<1>8. CASE client.honest /\ m.op \in {"input", "event"}
  BY <1>0, <1>1, <1>2, <1>3, <1>8 DEF ClientOK, ClientNotes, ClientHears, Plain
<1> QED BY <1>1, <1>4, <1>5, <1>6, <1>7, <1>8 DEF IsEvent, EventOps

\* The compositor's events: of a global, of an offer it makes, of an object it
\* has, and the end of a callback, which is two.
TellsGlobal(m) ==
  /\ m.op \in {"global", "global_remove"} /\ Puts(s2p, s2p', m)
  /\ server'.objs = server.objs
TellsOffer(m) ==
  /\ m.op = "data_offer" /\ Puts(s2p, s2p', m) /\ m.since = 1
  /\ m.obj \in DOMAIN server.objs \cap ClientIds /\ m.new \in ServerIds \ DOMAIN server.objs
  /\ Adds(server.objs, server'.objs, m.new, [iface |-> "offer", version |-> 1])
TellsPlain(m) ==
  /\ m.op \in {"input", "event"} /\ Puts(s2p, s2p', m)
  /\ m.obj \in DOMAIN server.objs /\ m.since <= Table[server.objs[m.obj].iface]
  /\ server'.objs = server.objs
TellsDone(m) ==
  /\ m.op = "event" /\ m.obj \in DOMAIN server.objs \cap ClientIds
  /\ server.objs[m.obj].iface = "callback" /\ m.since = 1
  /\ \E n \in Messages, q \in Seq(Messages) :
       Deletes(n, m.obj) /\ Puts(s2p, q, m) /\ Puts(q, s2p', n)
  /\ Removes(server.objs, server'.objs, m.obj)

\* What the compositor has offered only grows, and it sends what it offered.
Vouched(sv, m) == /\ m.op = "global" => m.name \in sv.offered
                  /\ m.op = "global_remove" => m.name \in sv.removed
Honours ==
  /\ server.offered \subseteq server'.offered /\ server'.bound = server.bound
  /\ server.removed \subseteq server'.removed
  /\ \A k \in 1 .. Len(s2p') : IsEvent(s2p'[k]) /\ Vouched(server', s2p'[k])

(* An event of the compositor's that is appended.                          *)
LEMMA EmitHonours ==
  ASSUME PolicyInv, NEW m, IsEvent(m), Emit(m), server.offered \subseteq server'.offered,
         server'.bound = server.bound, server.removed \subseteq server'.removed,
         Vouched(server', m)
  PROVE  Honours /\ Puts(s2p, s2p', m) /\ s2p' \in Seq(Messages)
<1>1. Puts(s2p, s2p', m) /\ s2p' \in Seq(Messages)
  BY AppendPuts DEF Emit, PolicyInv, Shapes, IsEvent
<1>2. \A k \in 1 .. Len(s2p) : IsEvent(s2p[k]) /\ Vouched(server, s2p[k])
  BY DEF PolicyInv, Shapes, Shown, Lasts, Vouched
<1>3. \A k \in 1 .. Len(s2p') : s2p'[k] = m \/ \E l \in 1 .. Len(s2p) : s2p'[k] = s2p[l]
  BY <1>1, PutsKeep
<1> QED BY <1>1, <1>2, <1>3 DEF Honours, Vouched

(* The compositor sends.                                                   *)
LEMMA SendsEvent ==
  ASSUME PolicyInv, CompositorSends
  PROVE  /\ closed = "no" /\ Aside /\ UNCHANGED <<c2p, p2s, p2c, client>>
         /\ ServerOK' /\ Honours /\ s2p' \in Seq(Messages)
         /\ \E m : IsEvent(m) /\ (TellsGlobal(m) \/ TellsOffer(m) \/ TellsPlain(m) \/ TellsDone(m))
<1>0. closed = "no" /\ Aside /\ UNCHANGED <<c2p, p2s, p2c, client>>
  BY DEF CompositorSends, Room, Aside, proxy
<1>s. ServerOK
  BY DEF PolicyInv
<1>t. Table["offer"] >= 1 /\ 1 \in Nat
  BY TableAssumption
<1>1. ASSUME NEW n \in Names, NEW m,
             \/ /\ m = [Msg("global", "core") EXCEPT !.name = n, !.version = Globals[n].version]
                /\ server' = [server EXCEPT !.offered = @ \cup {n}]
             \/ /\ m = [Msg("global_remove", "core") EXCEPT !.name = n]
                /\ server' = [server EXCEPT !.removed = @ \cup {n}],
             Emit(m)
      PROVE  ServerOK' /\ Honours /\ s2p' \in Seq(Messages) /\ IsEvent(m) /\ TellsGlobal(m)
  <2>1. m \in {[op |-> "global", obj |-> "core", new |-> "none", name |-> n, iface |-> "none",
                version |-> Globals[n].version, since |-> 1],
               [op |-> "global_remove", obj |-> "core", new |-> "none", name |-> n,
                iface |-> "none", version |-> 1, since |-> 1]}
    BY <1>1 DEF Msg
  <2>2. IsEvent(m) /\ m.op \in {"global", "global_remove"} /\ m.name = n
    BY <2>1, TableAssumption DEF IsEvent, Messages, EventOps, Ifaces
  <2>3. /\ server' = [objs |-> server.objs, offered |-> server'.offered,
                      removed |-> server'.removed, bound |-> server.bound]
        /\ server'.offered = (IF m.op = "global" THEN server.offered \cup {n} ELSE server.offered)
        /\ server'.removed =
             (IF m.op = "global_remove" THEN server.removed \cup {n} ELSE server.removed)
    BY <1>1, <1>s, <2>1 DEF ServerOK, Msg
  <2>4. server'.objs = server.objs /\ server'.bound = server.bound
    BY <2>3
  <2>5. Honours /\ Puts(s2p, s2p', m) /\ s2p' \in Seq(Messages)
    BY <1>1, <2>2, <2>3, <2>4, EmitHonours DEF Vouched
  <2>6. ServerOK'
    BY <1>s, <2>3, <2>4 DEF ServerOK
  <2> QED BY <2>2, <2>4, <2>5, <2>6 DEF TellsGlobal
<1>2. ASSUME NEW i \in Of("device"), NEW s \in ServerIds \ DOMAIN server.objs, NEW m,
             m = [Msg("data_offer", i) EXCEPT !.new = s], Emit(m),
             server' = [server EXCEPT !.objs = With(@, s, [iface |-> "offer", version |-> 1])]
      PROVE  ServerOK' /\ Honours /\ s2p' \in Seq(Messages) /\ IsEvent(m) /\ TellsOffer(m)
  <2>1. m = [op |-> "data_offer", obj |-> i, new |-> s, name |-> "none", iface |-> "none",
             version |-> 1, since |-> 1]
    BY <1>2 DEF Msg
  <2>2. i \in DOMAIN server.objs /\ server.objs[i].iface = "device" /\ i \in Ids
        /\ i \notin ServerIds
    BY <1>s DEF Of, ServerOK
  <2>3. IsEvent(m)
    BY <2>1, <2>2 DEF IsEvent, Messages, EventOps, Ifaces, Ids
  <2>4. server' = [objs |-> With(server.objs, s, [iface |-> "offer", version |-> 1]),
                   offered |-> server.offered, removed |-> server.removed, bound |-> server.bound]
    BY <1>2, <1>s DEF ServerOK
  <2>5. Adds(server.objs, server'.objs, s, [iface |-> "offer", version |-> 1])
    BY <2>4, WithAdds
  <2>6. server'.bound = server.bound /\ server'.offered = server.offered
        /\ server'.removed = server.removed
    BY <2>4
  <2>7. Honours /\ Puts(s2p, s2p', m) /\ s2p' \in Seq(Messages)
    BY <1>2, <2>1, <2>3, <2>6, EmitHonours DEF Vouched
  <2>8. ServerOK'
    BY <1>s, <1>t, <2>4, <2>5, TableAssumption DEF ServerOK, Adds, Ids
  <2>9. TellsOffer(m)
    BY <2>1, <2>2, <2>5, <2>7 DEF TellsOffer, Ids
  <2> QED BY <2>3, <2>7, <2>8, <2>9
<1>3. ASSUME NEW i \in DOMAIN server.objs, NEW m, Emit(m), UNCHANGED server,
             \/ m = Msg("input", i)
             \/ m = [Msg("event", i) EXCEPT !.since = server.objs[i].version]
      PROVE  ServerOK' /\ Honours /\ s2p' \in Seq(Messages) /\ IsEvent(m) /\ TellsPlain(m)
  <2>1. i \in Ids /\ server.objs[i].version \in Nat
        /\ server.objs[i].version <= Table[server.objs[i].iface]
        /\ 1 <= Table[server.objs[i].iface]
    BY <1>s, TableAssumption DEF ServerOK
  <2>2. m \in {[op |-> "input", obj |-> i, new |-> "none", name |-> "none", iface |-> "none",
                version |-> 1, since |-> 1],
               [op |-> "event", obj |-> i, new |-> "none", name |-> "none", iface |-> "none",
                version |-> 1, since |-> server.objs[i].version]}
    BY <1>3 DEF Msg
  <2>3. /\ IsEvent(m) /\ m.op \in {"input", "event"} /\ m.obj = i
        /\ m.since <= Table[server.objs[i].iface]
    BY <2>1, <2>2 DEF IsEvent, Messages, EventOps, Ifaces
  <2>4. Honours /\ Puts(s2p, s2p', m) /\ s2p' \in Seq(Messages)
    BY <1>3, <2>3, EmitHonours DEF Vouched
  <2>5. ServerOK'
    BY <1>3, <1>s DEF ServerOK
  <2> QED BY <1>3, <2>3, <2>4, <2>5 DEF TellsPlain
<1>4. ASSUME NEW i \in Of("callback"), NEW m, m = Msg("event", i),
             s2p' = s2p \o <<m, [Msg("delete_id", "core") EXCEPT !.name = i]>>,
             server' = [server EXCEPT !.objs = Without(@, i)]
      PROVE  ServerOK' /\ Honours /\ s2p' \in Seq(Messages) /\ IsEvent(m) /\ TellsDone(m)
  <2> DEFINE n == [Msg("delete_id", "core") EXCEPT !.name = i]
             q == Append(s2p, m)
  <2>1. i \in DOMAIN server.objs /\ server.objs[i].iface = "callback" /\ i \in Ids
        /\ i \in ClientIds
    BY <1>s DEF Of, ServerOK, Ids
  <2>2. n = [op |-> "delete_id", obj |-> "core", new |-> "none", name |-> i, iface |-> "none",
             version |-> 1, since |-> 1]
    BY DEF Msg
  <2>3. IsEvent(m) /\ m.op = "event" /\ m.obj = i /\ m.since = 1
    BY <1>4, <2>1 DEF IsEvent, Messages, EventOps, Ifaces, Msg
  <2>4. IsEvent(n) /\ Deletes(n, i) /\ n.op = "delete_id"
    BY <2>1, <2>2 DEF IsEvent, Messages, EventOps, Ifaces, Ids, Deletes
  <2> HIDE DEF n
  <2>5. m \in Messages /\ n \in Messages /\ s2p \in Seq(Messages)
    BY <2>3, <2>4 DEF IsEvent, PolicyInv, Shapes
  <2>6. s2p' = Append(q, n)
    BY <1>4, <2>5, TwoPuts DEF n
  <2>7. q \in Seq(Messages) /\ Puts(s2p, q, m)
    BY <2>5, AppendPuts
  <2> HIDE DEF q
  <2>8. s2p' \in Seq(Messages) /\ Puts(q, s2p', n)
    BY <2>5, <2>6, <2>7, AppendPuts
  <2>9. server' = [objs |-> Without(server.objs, i), offered |-> server.offered,
                   removed |-> server.removed, bound |-> server.bound]
    BY <1>4, <1>s DEF ServerOK
  <2>10. Removes(server.objs, server'.objs, i) /\ server'.bound = server.bound
         /\ server'.offered = server.offered /\ server'.removed = server.removed
    BY <2>9, WithoutRemoves
  <2>11. ServerOK'
    BY <1>s, <2>9, <2>10 DEF ServerOK, Removes
  <2>12. Honours
    <3>1. \A k \in 1 .. Len(s2p) : IsEvent(s2p[k]) /\ Vouched(server, s2p[k])
      BY DEF PolicyInv, Shapes, Shown, Lasts, Vouched
    <3>2. \A k \in 1 .. Len(q) : q[k] = m \/ \E l \in 1 .. Len(s2p) : q[k] = s2p[l]
      BY <2>7, PutsKeep
    <3>3. \A k \in 1 .. Len(s2p') : s2p'[k] = n \/ \E l \in 1 .. Len(q) : s2p'[k] = q[l]
      BY <2>8, PutsKeep
    <3> QED BY <2>3, <2>4, <2>10, <3>1, <3>2, <3>3 DEF Honours, Vouched
  <2>13. TellsDone(m)
    BY <2>1, <2>3, <2>4, <2>5, <2>7, <2>8, <2>10 DEF TellsDone
  <2> QED BY <2>3, <2>8, <2>11, <2>12, <2>13
<1>5. CASE \E n \in Names \ server.offered :
          /\ Emit([Msg("global", "core") EXCEPT !.name = n,
                                               !.version = Globals[n].version])
          /\ server' = [server EXCEPT !.offered = @ \cup {n}]
  BY <1>0, <1>1, <1>5
<1>6. CASE \E n \in server.offered \ server.removed :
          /\ Emit([Msg("global_remove", "core") EXCEPT !.name = n])
          /\ server' = [server EXCEPT !.removed = @ \cup {n}]
  BY <1>0, <1>1, <1>6, <1>s DEF ServerOK
<1>7. CASE \E i \in Of("device"), s \in ServerIds \ DOMAIN server.objs :
          /\ Emit([Msg("data_offer", i) EXCEPT !.new = s])
          /\ server' = [server EXCEPT
               !.objs = With(@, s, [iface |-> "offer", version |-> 1])]
  BY <1>0, <1>2, <1>7
<1>8. CASE \E i \in Of("device") : Emit(Msg("input", i)) /\ UNCHANGED server
  BY <1>0, <1>3, <1>8 DEF Of
<1>9. CASE \E i \in DOMAIN server.objs \ Of("callback") :
          /\ Emit([Msg("event", i) EXCEPT !.since = server.objs[i].version])
          /\ UNCHANGED server
  BY <1>0, <1>3, <1>9
<1>10. CASE \E i \in Of("callback") :
          /\ s2p' = s2p \o <<Msg("event", i),
                             [Msg("delete_id", "core") EXCEPT !.name = i]>>
          /\ server' = [server EXCEPT !.objs = Without(@, i)]
  BY <1>0, <1>4, <1>10
<1> QED BY <1>5, <1>6, <1>7, <1>8, <1>9, <1>10 DEF CompositorSends

\* A request reaches the compositor: it makes an object, ends one, or does
\* nothing the proxy has to know.
Fulfils(m) ==
  /\ m.op \in {"bind", "sync"} /\ m.new \notin DOMAIN server.objs /\ UNCHANGED s2p
  /\ Adds(server.objs, server'.objs, m.new, [iface |-> Makes(m), version |-> m.version])
Releases(m) ==
  /\ m.op = "destroy" /\ m.obj \in DOMAIN server.objs
  /\ Removes(server.objs, server'.objs, m.obj)
  /\ IF m.obj \in ClientIds
     THEN \E n \in Messages : Deletes(n, m.obj) /\ Puts(s2p, s2p', n)
     ELSE UNCHANGED s2p
Ignores(m) ==
  /\ UNCHANGED <<s2p, server>>
  /\ \/ m.op = "receive"
     \/ m.op = "destroy" /\ m.obj \notin DOMAIN server.objs
     \/ m.op \in {"bind", "sync"} /\ m.new \in DOMAIN server.objs

(* The compositor reads.                                                   *)
LEMMA ReadsRequest ==
  ASSUME PolicyInv, CompositorReads
  PROVE  /\ closed = "no" /\ Aside /\ UNCHANGED <<c2p, p2c, client>>
         /\ p2s' = Tail(p2s) /\ Pops(p2s, p2s') /\ IsRequest(p2s[1]) /\ ServerOK'
         /\ server'.offered = server.offered /\ server'.removed = server.removed
         /\ \A x \in server'.bound : x \in server.bound \/ (x \in server.offered /\ Described(x))
         /\ s2p' \in Seq(Messages)
         /\ \A k \in 1 .. Len(s2p') : IsEvent(s2p'[k]) /\ Vouched(server, s2p'[k])
         /\ Fulfils(p2s[1]) \/ Releases(p2s[1]) \/ Ignores(p2s[1])
<1> DEFINE m == Head(p2s)
           known == /\ m.obj = "core" \/ m.obj \in DOMAIN server.objs
                    /\ m.new \notin DOMAIN server.objs
<1>0. /\ closed = "no" /\ Aside /\ UNCHANGED <<c2p, p2c, client>> /\ p2s # <<>>
      /\ p2s' = Tail(p2s)
  BY DEF CompositorReads, Aside, proxy
<1>1. /\ m = p2s[1] /\ 1 \in 1 .. Len(p2s) /\ IsRequest(m) /\ Judged(m) /\ Pops(p2s, p2s')
      /\ m.op = "bind" => m.name \in server.offered /\ Described(m.name)
  BY <1>0, TailPops DEF PolicyInv, Shapes, Shown, Pops
<1>s. ServerOK /\ s2p \in Seq(Messages)
      /\ \A k \in 1 .. Len(s2p) : IsEvent(s2p[k]) /\ Vouched(server, s2p[k])
  BY DEF PolicyInv, Shapes, Shown, Lasts, Vouched
<1>2. CASE UNCHANGED <<server, s2p>> /\ Ignores(m)
  BY <1>0, <1>1, <1>2, <1>s DEF ServerOK
<1>3. CASE /\ m.op \in {"bind", "sync"} /\ known
           /\ server' = [server EXCEPT
                !.bound = IF m.op = "bind" THEN @ \cup {m.name} ELSE @,
                !.objs = With(@, m.new,
                           [iface |-> IF m.op = "bind" THEN m.iface
                                                       ELSE "callback",
                            version |-> m.version])]
           /\ UNCHANGED s2p
  <2> DEFINE o == [iface |-> Makes(m), version |-> m.version]
  <2>1. server' = [objs |-> With(server.objs, m.new, o), offered |-> server.offered,
                   removed |-> server.removed,
                   bound |-> IF m.op = "bind" THEN server.bound \cup {m.name} ELSE server.bound]
    BY <1>3, <1>s DEF ServerOK, Makes
  <2>2. m.new \in ClientIds /\ Makes(m) \in DOMAIN Table /\ m.version <= Table[Makes(m)]
        /\ m.version \in Nat /\ m.new \notin ServerIds /\ m.new \in Ids
    BY <1>1, <1>3, IdsAssumption DEF Judged, IsRequest, Messages, Ids
  <2>3. Adds(server.objs, server'.objs, m.new, o) /\ server'.offered = server.offered
        /\ server'.removed = server.removed
    BY <2>1, WithAdds
  <2>4. o.iface = Makes(m) /\ o.version = m.version
    OBVIOUS
  <2>5. server'.bound = IF m.op = "bind" THEN server.bound \cup {m.name} ELSE server.bound
    BY <2>1
  <2>6. Fulfils(m)
    BY <1>3, <2>3 DEF Fulfils
  <2> HIDE DEF o, m
  <2>7. ServerOK'
    <3>1. server' = [objs |-> server'.objs, offered |-> server'.offered,
                     removed |-> server'.removed, bound |-> server'.bound]
      BY <2>1
    <3>2. DOMAIN server'.objs \subseteq Ids /\ server'.offered \subseteq Names
      BY <1>s, <2>2, <2>3 DEF ServerOK, Adds
    <3>3. ASSUME NEW i \in DOMAIN server'.objs
          PROVE  /\ server'.objs[i].version \in Nat
                 /\ server'.objs[i].iface \in DOMAIN Table
                 /\ server'.objs[i].version <= Table[server'.objs[i].iface]
                 /\ i \in ServerIds => server'.objs[i].iface = "offer"
      <4>1. CASE i = m.new
        BY <2>2, <2>3, <2>4, <4>1 DEF Adds
      <4>2. CASE i # m.new
        BY <1>s, <2>3, <4>2 DEF Adds, ServerOK
      <4> QED BY <4>1, <4>2
    <3> QED BY <3>1, <3>2, <3>3 DEF ServerOK
  <2> QED BY <1>0, <1>1, <1>3, <1>s, <2>3, <2>5, <2>6, <2>7
<1>4. CASE /\ m.op = "destroy" /\ known
           /\ server' = [server EXCEPT !.objs = Without(@, m.obj)]
           /\ IF m.obj \in ClientIds
              THEN Emit([Msg("delete_id", "core") EXCEPT !.name = m.obj])
              ELSE UNCHANGED s2p
  <2>1. server' = [objs |-> Without(server.objs, m.obj), offered |-> server.offered,
                   removed |-> server.removed, bound |-> server.bound]
    BY <1>4, <1>s DEF ServerOK
  <2>2. Removes(server.objs, server'.objs, m.obj) /\ server'.bound = server.bound
        /\ server'.offered = server.offered /\ server'.removed = server.removed
    BY <2>1, WithoutRemoves
  <2>3. ServerOK'
    BY <1>s, <2>1, <2>2 DEF ServerOK, Removes
  <2>4. m.obj \in DOMAIN server.objs
    BY <1>1, <1>4, IdsAssumption DEF IsRequest
  <2>5. CASE m.obj \in ClientIds
    <3> DEFINE n == [Msg("delete_id", "core") EXCEPT !.name = m.obj]
    <3>1. n = [op |-> "delete_id", obj |-> "core", new |-> "none", name |-> m.obj,
               iface |-> "none", version |-> 1, since |-> 1]
      BY DEF Msg
    <3>2. IsEvent(n) /\ Deletes(n, m.obj) /\ n.op = "delete_id" /\ n \in Messages
      BY <2>5, <3>1 DEF IsEvent, Messages, EventOps, Ifaces, Ids, Deletes
    <3>3. Emit(n)
      BY <1>4, <2>5
    <3> HIDE DEF n
    <3>4. Honours /\ Puts(s2p, s2p', n) /\ s2p' \in Seq(Messages)
      BY <2>2, <3>2, <3>3, EmitHonours DEF Vouched
    <3>5. Releases(m)
      BY <1>4, <2>2, <2>4, <2>5, <3>2, <3>4 DEF Releases
    <3> QED BY <1>0, <1>1, <2>2, <2>3, <3>4, <3>5 DEF Honours, Vouched
  <2>6. CASE m.obj \notin ClientIds
    <3>1. Releases(m) /\ UNCHANGED s2p
      BY <1>4, <2>2, <2>4, <2>6 DEF Releases
    <3> QED BY <1>0, <1>1, <1>s, <2>2, <2>3, <3>1
  <2> QED BY <2>5, <2>6
<1>5. \/ ~known /\ UNCHANGED <<server, s2p>>
      \/ /\ m.op \in {"bind", "sync"} /\ known
         /\ server' = [server EXCEPT
              !.bound = IF m.op = "bind" THEN @ \cup {m.name} ELSE @,
              !.objs = With(@, m.new,
                         [iface |-> IF m.op = "bind" THEN m.iface
                                                     ELSE "callback",
                          version |-> m.version])]
         /\ UNCHANGED s2p
      \/ /\ m.op = "destroy" /\ known
         /\ server' = [server EXCEPT !.objs = Without(@, m.obj)]
         /\ IF m.obj \in ClientIds
            THEN Emit([Msg("delete_id", "core") EXCEPT !.name = m.obj])
            ELSE UNCHANGED s2p
      \/ m.op = "receive" /\ known /\ UNCHANGED <<server, s2p>>
  BY DEF CompositorReads
<1>6. "none" \notin DOMAIN server.objs
  BY <1>s, IdsAssumption DEF ServerOK
<1>7. ASSUME UNCHANGED <<server, s2p>>, ~known \/ m.op = "receive" PROVE Ignores(m)
  <2>1. m.op \in {"bind", "sync"} => m.obj = "core"
    BY <1>1 DEF IsRequest
  <2>2. m.op \in {"receive", "destroy"} => m.new = "none"
    BY <1>1 DEF IsRequest
  <2>3. m.op \in {"bind", "sync", "receive", "destroy"}
    BY <1>1 DEF IsRequest, RequestOps
  <2> QED BY <1>6, <1>7, <2>1, <2>2, <2>3 DEF Ignores
<1> HIDE DEF m, known
<1> QED BY <1>2, <1>3, <1>4, <1>5, <1>7

----------------------------------------------------------------------------
(* The parts that hold of every client.                                     *)

Base == Shapes /\ ClientOK /\ ServerOK /\ MapOK /\ Shown

(* The parts that say nothing of the queues, when nothing in them changes. *)
LEMMA BaseStays ==
  ASSUME PolicyInv
  PROVE  /\ UNCHANGED client => ClientOK'
         /\ UNCHANGED server => ServerOK' /\ BoundWasShown'
         /\ UNCHANGED <<objects, zombies>> => MapOK'
         /\ UNCHANGED <<globals, hidden, server>> => GlobalsOK'
<1>1. ClientOK /\ ServerOK /\ BoundWasShown /\ MapOK /\ GlobalsOK
  BY DEF PolicyInv, Shown, GlobalsOK
<1>2. UNCHANGED client => ClientOK'
  BY <1>1 DEF ClientOK
<1>3. UNCHANGED server => ServerOK' /\ BoundWasShown'
  BY <1>1 DEF ServerOK, BoundWasShown
<1>4. UNCHANGED <<objects, zombies>> => MapOK'
  BY <1>1 DEF MapOK, ZombiesCounted, MapBounded
<1>5. UNCHANGED <<globals, hidden, server>> => GlobalsOK'
  BY <1>1 DEF GlobalsOK
<1> QED BY <1>2, <1>3, <1>4, <1>5

(* Every step keeps them.                                                  *)
LEMMA NextBase ==
  ASSUME PolicyInv, PolicyNext
  PROVE  Base'
<1>q. /\ c2p \in Seq(Messages) /\ p2s \in Seq(Messages)
      /\ s2p \in Seq(Messages) /\ p2c \in Seq(Messages)
      /\ \A k \in 1 .. Len(c2p) : IsRequest(c2p[k])
      /\ \A k \in 1 .. Len(p2s) : IsRequest(p2s[k]) /\ Judged(p2s[k])
      /\ \A k \in 1 .. Len(s2p) : IsEvent(s2p[k])
      /\ \A k \in 1 .. Len(p2c) : IsEvent(p2c[k])
      /\ \A k \in 1 .. Len(s2p) : s2p[k].op = "global" => s2p[k].name \in server.offered
      /\ \A k \in 1 .. Len(p2s) :
           p2s[k].op = "bind" => p2s[k].name \in server.offered /\ Described(p2s[k].name)
      /\ BoundWasShown
  BY DEF PolicyInv, Shapes, Shown
<1>1. CASE JudgeRequest
  <2>0. c2p # <<>> /\ UNCHANGED <<s2p, p2c, client, server>>
    BY <1>1 DEF JudgeRequest
  <2>1. /\ MapOK' /\ GlobalsOK' /\ ClientOK' /\ ServerOK' /\ BoundWasShown'
    BY <1>1, <2>0, JudgesRequest, BaseStays DEF Remembers
  <2>2. /\ c2p' \in Seq(Messages) /\ \A k \in 1 .. Len(c2p') : IsRequest(c2p'[k])
    <3>1. c2p' \in Seq(Messages) /\ Pops(c2p, c2p')
      BY <1>1, <1>q, <2>0, JudgesRequest, TailPops
    <3> QED BY <1>q, <3>1, PopsKeep
  <2>3. /\ p2s' \in Seq(Messages)
        /\ \A k \in 1 .. Len(p2s') :
             /\ IsRequest(p2s'[k]) /\ Judged(p2s'[k])
             /\ p2s'[k].op = "bind" => /\ p2s'[k].name \in server.offered
                                       /\ Described(p2s'[k].name)
    <3>1. CASE p2s' = p2s
      BY <1>q, <3>1
    <3>2. CASE p2s' # p2s
      <4>1. /\ p2s' = Append(p2s, Head(c2p)) /\ Judged(Head(c2p))
            /\ Head(c2p).op = "bind" => /\ Head(c2p).name \in server.offered
                                        /\ Described(Head(c2p).name)
        BY <1>1, <3>2, JudgesRequest
      <4>2. Head(c2p) = c2p[1] /\ 1 \in 1 .. Len(c2p) /\ Head(c2p) \in Messages
        BY <1>q, <2>0, TailPops DEF Pops
      <4>3. IsRequest(Head(c2p))
        BY <1>q, <4>2
      <4>4. p2s' \in Seq(Messages) /\ Puts(p2s, p2s', Head(c2p))
        BY <1>q, <4>1, <4>2, AppendPuts
      <4>5. \A k \in 1 .. Len(p2s') :
              p2s'[k] = Head(c2p) \/ \E l \in 1 .. Len(p2s) : p2s'[k] = p2s[l]
        BY <4>4, PutsKeep
      <4> QED BY <1>q, <4>1, <4>3, <4>4, <4>5
    <3> QED BY <3>1, <3>2
  <2> QED BY <1>q, <2>0, <2>1, <2>2, <2>3 DEF Base, Shapes, Shown, GlobalsOK
<1>2. CASE JudgeEvent
  <2>0. s2p # <<>> /\ UNCHANGED <<c2p, p2s, client, server>>
    BY <1>2 DEF JudgeEvent
  <2>1. MapOK' /\ GlobalsOK' /\ ClientOK' /\ ServerOK' /\ BoundWasShown'
    BY <1>2, <2>0, JudgesEvent, BaseStays
  <2>2. /\ s2p' \in Seq(Messages)
        /\ \A k \in 1 .. Len(s2p') :
             IsEvent(s2p'[k]) /\ (s2p'[k].op = "global" => s2p'[k].name \in server.offered)
    <3>1. s2p' \in Seq(Messages) /\ Pops(s2p, s2p')
      BY <1>2, <1>q, <2>0, JudgesEvent, TailPops
    <3> QED BY <1>q, <3>1, PopsKeep
  <2>3. p2c' \in Seq(Messages) /\ \A k \in 1 .. Len(p2c') : IsEvent(p2c'[k])
    <3>1. CASE p2c' = p2c
      BY <1>q, <3>1
    <3>2. CASE \E m \in Messages : IsEvent(m) /\ p2c' = Append(p2c, m)
      <4>1. PICK m \in Messages : IsEvent(m) /\ p2c' = Append(p2c, m)
        BY <3>2
      <4>2. p2c' \in Seq(Messages) /\ Puts(p2c, p2c', m)
        BY <1>q, <4>1, AppendPuts
      <4> QED BY <1>q, <4>1, <4>2, PutsKeep
    <3> QED BY <1>2, <3>1, <3>2, JudgesEvent
  <2> QED BY <1>q, <2>0, <2>1, <2>2, <2>3 DEF Base, Shapes, Shown, GlobalsOK
<1>3. CASE Tick
  BY <1>3, <1>q, BaseStays DEF Tick, Base, Shapes, Shown, GlobalsOK
<1>4. CASE ClientSends
  <2>1. PICK m : /\ IsRequest(m) /\ c2p' = Append(c2p, m) /\ Puts(c2p, c2p', m) /\ ClientOK'
                 /\ Aside /\ UNCHANGED <<p2s, s2p, p2c, server>>
    BY <1>4, SendsRequest
  <2>2. MapOK' /\ GlobalsOK' /\ ServerOK' /\ BoundWasShown'
    BY <2>1, BaseStays DEF Aside
  <2>3. c2p' \in Seq(Messages)
    BY <1>q, <2>1, AppendPuts DEF IsRequest
  <2>4. \A k \in 1 .. Len(c2p') : IsRequest(c2p'[k])
    BY <1>q, <2>1, PutsKeep
  <2> QED BY <1>q, <2>1, <2>2, <2>3, <2>4 DEF Base, Shapes, Shown, GlobalsOK
<1>5. CASE ClientReads
  <2>1. /\ p2c' = Tail(p2c) /\ Pops(p2c, p2c') /\ ClientOK' /\ Aside
        /\ UNCHANGED <<c2p, p2s, s2p, server>> /\ p2c # <<>>
    BY <1>5, ReadsEvent DEF ClientReads
  <2>2. MapOK' /\ GlobalsOK' /\ ServerOK' /\ BoundWasShown'
    BY <2>1, BaseStays DEF Aside
  <2>3. p2c' \in Seq(Messages)
    BY <1>q, <2>1, TailPops
  <2>4. \A k \in 1 .. Len(p2c') : IsEvent(p2c'[k])
    BY <1>q, <2>1, PopsKeep
  <2> QED BY <1>q, <2>1, <2>2, <2>3, <2>4 DEF Base, Shapes, Shown, GlobalsOK
<1>6. CASE CompositorSends
  <2>1. /\ Aside /\ UNCHANGED <<c2p, p2s, p2c, client>> /\ ServerOK' /\ Honours
        /\ s2p' \in Seq(Messages)
    BY <1>6, SendsEvent
  <2>2. MapOK' /\ ClientOK'
    BY <2>1, BaseStays DEF Aside
  <2>3. GlobalsOK' /\ BoundWasShown'
    BY <1>q, <2>1 DEF Honours, Aside, GlobalsOK, BoundWasShown, PolicyInv, Shown
  <2> QED BY <1>q, <2>1, <2>2, <2>3 DEF Base, Shapes, Shown, GlobalsOK, Honours, Vouched
<1>7. CASE CompositorReads
  <2>1. /\ Aside /\ UNCHANGED <<c2p, p2c, client>> /\ p2s' = Tail(p2s) /\ Pops(p2s, p2s')
        /\ ServerOK' /\ server'.offered = server.offered /\ p2s # <<>>
        /\ \A x \in server'.bound : x \in server.bound \/ (x \in server.offered /\ Described(x))
        /\ s2p' \in Seq(Messages)
        /\ \A k \in 1 .. Len(s2p') :
             IsEvent(s2p'[k]) /\ (s2p'[k].op = "global" => s2p'[k].name \in server.offered)
    BY <1>7, ReadsRequest DEF CompositorReads, Vouched
  <2>2. MapOK' /\ ClientOK'
    BY <2>1, BaseStays DEF Aside
  <2>3. GlobalsOK' /\ BoundWasShown'
    BY <1>q, <2>1 DEF Aside, GlobalsOK, BoundWasShown, PolicyInv, Shown
  <2>4. p2s' \in Seq(Messages)
    BY <1>q, <2>1, TailPops
  <2>5. \A k \in 1 .. Len(p2s') :
          /\ IsRequest(p2s'[k]) /\ Judged(p2s'[k])
          /\ p2s'[k].op = "bind" => p2s'[k].name \in server.offered /\ Described(p2s'[k].name)
    BY <1>q, <2>1, PopsKeep
  <2> QED BY <1>q, <2>1, <2>2, <2>3, <2>4, <2>5 DEF Base, Shapes, Shown, GlobalsOK
<1> QED BY <1>1, <1>2, <1>3, <1>4, <1>5, <1>6, <1>7 DEF PolicyNext

----------------------------------------------------------------------------
(* What the invariant says of a queue, when its head is taken.              *)

(* The head taken, every place moves by one.                               *)
LEMMA PopsIndex ==
  ASSUME NEW q, NEW r, Pops(q, r)
  PROVE  /\ 1 \in 1 .. Len(q)
         /\ \A k \in 1 .. Len(r) : k + 1 \in 1 .. Len(q) /\ k + 1 # 1 /\ q[k + 1] = r[k]
         /\ \A k \in 1 .. Len(q) : k = 1 \/ \E l \in 1 .. Len(r) : k = l + 1 /\ q[k] = r[l]
<1>1. \A k \in 1 .. Len(r) : k + 1 \in 1 .. Len(q) /\ k + 1 # 1 /\ q[k + 1] = r[k]
  BY DEF Pops
<1>2. ASSUME NEW k \in 1 .. Len(q), k # 1
      PROVE  \E l \in 1 .. Len(r) : k = l + 1 /\ q[k] = r[l]
  <2>1. k - 1 \in 1 .. Len(r) /\ k = (k - 1) + 1 /\ q[k] = r[k - 1]
    BY <1>2 DEF Pops
  <2> QED BY <2>1
<1>3. 1 \in 1 .. Len(q)
  BY DEF Pops
<1> QED BY <1>1, <1>2, <1>3

(* The same before the k-th.                                                *)
LEMMA PopsBefore ==
  ASSUME NEW q, NEW r, Pops(q, r), NEW k \in 1 .. Len(r)
  PROVE  /\ 1 \in 1 .. (k + 1) - 1
         /\ \A j \in 1 .. k - 1 : j + 1 \in 1 .. (k + 1) - 1 /\ q[j + 1] = r[j]
         /\ \A j \in 1 .. (k + 1) - 1 : j = 1 \/ \E l \in 1 .. k - 1 : j = l + 1 /\ q[j] = r[l]
<1>1. \A j \in 1 .. k - 1 : j + 1 \in 1 .. (k + 1) - 1 /\ q[j + 1] = r[j]
  BY DEF Pops
<1>2. ASSUME NEW j \in 1 .. (k + 1) - 1, j # 1
      PROVE  \E l \in 1 .. k - 1 : j = l + 1 /\ q[j] = r[l]
  <2>1. j - 1 \in 1 .. k - 1 /\ j = (j - 1) + 1 /\ q[j] = r[j - 1]
    BY <1>2 DEF Pops
  <2> QED BY <2>1
<1> QED BY <1>1, <1>2

(* Requests that make i.                                                   *)
LEMMA CreatingPops ==
  ASSUME NEW q, NEW r, Pops(q, r), NEW i
  PROVE  /\ Creating(q, i) <=> Creates(q[1], i) \/ Creating(r, i)
         /\ CreatesOnce(q, i) => /\ CreatesOnce(r, i)
                                 /\ Creates(q[1], i) => ~Creating(r, i)
<1>1. Creating(q, i) <=> Creates(q[1], i) \/ Creating(r, i)
  BY PopsIndex DEF Creating
<1>2. ASSUME CreatesOnce(q, i) PROVE CreatesOnce(r, i)
  <2> SUFFICES ASSUME NEW j \in 1 .. Len(r), NEW k \in 1 .. Len(r),
                      Creates(r[j], i), Creates(r[k], i)
               PROVE  j = k
    BY DEF CreatesOnce
  <2>1. j + 1 = k + 1
    BY <1>2, PopsIndex DEF CreatesOnce
  <2> QED BY <2>1
<1>3. ASSUME CreatesOnce(q, i), Creates(q[1], i) PROVE ~Creating(r, i)
  BY <1>3, PopsIndex DEF CreatesOnce, Creating
<1> QED BY <1>1, <1>2, <1>3

(* Events that give i back.                                                *)
LEMMA DeletingPops ==
  ASSUME NEW q, NEW r, Pops(q, r), NEW i
  PROVE  /\ Deleting(q, i) <=> Deletes(q[1], i) \/ Deleting(r, i)
         /\ DeletesOnce(q, i) => /\ DeletesOnce(r, i)
                                 /\ Deletes(q[1], i) => ~Deleting(r, i)
<1>1. Deleting(q, i) <=> Deletes(q[1], i) \/ Deleting(r, i)
  BY PopsIndex DEF Deleting
<1>2. ASSUME DeletesOnce(q, i) PROVE DeletesOnce(r, i)
  <2> SUFFICES ASSUME NEW j \in 1 .. Len(r), NEW k \in 1 .. Len(r),
                      Deletes(r[j], i), Deletes(r[k], i)
               PROVE  j = k
    BY DEF DeletesOnce
  <2>1. j + 1 = k + 1
    BY <1>2, PopsIndex DEF DeletesOnce
  <2> QED BY <2>1
<1>3. ASSUME DeletesOnce(q, i), Deletes(q[1], i) PROVE ~Deleting(r, i)
  BY <1>3, PopsIndex DEF DeletesOnce, Deleting
<1> QED BY <1>1, <1>2, <1>3

(* Requests about i, and its destructor.                                   *)
LEMMA ConcerningPops ==
  ASSUME NEW q, NEW r, Pops(q, r), NEW i
  PROVE  /\ Concerning(q, i) <=> Concerns(q[1], i) \/ Concerning(r, i)
         /\ Ending(q, i) <=> (Concerns(q[1], i) /\ q[1].op = "destroy") \/ Ending(r, i)
         /\ EndsLast(q, i) => /\ EndsLast(r, i)
                              /\ Concerns(q[1], i) /\ q[1].op = "destroy" => ~Concerning(r, i)
<1>1. Concerning(q, i) <=> Concerns(q[1], i) \/ Concerning(r, i)
  BY PopsIndex DEF Concerning
<1>2. Ending(q, i) <=> (Concerns(q[1], i) /\ q[1].op = "destroy") \/ Ending(r, i)
  <2> DEFINE E(m) == Concerns(m, i) /\ m.op = "destroy"
  <2>1. (\E k \in 1 .. Len(q) : E(q[k])) <=> E(q[1]) \/ \E k \in 1 .. Len(r) : E(r[k])
    <3> HIDE DEF E
    <3> QED BY PopsIndex
  <2> QED BY <2>1 DEF Ending
<1>3. ASSUME EndsLast(q, i) PROVE EndsLast(r, i)
  <2> SUFFICES ASSUME NEW j \in 1 .. Len(r), NEW k \in 1 .. Len(r),
                      Concerns(r[j], i), r[j].op = "destroy", Concerns(r[k], i)
               PROVE  k <= j
    BY DEF EndsLast
  <2>1. k + 1 <= j + 1
    BY <1>3, PopsIndex DEF EndsLast
  <2> QED BY <2>1
<1>4. ASSUME EndsLast(q, i), Concerns(q[1], i), q[1].op = "destroy" PROVE ~Concerning(r, i)
  <2> SUFFICES ASSUME NEW k \in 1 .. Len(r), Concerns(r[k], i) PROVE FALSE
    BY DEF Concerning
  <2>1. k + 1 <= 1
    BY <1>4, PopsIndex DEF EndsLast
  <2> QED BY <2>1
<1> QED BY <1>1, <1>2, <1>3, <1>4

(* Events that offer i.                                                    *)
LEMMA OfferingPops ==
  ASSUME NEW q, NEW r, Pops(q, r), NEW i
  PROVE  Offering(q, i) <=> Offers(q[1], i) \/ Offering(r, i)
BY PopsIndex DEF Offering

(* What comes before the k-th event.                                       *)
LEMMA OfferedPops ==
  ASSUME NEW q, NEW r, Pops(q, r), NEW i, NEW k \in 1 .. Len(r)
  PROVE  /\ k + 1 \in 1 .. Len(q) /\ r[k] = q[k + 1]
         /\ Offered(q, k + 1, i) <=> Offers(q[1], i) \/ Offered(r, k, i)
         /\ Deleted(q, k + 1, i) <=> Deletes(q[1], i) \/ Deleted(r, k, i)
<1>1. Offered(q, k + 1, i) <=> Offers(q[1], i) \/ Offered(r, k, i)
  <2>1. ASSUME Offered(q, k + 1, i) PROVE Offers(q[1], i) \/ Offered(r, k, i)
    BY <2>1, PopsBefore DEF Offered
  <2>2. ASSUME Offered(r, k, i) PROVE Offered(q, k + 1, i)
    BY <2>2, PopsBefore DEF Offered
  <2>3. ASSUME Offers(q[1], i) PROVE Offered(q, k + 1, i)
    BY <2>3, PopsBefore DEF Offered
  <2> QED BY <2>1, <2>2, <2>3
<1>2. Deleted(q, k + 1, i) <=> Deletes(q[1], i) \/ Deleted(r, k, i)
  <2>1. ASSUME Deleted(q, k + 1, i) PROVE Deletes(q[1], i) \/ Deleted(r, k, i)
    BY <2>1, PopsBefore DEF Deleted
  <2>2. ASSUME Deleted(r, k, i) PROVE Deleted(q, k + 1, i)
    BY <2>2, PopsBefore DEF Deleted
  <2>3. ASSUME Deletes(q[1], i) PROVE Deleted(q, k + 1, i)
    BY <2>3, PopsBefore DEF Deleted
  <2> QED BY <2>1, <2>2, <2>3
<1> QED BY <1>1, <1>2, PopsIndex

(* What comes before the k-th request.                                     *)
LEMMA CreatedPops ==
  ASSUME NEW q, NEW r, Pops(q, r), NEW i, NEW f
  PROVE  /\ CreatingAs(q, i, f) <=> (Creates(q[1], i) /\ Makes(q[1]) = f) \/ CreatingAs(r, i, f)
         /\ \A k \in 1 .. Len(r) :
              /\ k + 1 \in 1 .. Len(q) /\ r[k] = q[k + 1]
              /\ CreatedAs(q, k + 1, i, f)
                   <=> (Creates(q[1], i) /\ Makes(q[1]) = f) \/ CreatedAs(r, k, i, f)
<1>1. CreatingAs(q, i, f) <=> (Creates(q[1], i) /\ Makes(q[1]) = f) \/ CreatingAs(r, i, f)
  <2> DEFINE E(m) == Creates(m, i) /\ Makes(m) = f
  <2>1. (\E k \in 1 .. Len(q) : E(q[k])) <=> E(q[1]) \/ \E k \in 1 .. Len(r) : E(r[k])
    <3> HIDE DEF E
    <3> QED BY PopsIndex
  <2> QED BY <2>1 DEF CreatingAs
<1>2. ASSUME NEW k \in 1 .. Len(r)
      PROVE  CreatedAs(q, k + 1, i, f)
               <=> (Creates(q[1], i) /\ Makes(q[1]) = f) \/ CreatedAs(r, k, i, f)
  BY PopsBefore DEF CreatedAs
<1> QED BY <1>1, <1>2, PopsIndex

(* And when a message is put behind it.                                     *)

(* Requests that make i.                                                   *)
LEMMA CreatingPuts ==
  ASSUME NEW q, NEW r, NEW m, Puts(q, r, m), NEW i
  PROVE  /\ Creating(r, i) <=> Creating(q, i) \/ Creates(m, i)
         /\ CreatesOnce(q, i) /\ ~(Creating(q, i) /\ Creates(m, i)) => CreatesOnce(r, i)
BY DEF Puts, Creating, CreatesOnce

(* Events that give i back.                                                *)
LEMMA DeletingPuts ==
  ASSUME NEW q, NEW r, NEW m, Puts(q, r, m), NEW i
  PROVE  /\ Deleting(r, i) <=> Deleting(q, i) \/ Deletes(m, i)
         /\ DeletesOnce(q, i) /\ ~(Deleting(q, i) /\ Deletes(m, i)) => DeletesOnce(r, i)
BY DEF Puts, Deleting, DeletesOnce

(* Requests about i, and its destructor.                                   *)
LEMMA ConcerningPuts ==
  ASSUME NEW q, NEW r, NEW m, Puts(q, r, m), NEW i
  PROVE  /\ Concerning(r, i) <=> Concerning(q, i) \/ Concerns(m, i)
         /\ Ending(r, i) <=> Ending(q, i) \/ (Concerns(m, i) /\ m.op = "destroy")
         /\ EndsLast(q, i) /\ ~(Ending(q, i) /\ Concerns(m, i)) => EndsLast(r, i)
BY DEF Puts, Concerning, Ending, EndsLast

(* Events that offer i, and what comes before the k-th.                    *)
LEMMA OfferingPuts ==
  ASSUME NEW q, NEW r, NEW m, Puts(q, r, m), NEW i
  PROVE  /\ Offering(r, i) <=> Offering(q, i) \/ Offers(m, i)
         /\ Offered(r, Len(r), i) <=> Offering(q, i)
         /\ Deleted(r, Len(r), i) <=> Deleting(q, i)
         /\ \A k \in 1 .. Len(r) : \/ k = Len(r) /\ r[k] = m
                                   \/ /\ k \in 1 .. Len(q) /\ r[k] = q[k]
                                      /\ Offered(r, k, i) <=> Offered(q, k, i)
                                      /\ Deleted(r, k, i) <=> Deleted(q, k, i)
BY DEF Puts, Offering, Offered, Deleted, Deleting

(* Requests that make i of interface f, and what comes before the k-th.    *)
LEMMA CreatedPuts ==
  ASSUME NEW q, NEW r, NEW m, Puts(q, r, m), NEW i, NEW f
  PROVE  /\ CreatingAs(r, i, f) <=> CreatingAs(q, i, f) \/ (Creates(m, i) /\ Makes(m) = f)
         /\ CreatedAs(r, Len(r), i, f) <=> CreatingAs(q, i, f)
         /\ \A k \in 1 .. Len(r) : \/ k = Len(r) /\ r[k] = m
                                   \/ /\ k \in 1 .. Len(q) /\ r[k] = q[k]
                                      /\ CreatedAs(r, k, i, f) <=> CreatedAs(q, k, i, f)
BY DEF Puts, CreatingAs, CreatedAs

----------------------------------------------------------------------------
(* A client that keeps the protocol, step by step.                          *)

Serving == PolicyInv /\ client.honest /\ closed = "no"

(* The head of c2p makes an object: the id moves from asked for to mapped,  *)
(* on its way to the compositor.                                            *)
LEMMA CreateServes ==
  ASSUME Serving, LetsCreate, 1 \in 1 .. Len(c2p)
  PROVE  InProtocol'
<1> DEFINE m == c2p[1]
           i == c2p[1].new
<1>1. /\ OnePlace /\ Once /\ Decodable /\ LastWords /\ Announced
      /\ Pops(c2p, c2p') /\ Puts(p2s, p2s', m) /\ Gains(i, Makes(m))
      /\ s2p' = s2p /\ p2c' = p2c /\ client' = client /\ server' = server
  BY DEF LetsCreate, Stays, Serving, PolicyInv, InProtocol
<1>2. /\ i \in ClientIds /\ i \notin DOMAIN objects /\ Creates(m, i) /\ Asked(i)
      /\ \A x : ~Concerns(m, x) /\ (Creates(m, x) => x = i)
  BY DEF LetsCreate, Creates, Asked, Creating, Concerns
<1> HIDE DEF m, i
<1>3. ASSUME NEW x
      PROVE  /\ Asked(x) <=> x = i \/ Asked(x)'
             /\ CreatesOnce(c2p, x) => CreatesOnce(c2p, x)' /\ (x = i => ~Asked(x)')
             /\ Passed(x)' <=> Passed(x) \/ x = i
             /\ CreatesOnce(p2s, x) /\ (x = i => ~Passed(x)) => CreatesOnce(p2s, x)'
             /\ Given(x)' <=> Given(x)
             /\ Freed(x)' <=> Freed(x)
             /\ Concerning(c2p, x)' <=> Concerning(c2p, x)
             /\ Concerning(p2s, x)' <=> Concerning(p2s, x)
             /\ Ending(c2p, x)' <=> Ending(c2p, x)
             /\ Ending(p2s, x)' <=> Ending(p2s, x)
             /\ EndsLast(c2p, x) => EndsLast(c2p, x)'
             /\ EndsLast(p2s, x) => EndsLast(p2s, x)'
             /\ Quiet(x) <=> Quiet(x)'
  <2>1. /\ Asked(x) <=> x = i \/ Asked(x)'
        /\ CreatesOnce(c2p, x) => CreatesOnce(c2p, x)' /\ (x = i => ~Asked(x)')
    BY <1>1, <1>2, CreatingPops DEF Asked, m
  <2>2. /\ Passed(x)' <=> Passed(x) \/ x = i
        /\ CreatesOnce(p2s, x) /\ (x = i => ~Passed(x)) => CreatesOnce(p2s, x)'
    BY <1>1, <1>2, CreatingPuts DEF Passed
  <2>3. /\ Concerning(c2p, x)' <=> Concerning(c2p, x)
        /\ Ending(c2p, x)' <=> Ending(c2p, x)
        /\ EndsLast(c2p, x) => EndsLast(c2p, x)'
    BY <1>1, <1>2, ConcerningPops DEF m
  <2>4. /\ Concerning(p2s, x)' <=> Concerning(p2s, x)
        /\ Ending(p2s, x)' <=> Ending(p2s, x)
        /\ EndsLast(p2s, x) => EndsLast(p2s, x)'
    BY <1>1, <1>2, ConcerningPuts
  <2>5. (Given(x)' <=> Given(x)) /\ (Freed(x)' <=> Freed(x))
    BY <1>1 DEF Given, Freed, Deleting
  <2>6. Quiet(x) <=> Quiet(x)'
    BY <1>1, <2>3 DEF Quiet
  <2> QED BY <2>1, <2>2, <2>3, <2>4, <2>5, <2>6
<1> HIDE DEF Asked, Passed, Given, Freed, Quiet
<1>4. OnePlace'
  BY <1>1, <1>2, <1>3 DEF OnePlace, Once, Gains
<1>5. Once'
  BY <1>1, <1>2, <1>3 DEF OnePlace, Once
<1>6. LastWords'
  BY <1>1, <1>2, <1>3 DEF LastWords
<1>7. \A x, f : Mapped(x, f)' <=> Mapped(x, f) \/ (x = i /\ f = Makes(m))
  BY <1>1, <1>2 DEF Mapped, Gains
<1>8. \A x, f : CreatingAs(c2p, x, f) =>
                  Mapped(x, f)' \/ CreatingAs(c2p, x, f)'
  BY <1>1, <1>2, <1>7, CreatedPops DEF m
<1>9. Awaited'
  <2> SUFFICES ASSUME NEW k \in 1 .. Len(c2p'), NEW x \in Ids, Concerns(c2p'[k], x)
               PROVE  \E f \in Faces : /\ Answers(c2p'[k], f)
                                       /\ Mapped(x, f)' \/ CreatedAs(c2p', k, x, f)
    BY DEF Awaited
  <2>1. k + 1 \in 1 .. Len(c2p) /\ c2p'[k] = c2p[k + 1]
    BY <1>1, CreatedPops
  <2>2. PICK f \in Faces : /\ Answers(c2p[k + 1], f)
                           /\ Mapped(x, f) \/ CreatedAs(c2p, k + 1, x, f)
    BY <1>1, <2>1 DEF Decodable, Awaited
  <2>3. CreatedAs(c2p, k + 1, x, f) => Mapped(x, f)' \/ CreatedAs(c2p', k, x, f)
    BY <1>1, <1>2, <1>7, CreatedPops DEF m
  <2> QED BY <1>7, <2>1, <2>2, <2>3
<1>10. Arrived'
  BY <1>1, <1>2, <1>3, <1>7 DEF Decodable, Arrived, Gains
<1>11. Held'
  BY <1>1, <1>7, <1>8 DEF Decodable, Held
<1>12. OwnRange'
  BY <1>1, <1>3 DEF Decodable, OwnRange
<1>13. Announced'
  <2>1. \A x, v : Known(x, v) => Known(x, v)'
    BY <1>1, <1>2 DEF Known, Gains
  <2>2. Foretold'
    BY <1>1, <2>1 DEF Announced, Foretold, Offered, Deleted
  <2>3. Agreed'
    BY <1>1, <1>7 DEF Announced, Agreed, Offering
  <2>4. \A x \in ClientIds, f \in Faces : CreatingAs(p2s, x, f)' => Mapped(x, f)'
    BY <1>1, <1>2, <1>7, CreatedPuts DEF Announced, Promised
  <2>5. \A x : Offering(p2c, x)' <=> Offering(p2c, x)
    BY <1>1 DEF Offering
  <2>6. Promised'
    BY <1>1, <1>7, <2>4, <2>5 DEF Announced, Promised
  <2> QED BY <2>2, <2>3, <2>6 DEF Announced
<1> QED BY <1>4, <1>5, <1>6, <1>9, <1>10, <1>11, <1>12, <1>13 DEF InProtocol, Decodable

(* The head of c2p goes through to the compositor, or a read the gate denies *)
(* is dropped: the map stays, and what comes last in c2p comes last in p2s.  *)
LEMMA PassServes ==
  ASSUME Serving, LetsPass \/ LetsDrop, 1 \in 1 .. Len(c2p)
  PROVE  InProtocol'
<1> DEFINE m == c2p[1]
<1>1. /\ OnePlace /\ Once /\ Decodable /\ LastWords /\ Announced
      /\ Pops(c2p, c2p') /\ SameMap /\ m.op \in {"receive", "destroy"}
      /\ s2p' = s2p /\ p2c' = p2c /\ client' = client /\ server' = server
  BY DEF LetsPass, LetsDrop, Stays, Serving, PolicyInv, InProtocol
<1>2. /\ \A x, f : Mapped(x, f)' <=> Mapped(x, f)
      /\ \A x, v : Known(x, v)' <=> Known(x, v)
      /\ DOMAIN objects' = DOMAIN objects
  BY <1>1 DEF SameMap, Mapped, Known
<1>3. \A x : ~Creates(m, x)
  BY <1>1 DEF Creates
<1>4. \/ p2s' = p2s
      \/ Puts(p2s, p2s', m) /\ m.obj \in DOMAIN objects /\ objects[m.obj].iface # "callback"
  BY DEF LetsPass, LetsDrop
<1>5. \A x : Concerns(m, x) => x = m.obj /\ Concerning(c2p, x)
  BY DEF Concerns, Concerning
<1> HIDE DEF m
<1>6. ASSUME NEW x
      PROVE  /\ Asked(x)' <=> Asked(x)
             /\ CreatesOnce(c2p, x) => CreatesOnce(c2p, x)'
             /\ Passed(x)' <=> Passed(x)
             /\ CreatesOnce(p2s, x) => CreatesOnce(p2s, x)'
             /\ \A f : CreatingAs(c2p, x, f)' <=> CreatingAs(c2p, x, f)
             /\ \A f : CreatingAs(p2s, x, f)' <=> CreatingAs(p2s, x, f)
  <2>1. (Asked(x)' <=> Asked(x)) /\ (CreatesOnce(c2p, x) => CreatesOnce(c2p, x)')
    BY <1>1, <1>3, CreatingPops DEF Asked, m
  <2>2. (Passed(x)' <=> Passed(x)) /\ (CreatesOnce(p2s, x) => CreatesOnce(p2s, x)')
    BY <1>3, <1>4, CreatingPuts DEF Passed
  <2>3. \A f : CreatingAs(c2p, x, f)' <=> CreatingAs(c2p, x, f)
    BY <1>1, <1>3, CreatedPops DEF m
  <2>4. \A f : CreatingAs(p2s, x, f)' <=> CreatingAs(p2s, x, f)
    BY <1>3, <1>4, CreatedPuts
  <2> QED BY <2>1, <2>2, <2>3, <2>4
<1>7. ASSUME NEW x
      PROVE  /\ Concerning(c2p, x) <=> Concerns(m, x) \/ Concerning(c2p, x)'
             /\ Ending(c2p, x) <=> (Concerns(m, x) /\ m.op = "destroy") \/ Ending(c2p, x)'
             /\ EndsLast(c2p, x) =>
                  /\ EndsLast(c2p, x)'
                  /\ Concerns(m, x) /\ m.op = "destroy" => ~Concerning(c2p, x)'
             /\ Concerning(p2s, x)' => Concerning(p2s, x) \/ (Concerns(m, x) /\ p2s' # p2s)
             /\ Ending(p2s, x)' => Ending(p2s, x) \/ (Concerns(m, x) /\ m.op = "destroy")
             /\ EndsLast(p2s, x) /\ ~(Ending(p2s, x) /\ Concerns(m, x)) => EndsLast(p2s, x)'
  <2>1. /\ Concerning(c2p, x) <=> Concerns(m, x) \/ Concerning(c2p, x)'
        /\ Ending(c2p, x) <=> (Concerns(m, x) /\ m.op = "destroy") \/ Ending(c2p, x)'
        /\ EndsLast(c2p, x) => /\ EndsLast(c2p, x)'
                               /\ Concerns(m, x) /\ m.op = "destroy" => ~Concerning(c2p, x)'
    BY <1>1, ConcerningPops DEF m
  <2>2. CASE p2s' = p2s
    BY <2>1, <2>2
  <2>3. CASE Puts(p2s, p2s', m)
    <3>1. p2s' # p2s
      BY <2>3 DEF Puts
    <3> QED BY <2>1, <2>3, <3>1, ConcerningPuts
  <2> QED BY <1>4, <2>2, <2>3
<1>8. \A x : (Given(x)' <=> Given(x)) /\ (Freed(x)' <=> Freed(x))
  BY <1>1 DEF Given, Freed, Deleting
<1>9. /\ \A x : Quiet(x) => Quiet(x)' /\ ~Concerns(m, x)
      /\ \A x \in ClientIds : Concerns(m, x) /\ m.op = "destroy" => Quiet(x)'
  <2>1. \A x : Quiet(x) => Quiet(x)' /\ ~Concerns(m, x)
    BY <1>1, <1>5, <1>7 DEF Quiet
  <2>2. ASSUME NEW x \in ClientIds, Concerns(m, x), m.op = "destroy" PROVE Quiet(x)'
    BY <1>1, <1>7, <2>2 DEF Quiet, LastWords
  <2> QED BY <2>1, <2>2
<1> HIDE DEF Asked, Passed, Given, Freed, Quiet, Mapped, Known
<1>10. OnePlace'
  BY <1>1, <1>2, <1>6, <1>8 DEF OnePlace
<1>11. Once'
  BY <1>1, <1>6 DEF Once
<1>12. LastWords'
  BY <1>1, <1>7, <1>8, <1>9 DEF LastWords
<1>13. Awaited'
  <2> SUFFICES ASSUME NEW k \in 1 .. Len(c2p'), NEW x \in Ids, Concerns(c2p'[k], x)
               PROVE  \E f \in Faces : /\ Answers(c2p'[k], f)
                                       /\ Mapped(x, f)' \/ CreatedAs(c2p', k, x, f)
    BY DEF Awaited
  <2>1. k + 1 \in 1 .. Len(c2p) /\ c2p'[k] = c2p[k + 1]
    BY <1>1, CreatedPops
  <2>2. PICK f \in Faces : /\ Answers(c2p[k + 1], f)
                           /\ Mapped(x, f) \/ CreatedAs(c2p, k + 1, x, f)
    BY <1>1, <2>1 DEF Decodable, Awaited
  <2>3. CreatedAs(c2p, k + 1, x, f) => CreatedAs(c2p', k, x, f)
    BY <1>1, <1>3, CreatedPops DEF m
  <2> QED BY <1>2, <2>1, <2>2, <2>3
<1>14. Arrived'
  <2> SUFFICES ASSUME NEW x \in Ids, Concerning(p2s, x)'
               PROVE  x \in DOMAIN objects' /\ ~Mapped(x, "callback")'
    BY DEF Arrived
  <2>1. CASE Concerning(p2s, x)
    BY <1>1, <1>2, <2>1 DEF Decodable, Arrived
  <2>2. CASE Concerns(m, x) /\ p2s' # p2s
    BY <1>2, <1>4, <1>5, <2>2 DEF Mapped
  <2> QED BY <1>7, <2>1, <2>2
<1>15. Held'
  BY <1>1, <1>2, <1>6 DEF Decodable, Held
<1>16. OwnRange'
  BY <1>1, <1>6 DEF Decodable, OwnRange
<1>17. Announced'
  <2>1. Foretold'
    BY <1>1, <1>2 DEF Announced, Foretold, Offered, Deleted
  <2>2. Agreed'
    BY <1>1, <1>2 DEF Announced, Agreed, Offering
  <2>3. Promised'
    BY <1>1, <1>2, <1>6 DEF Announced, Promised, Offering
  <2> QED BY <2>1, <2>2, <2>3 DEF Announced
<1> QED BY <1>10, <1>11, <1>12, <1>13, <1>14, <1>15, <1>16, <1>17 DEF InProtocol, Decodable

(* The head of s2p is heard, or makes an offer of the compositor's: the map  *)
(* only gains that offer, before any event about it is judged.               *)
LEMMA HearServes ==
  ASSUME Serving, LetsHear \/ LetsOffer, 1 \in 1 .. Len(s2p)
  PROVE  InProtocol'
<1> DEFINE m == s2p[1]
<1>1. /\ OnePlace /\ Once /\ Decodable /\ LastWords /\ Announced /\ MapOK
      /\ Pops(s2p, s2p') /\ c2p' = c2p /\ p2s' = p2s /\ client' = client /\ server' = server
  BY DEF LetsHear, LetsOffer, Stays, Serving, PolicyInv, InProtocol
<1>2. \/ m.op \in Plain /\ SameMap
         /\ (p2c' = p2c \/ \E n \in Messages : n.op \in Plain /\ Puts(p2c, p2c', n))
      \/ m.op = "data_offer" /\ m.new \in ServerIds /\ Gains(m.new, "offer") /\ Puts(p2c, p2c', m)
  BY DEF LetsHear, LetsOffer
<1> HIDE DEF m
<1>3. \A x : ~Deletes(m, x)
  BY <1>2 DEF Deletes, Plain
<1>4. ASSUME NEW x
      PROVE  /\ x \in ClientIds => (x \in DOMAIN objects' <=> x \in DOMAIN objects)
             /\ \A f : Mapped(x, f) => Mapped(x, f)'
             /\ \A v : Known(x, v) => Known(x, v)'
             /\ Mapped(x, "callback")' => Mapped(x, "callback")
             /\ x \in DOMAIN objects => x \in DOMAIN objects'
             /\ Offers(m, x) => Mapped(x, "offer")'
  <2>1. CASE SameMap /\ m.op \in Plain
    BY <2>1 DEF SameMap, Mapped, Known, Offers, Plain
  <2>2. CASE m.op = "data_offer" /\ m.new \in ServerIds /\ Gains(m.new, "offer")
    <3>1. x = m.new => Mapped(x, "offer")' /\ (x \in DOMAIN objects => objects[x].iface = "offer")
      BY <1>1, <2>2 DEF MapOK, Gains, Mapped
    <3>2. x # m.new => /\ x \in DOMAIN objects' <=> x \in DOMAIN objects
                       /\ x \in DOMAIN objects => objects'[x].iface = objects[x].iface
      BY <2>2 DEF Gains
    <3>3. m.new \notin ClientIds
      BY <2>2, IdsAssumption
    <3> QED BY <3>1, <3>2, <3>3 DEF Mapped, Known, Offers
  <2> QED BY <1>2, <2>1, <2>2
<1>5. ASSUME NEW x
      PROVE  /\ Given(x) <=> Given(x)'
             /\ DeletesOnce(s2p, x) => DeletesOnce(s2p, x)'
             /\ Freed(x)' <=> Freed(x)
             /\ DeletesOnce(p2c, x) => DeletesOnce(p2c, x)'
             /\ Offering(p2c, x)' => Offering(p2c, x) \/ Offers(m, x)
  <2>1. (Given(x) <=> Given(x)') /\ (DeletesOnce(s2p, x) => DeletesOnce(s2p, x)')
    BY <1>1, <1>3, DeletingPops DEF Given, m
  <2>2. CASE p2c' = p2c
    BY <2>1, <2>2 DEF Freed
  <2>3. ASSUME NEW n, Puts(p2c, p2c', n), \A y : ~Deletes(n, y), Offers(n, x) => Offers(m, x)
        PROVE  /\ Freed(x)' <=> Freed(x)
               /\ DeletesOnce(p2c, x) => DeletesOnce(p2c, x)'
               /\ Offering(p2c, x)' => Offering(p2c, x) \/ Offers(m, x)
    BY <2>3, DeletingPuts, OfferingPuts DEF Freed
  <2>4. \A n : n.op \in Plain => ~Offers(n, x) /\ \A y : ~Deletes(n, y)
    BY DEF Plain, Offers, Deletes
  <2> QED BY <1>2, <1>3, <2>1, <2>2, <2>3, <2>4
<1>6. ASSUME NEW x
      PROVE  /\ Asked(x)' <=> Asked(x)
             /\ Passed(x)' <=> Passed(x)
             /\ Quiet(x)' <=> Quiet(x)
             /\ Concerning(p2s, x)' <=> Concerning(p2s, x)
             /\ \A f : CreatingAs(c2p, x, f)' <=> CreatingAs(c2p, x, f)
             /\ \A f : CreatingAs(p2s, x, f)' <=> CreatingAs(p2s, x, f)
  BY <1>1 DEF Asked, Passed, Quiet, Creating, Concerning, CreatingAs
<1> HIDE DEF Asked, Passed, Given, Freed, Quiet, Mapped, Known
<1>7. OnePlace'
  BY <1>1, <1>4, <1>5, <1>6 DEF OnePlace
<1>8. Once'
  BY <1>1, <1>5 DEF Once, CreatesOnce
<1>9. LastWords'
  BY <1>1, <1>5, <1>6 DEF LastWords, EndsLast, Ending, Concerning
<1>10. Awaited'
  BY <1>1, <1>4 DEF Decodable, Awaited, CreatedAs
<1>11. Arrived' /\ Held' /\ OwnRange'
  BY <1>1, <1>4, <1>6 DEF Decodable, Arrived, Held, OwnRange
<1>12. Foretold'
  <2> SUFFICES ASSUME NEW k \in 1 .. Len(s2p'), NEW x \in Ids, About(s2p'[k], x)
               PROVE  /\ \/ Known(x, s2p[k].since)'
                         \/ s2p'[k].since <= Table["offer"] /\ Offered(s2p', k, x)
                      /\ ~Deleted(s2p', k, x)
    BY DEF Foretold
  <2>1. k + 1 \in 1 .. Len(s2p) /\ s2p'[k] = s2p[k + 1]
        /\ (Offered(s2p, k + 1, x) <=> Offers(m, x) \/ Offered(s2p', k, x))
        /\ (Deleted(s2p, k + 1, x) <=> Deletes(m, x) \/ Deleted(s2p', k, x))
    BY <1>1, OfferedPops DEF m
  <2>2. /\ \/ Known(x, s2p[k + 1].since)
           \/ s2p[k + 1].since <= Table["offer"] /\ Offered(s2p, k + 1, x)
        /\ ~Deleted(s2p, k + 1, x)
    BY <1>1, <2>1 DEF Announced, Foretold
  <2>3. ASSUME Offers(m, x), s2p'[k].since <= Table["offer"] PROVE Known(x, s2p[k].since)'
    BY <1>4, <2>3 DEF Known, Mapped
  <2> QED BY <1>4, <2>1, <2>2, <2>3 DEF Known
<1>13. Agreed'
  <2>1. \A x : Offering(s2p, x) => Offers(m, x) \/ Offering(s2p, x)'
    BY <1>1, OfferingPops DEF m
  <2> QED BY <1>1, <1>4, <2>1 DEF Announced, Agreed
<1>14. Promised'
  BY <1>1, <1>4, <1>5, <1>6 DEF Announced, Promised
<1> QED BY <1>7, <1>8, <1>9, <1>10, <1>11, <1>12, <1>13, <1>14 DEF InProtocol, Decodable, Announced

(* The head of s2p gives an id back: nothing concerns it any more, so the    *)
(* map forgets it while the client has yet to hear.                          *)
LEMMA DeleteServes ==
  ASSUME Serving, LetsDelete, 1 \in 1 .. Len(s2p)
  PROVE  InProtocol'
<1> DEFINE m == s2p[1]
           i == s2p[1].name
<1>1. /\ OnePlace /\ Once /\ Decodable /\ LastWords /\ Announced /\ Loses(i)
      /\ Pops(s2p, s2p') /\ Puts(p2c, p2c', m)
      /\ c2p' = c2p /\ p2s' = p2s /\ client' = client /\ server' = server
  BY DEF LetsDelete, Stays, Serving, PolicyInv, InProtocol
<1>2. i \in ClientIds /\ Given(i) /\ \A x : Deletes(m, x) <=> x = i
  <2>1. IsEvent(m) /\ m.op = "delete_id"
    BY DEF LetsDelete, Serving, PolicyInv, Shapes
  <2> QED BY <2>1 DEF IsEvent, Deletes, Given, Deleting
<1>3. /\ i \in DOMAIN objects /\ ~Asked(i) /\ ~Passed(i) /\ ~Freed(i) /\ i \notin client.free
      /\ i \notin DOMAIN server.objs /\ Quiet(i) /\ ~Concerning(p2s, i)
  BY <1>1, <1>2 DEF OnePlace, LastWords
<1>4. \A x : ~Offers(m, x)
  BY DEF LetsDelete, Offers
<1> HIDE DEF m, i
<1>5. ASSUME NEW x
      PROVE  /\ x \in DOMAIN objects' <=> x \in DOMAIN objects /\ x # i
             /\ \A f : Mapped(x, f)' <=> Mapped(x, f) /\ x # i
             /\ \A v : x # i => (Known(x, v)' <=> Known(x, v))
  BY <1>1 DEF Loses, Mapped, Known
<1>6. ASSUME NEW x
      PROVE  /\ Given(x) <=> Given(x)' \/ x = i
             /\ DeletesOnce(s2p, x) => DeletesOnce(s2p, x)' /\ (x = i => ~Given(x)')
             /\ Freed(x)' <=> Freed(x) \/ x = i
             /\ DeletesOnce(p2c, x) /\ (x = i => ~Freed(x)) => DeletesOnce(p2c, x)'
             /\ Offering(p2c, x)' <=> Offering(p2c, x)
             /\ Offering(s2p, x)' <=> Offering(s2p, x)
  <2>1. /\ Given(x) <=> Given(x)' \/ x = i
        /\ DeletesOnce(s2p, x) => DeletesOnce(s2p, x)' /\ (x = i => ~Given(x)')
    BY <1>1, <1>2, DeletingPops DEF Given, m
  <2>2. /\ Freed(x)' <=> Freed(x) \/ x = i
        /\ DeletesOnce(p2c, x) /\ (x = i => ~Freed(x)) => DeletesOnce(p2c, x)'
    BY <1>1, <1>2, DeletingPuts DEF Freed
  <2>3. Offering(p2c, x)' <=> Offering(p2c, x)
    BY <1>1, <1>4, OfferingPuts
  <2>4. Offering(s2p, x)' <=> Offering(s2p, x)
    BY <1>1, <1>4, OfferingPops DEF m
  <2> QED BY <2>1, <2>2, <2>3, <2>4
<1>7. ASSUME NEW x
      PROVE  /\ Asked(x)' <=> Asked(x)
             /\ Passed(x)' <=> Passed(x)
             /\ Quiet(x)' <=> Quiet(x)
             /\ Concerning(p2s, x)' <=> Concerning(p2s, x)
             /\ \A f : CreatingAs(c2p, x, f)' <=> CreatingAs(c2p, x, f)
             /\ \A f : CreatingAs(p2s, x, f)' <=> CreatingAs(p2s, x, f)
  BY <1>1 DEF Asked, Passed, Quiet, Creating, Concerning, CreatingAs
<1>8. ~Concerning(c2p, i) /\ (i \in DOMAIN client.objs => client.objs[i] = "callback")
  BY <1>3 DEF Quiet
<1>9. \A f : ~CreatingAs(p2s, i, f)
  BY <1>3 DEF CreatingAs, Passed, Creating
<1> HIDE DEF Asked, Passed, Given, Freed, Quiet, Mapped, Known
<1>10. OnePlace'
  BY <1>1, <1>3, <1>5, <1>6, <1>7 DEF OnePlace, Once
<1>11. Once'
  BY <1>1, <1>3, <1>6 DEF Once, CreatesOnce
<1>12. LastWords'
  BY <1>1, <1>6, <1>7 DEF LastWords, EndsLast, Ending, Concerning
<1>13. Awaited'
  <2>1. \A k \in 1 .. Len(c2p) : ~Concerns(c2p[k], i)
    BY <1>8 DEF Concerning
  <2> QED BY <1>1, <1>5, <2>1 DEF Decodable, Awaited, CreatedAs
<1>14. Arrived' /\ Held' /\ OwnRange'
  BY <1>1, <1>3, <1>5, <1>7, <1>8 DEF Decodable, Arrived, Held, OwnRange
<1>15. Foretold'
  <2> SUFFICES ASSUME NEW k \in 1 .. Len(s2p'), NEW x \in Ids, About(s2p'[k], x)
               PROVE  /\ \/ Known(x, s2p[k].since)'
                         \/ s2p'[k].since <= Table["offer"] /\ Offered(s2p', k, x)
                      /\ ~Deleted(s2p', k, x)
    BY DEF Foretold
  <2>1. k + 1 \in 1 .. Len(s2p) /\ s2p'[k] = s2p[k + 1]
        /\ (Offered(s2p, k + 1, x) <=> Offers(m, x) \/ Offered(s2p', k, x))
        /\ (Deleted(s2p, k + 1, x) <=> Deletes(m, x) \/ Deleted(s2p', k, x))
    BY <1>1, OfferedPops DEF m
  <2>2. /\ \/ Known(x, s2p[k + 1].since)
           \/ s2p[k + 1].since <= Table["offer"] /\ Offered(s2p, k + 1, x)
        /\ ~Deleted(s2p, k + 1, x)
    BY <1>1, <2>1 DEF Announced, Foretold
  <2> QED BY <1>2, <1>4, <1>5, <2>1, <2>2 DEF Known
<1>16. Agreed'
  <2>1. i \notin ServerIds
    BY <1>2, IdsAssumption
  <2> QED BY <1>1, <1>3, <1>5, <1>6, <2>1 DEF Announced, Agreed
<1>17. Promised'
  <2>1. i \notin ServerIds
    BY <1>2, IdsAssumption
  <2> QED BY <1>1, <1>5, <1>6, <1>7, <1>9, <2>1 DEF Announced, Promised
<1> QED BY <1>10, <1>11, <1>12, <1>13, <1>14, <1>15, <1>16, <1>17
        DEF InProtocol, Decodable, Announced

(* What a step of an end that leaves the map and the sockets beyond the      *)
(* proxy alone leaves alone.                                                 *)
LEMMA AsideKeeps ==
  ASSUME Aside
  PROVE  /\ DOMAIN objects' = DOMAIN objects
         /\ \A x, f : Mapped(x, f)' <=> Mapped(x, f)
         /\ \A x, v : Known(x, v)' <=> Known(x, v)
BY DEF Aside, Mapped, Known

(* What the compositor knows and says is as it was, and so agrees.          *)
LEMMA BeyondKeeps ==
  ASSUME Announced, Aside, UNCHANGED <<p2s, s2p, p2c, server>>
  PROVE  Announced'
<1>1. Foretold'
  BY DEF Announced, Foretold, Aside, Known, Offered, Deleted
<1>2. Agreed'
  BY DEF Announced, Agreed, Aside, Mapped, Offering
<1>3. Promised'
  BY DEF Announced, Promised, Aside, Mapped, Offering, CreatingAs
<1> QED BY <1>1, <1>2, <1>3 DEF Announced

(* The client asks for a new object: a free id becomes one asked for.        *)
LEMMA AskServes ==
  ASSUME Serving, NEW m, IsRequest(m), Puts(c2p, c2p', m), ClientAsks(m),
         Aside, UNCHANGED <<p2s, s2p, p2c, server>>
  PROVE  InProtocol'
<1> DEFINE i == m.new
<1>1. /\ OnePlace /\ Once /\ Decodable /\ LastWords /\ Announced /\ ClientOK
      /\ Puts(c2p, c2p', m)
  BY DEF Serving, PolicyInv, InProtocol
<1>2. /\ i \in client.free /\ i \in ClientIds /\ \A x : (Creates(m, x) <=> x = i) /\ ~Concerns(m, x)
      /\ client'.free = client.free \ {i}
      /\ Adds(client.objs, client'.objs, i, Makes(m))
  BY <1>1 DEF ClientAsks, Creates, Concerns, ClientOK
<1>3. ~Asked(i) /\ ~Freed(i) /\ i \notin DOMAIN objects /\ ~Given(i)
  BY <1>1, <1>2 DEF OnePlace
<1> HIDE DEF i
<1>4. ASSUME NEW x
      PROVE  /\ Asked(x)' <=> Asked(x) \/ x = i
             /\ CreatesOnce(c2p, x) /\ ~(Asked(x) /\ x = i) => CreatesOnce(c2p, x)'
             /\ Concerning(c2p, x)' <=> Concerning(c2p, x)
             /\ Ending(c2p, x)' <=> Ending(c2p, x)
             /\ EndsLast(c2p, x) => EndsLast(c2p, x)'
             /\ \A f : CreatingAs(c2p, x, f)' <=> CreatingAs(c2p, x, f) \/ (x = i /\ Makes(m) = f)
  BY <1>1, <1>2, CreatingPuts, ConcerningPuts, CreatedPuts DEF Asked
<1>5. ASSUME NEW x
      PROVE  /\ Passed(x)' <=> Passed(x)
             /\ Given(x)' <=> Given(x)
             /\ Freed(x)' <=> Freed(x)
  BY DEF Passed, Given, Freed
<1>6. ~Concerning(c2p, i) /\ ~Concerning(p2s, i) /\ i \in Ids
  <2>0. i \in Ids
    BY <1>2 DEF Ids
  <2>1. ~Concerning(p2s, i)
    BY <1>1, <1>3, <2>0 DEF Decodable, Arrived
  <2>2. ASSUME NEW k \in 1 .. Len(c2p), Concerns(c2p[k], i) PROVE FALSE
    <3>1. \E f \in Faces : Mapped(i, f) \/ CreatedAs(c2p, k, i, f)
      BY <1>1, <2>0, <2>2 DEF Decodable, Awaited
    <3>2. \E f \in Faces : CreatedAs(c2p, k, i, f)
      BY <1>3, <3>1 DEF Mapped
    <3>3. Len(c2p) \in Nat
      BY DEF Puts
    <3> QED BY <1>3, <3>2, <3>3 DEF CreatedAs, Asked, Creating
  <2> QED BY <2>0, <2>1, <2>2 DEF Concerning
<1>7. ~Ending(c2p, i) /\ ~Ending(p2s, i)
  BY <1>6 DEF Ending, Concerning
<1>8. \A x : Quiet(x) /\ x # i => Quiet(x)'
  BY <1>2, <1>4 DEF Quiet, Adds
<1>9. OnePlace'
  <2> HIDE DEF Asked, Passed, Given, Freed
  <2> QED BY <1>1, <1>2, <1>3, <1>4, <1>5, AsideKeeps DEF OnePlace
<1>10. Once'
  BY <1>1, <1>3, <1>4 DEF Once
<1>11. LastWords'
  <2> HIDE DEF Asked, Passed, Given, Freed
  <2> QED BY <1>1, <1>2, <1>3, <1>4, <1>5, <1>7, <1>8 DEF LastWords, Adds
<1>12. Awaited'
  <2> SUFFICES ASSUME NEW k \in 1 .. Len(c2p'), NEW x \in Ids, Concerns(c2p'[k], x)
               PROVE  \E f \in Faces : /\ Answers(c2p'[k], f)
                                       /\ Mapped(x, f)' \/ CreatedAs(c2p', k, x, f)
    BY DEF Awaited
  <2>1. k \in 1 .. Len(c2p) /\ c2p'[k] = c2p[k]
        /\ \A f : CreatedAs(c2p', k, x, f) <=> CreatedAs(c2p, k, x, f)
    BY <1>1, <1>2, CreatedPuts
  <2> QED BY <1>1, <2>1, AsideKeeps DEF Decodable, Awaited
<1>13. Arrived'
  BY <1>1, AsideKeeps DEF Decodable, Arrived
<1>14. Held'
  <2> SUFFICES ASSUME NEW x \in DOMAIN client'.objs, client'.objs[x] # "callback"
               PROVE  (Mapped(x, client.objs[x]) \/ CreatingAs(c2p, x, client.objs[x]))'
    BY DEF Held
  <2>1. CASE x = i
    <3>1. CreatingAs(c2p', i, Makes(m)) /\ client'.objs[i] = Makes(m)
      BY <1>2, <1>4 DEF Adds
    <3> QED BY <2>1, <3>1
  <2>2. CASE x # i
    <3>1. x \in DOMAIN client.objs /\ client'.objs[x] = client.objs[x]
      BY <1>2, <2>2 DEF Adds
    <3>2. Mapped(x, client.objs[x]) \/ CreatingAs(c2p, x, client.objs[x])
      BY <1>1, <3>1 DEF Decodable, Held
    <3>3. \A f : CreatingAs(c2p, x, f) => CreatingAs(c2p', x, f)
      BY <1>4
    <3> QED BY <3>1, <3>2, <3>3 DEF Mapped, Aside
  <2> QED BY <2>1, <2>2
<1>15. OwnRange'
  BY <1>1, <1>2, <1>4 DEF Decodable, OwnRange
<1>16. Announced'
  BY <1>1, BeyondKeeps
<1> QED BY <1>9, <1>10, <1>11, <1>12, <1>13, <1>14, <1>15, <1>16 DEF InProtocol, Decodable

(* The client uses what it has, or ends it: nothing ended it before.         *)
LEMMA UseServes ==
  ASSUME Serving, NEW m, IsRequest(m), Puts(c2p, c2p', m), ClientUses(m) \/ ClientEnds(m),
         Aside, UNCHANGED <<p2s, s2p, p2c, server>>
  PROVE  InProtocol'
<1> DEFINE i == m.obj
           g == client.objs[m.obj]
<1>1. /\ OnePlace /\ Once /\ Decodable /\ LastWords /\ Announced /\ MapOK
      /\ \A k \in 1 .. Len(c2p) : IsRequest(c2p[k])
      /\ Puts(c2p, c2p', m)
  BY DEF Serving, PolicyInv, InProtocol, Shapes
<1>2. /\ i \in DOMAIN client.objs /\ g # "callback" /\ client'.free = client.free
      /\ m.op = "receive" => g = "offer"
      /\ m.op = "destroy" => i \notin DOMAIN client'.objs
      /\ \A x \in DOMAIN client'.objs : x \in DOMAIN client.objs /\ client'.objs[x] = client.objs[x]
  BY DEF ClientUses, ClientEnds, Removes
<1>3. \A x : ~Creates(m, x) /\ (Concerns(m, x) <=> x = i)
  BY DEF ClientUses, ClientEnds, Creates, Concerns
<1> HIDE DEF i, g
<1>4. ASSUME NEW x
      PROVE  /\ Asked(x)' <=> Asked(x)
             /\ CreatesOnce(c2p, x) => CreatesOnce(c2p, x)'
             /\ Concerning(c2p, x)' <=> Concerning(c2p, x) \/ x = i
             /\ Ending(c2p, x)' <=> Ending(c2p, x) \/ (x = i /\ m.op = "destroy")
             /\ EndsLast(c2p, x) /\ ~(Ending(c2p, x) /\ x = i) => EndsLast(c2p, x)'
             /\ \A f : CreatingAs(c2p, x, f)' <=> CreatingAs(c2p, x, f)
  BY <1>1, <1>3, CreatingPuts, ConcerningPuts, CreatedPuts DEF Asked
<1>5. ASSUME NEW x
      PROVE  /\ Passed(x)' <=> Passed(x)
             /\ Given(x)' <=> Given(x)
             /\ Freed(x)' <=> Freed(x)
  BY DEF Passed, Given, Freed
<1>6. ~Quiet(i)
  BY <1>2 DEF Quiet, g, i
<1>7. \A x : Quiet(x) => Quiet(x)'
  BY <1>2, <1>4, <1>6 DEF Quiet
<1>8. OnePlace'
  <2> HIDE DEF Asked, Passed, Given, Freed
  <2> QED BY <1>1, <1>2, <1>4, <1>5, AsideKeeps DEF OnePlace
<1>9. Once'
  BY <1>1, <1>4 DEF Once
<1>10. LastWords'
  <2> HIDE DEF Asked, Passed, Given, Freed, Quiet
  <2> QED BY <1>1, <1>2, <1>4, <1>5, <1>6, <1>7 DEF LastWords
<1>11. Awaited'
  <2> SUFFICES ASSUME NEW k \in 1 .. Len(c2p'), NEW x \in Ids, Concerns(c2p'[k], x)
               PROVE  \E f \in Faces : /\ Answers(c2p'[k], f)
                                       /\ Mapped(x, f)' \/ CreatedAs(c2p', k, x, f)
    BY DEF Awaited
  <2>1. CASE k \in 1 .. Len(c2p) /\ c2p'[k] = c2p[k]
             /\ \A f : CreatedAs(c2p', k, x, f) <=> CreatedAs(c2p, k, x, f)
    BY <1>1, <2>1, AsideKeeps DEF Decodable, Awaited
  <2>2. CASE k = Len(c2p') /\ c2p'[k] = m
    <3>0. PICK h : h = g
      OBVIOUS
    <3>1. x = i
      BY <1>3, <2>2
    <3>2. Mapped(x, h) \/ CreatingAs(c2p, x, h)
      BY <1>1, <1>2, <3>0, <3>1 DEF Decodable, Held, g, i
    <3>3. Mapped(x, h)' \/ CreatedAs(c2p', k, x, h)
      <4>1. CreatedAs(c2p', Len(c2p'), x, h) <=> CreatingAs(c2p, x, h)
        BY CreatedPuts
      <4>2. Mapped(x, h)' <=> Mapped(x, h)
        BY AsideKeeps
      <4> QED BY <2>2, <3>2, <4>1, <4>2
    <3>4. Answers(m, h)
      BY <1>2, <3>0 DEF Answers
    <3>5. h \in Faces
      <4>1. CASE Mapped(x, h)
        BY <1>1, <4>1 DEF Mapped, MapOK, Entries, Faces
      <4>2. CASE CreatingAs(c2p, x, h)
        BY <1>1, <4>2, TableAssumption
           DEF CreatingAs, IsRequest, Messages, Makes, Faces
      <4> QED BY <3>2, <4>1, <4>2
    <3> QED BY <2>2, <3>3, <3>4, <3>5
  <2>3. \/ k = Len(c2p') /\ c2p'[k] = m
        \/ k \in 1 .. Len(c2p) /\ c2p'[k] = c2p[k]
           /\ \A f : CreatedAs(c2p', k, x, f) <=> CreatedAs(c2p, k, x, f)
    <3>1. \/ k = Len(c2p') /\ c2p'[k] = m
          \/ k \in 1 .. Len(c2p) /\ c2p'[k] = c2p[k]
      BY DEF Puts
    <3>2. ASSUME k \in 1 .. Len(c2p), NEW f
          PROVE  CreatedAs(c2p', k, x, f) <=> CreatedAs(c2p, k, x, f)
      <4>1. \A j \in 1 .. k - 1 : c2p'[j] = c2p[j]
        BY <3>2 DEF Puts
      <4> QED BY <4>1 DEF CreatedAs
    <3> QED BY <3>1, <3>2
  <2> QED BY <2>1, <2>2, <2>3
<1>12. Arrived'
  BY <1>1, AsideKeeps DEF Decodable, Arrived
<1>13. Held'
  <2> SUFFICES ASSUME NEW x \in DOMAIN client'.objs, client'.objs[x] # "callback"
               PROVE  (Mapped(x, client.objs[x]) \/ CreatingAs(c2p, x, client.objs[x]))'
    BY DEF Held
  <2>1. x \in DOMAIN client.objs /\ client'.objs[x] = client.objs[x]
    BY <1>2
  <2>2. Mapped(x, client.objs[x]) \/ CreatingAs(c2p, x, client.objs[x])
    BY <1>1, <2>1 DEF Decodable, Held
  <2>3. \A f : CreatingAs(c2p, x, f) => CreatingAs(c2p', x, f)
    BY <1>4
  <2> QED BY <2>1, <2>2, <2>3 DEF Mapped, Aside
<1>14. OwnRange'
  BY <1>1, <1>4 DEF Decodable, OwnRange
<1>15. Announced'
  BY <1>1, BeyondKeeps
<1> QED BY <1>8, <1>9, <1>10, <1>11, <1>12, <1>13, <1>14, <1>15 DEF InProtocol, Decodable

(* The client hears that an id is free again: it is nowhere else.            *)
LEMMA FreeServes ==
  ASSUME Serving, ClientFrees(p2c[1]), IsEvent(p2c[1]), Pops(p2c, p2c'),
         Aside, UNCHANGED <<c2p, p2s, s2p, server>>
  PROVE  InProtocol'
<1> DEFINE m == p2c[1]
           i == p2c[1].name
<1>1. OnePlace /\ Once /\ Decodable /\ LastWords /\ Announced
  BY DEF Serving, PolicyInv, InProtocol
<1>2. /\ i \in ClientIds /\ \A x : (Deletes(m, x) <=> x = i) /\ ~Offers(m, x)
      /\ client'.free = client.free \cup {i} /\ Removes(client.objs, client'.objs, i)
  BY DEF ClientFrees, IsEvent, Deletes, Offers
<1> HIDE DEF m, i
<1>3. ASSUME NEW x
      PROVE  /\ Freed(x) <=> Freed(x)' \/ x = i
             /\ DeletesOnce(p2c, x) => DeletesOnce(p2c, x)' /\ (x = i => ~Freed(x)')
             /\ Offering(p2c, x)' <=> Offering(p2c, x)
  BY <1>2, DeletingPops, OfferingPops DEF Freed, m
<1>4. ASSUME NEW x
      PROVE  /\ Asked(x)' <=> Asked(x)
             /\ Passed(x)' <=> Passed(x)
             /\ Given(x)' <=> Given(x)
             /\ Quiet(x) => Quiet(x)'
  BY <1>2 DEF Asked, Passed, Given, Quiet, Removes
<1>5. OnePlace'
  <2> HIDE DEF Asked, Passed, Given, Freed
  <2> QED BY <1>1, <1>2, <1>3, <1>4, AsideKeeps DEF OnePlace, Once
<1>6. Once'
  BY <1>1, <1>3 DEF Once
<1>7. LastWords'
  BY <1>1, <1>2, <1>4 DEF LastWords, Removes
<1>8. Awaited' /\ Arrived' /\ OwnRange'
  BY <1>1, <1>4, AsideKeeps DEF Decodable, Awaited, Arrived, OwnRange
<1>9. Held'
  BY <1>1, <1>2 DEF Decodable, Held, Removes, Mapped, Aside
<1>10. Foretold'
  BY <1>1 DEF Announced, Foretold, Aside, Known
<1>11. Agreed'
  BY <1>1 DEF Announced, Agreed, Aside, Mapped
<1>12. Promised'
  BY <1>1, <1>3, AsideKeeps DEF Announced, Promised
<1> QED BY <1>5, <1>6, <1>7, <1>8, <1>9, <1>10, <1>11, <1>12 DEF InProtocol, Decodable, Announced

(* The client hears of an offer, which the proxy mapped before it went on,   *)
(* or of nothing it keeps.                                                   *)
LEMMA LearnServes ==
  ASSUME Serving, ClientLearns(p2c[1]) \/ ClientNotes(p2c[1]), IsEvent(p2c[1]), Pops(p2c, p2c'),
         Aside, UNCHANGED <<c2p, p2s, s2p, server>>
  PROVE  InProtocol'
<1> DEFINE m == p2c[1]
<1>1. OnePlace /\ Once /\ Decodable /\ LastWords /\ Announced
  BY DEF Serving, PolicyInv, InProtocol
<1>2. /\ \A x : ~Deletes(m, x)
      /\ client'.free = client.free
  BY DEF ClientLearns, ClientNotes, Deletes, Plain
<1>3. \A x \in DOMAIN client'.objs :
        \/ x \in DOMAIN client.objs /\ client'.objs[x] = client.objs[x]
        \/ x \in ServerIds /\ client'.objs[x] = "offer" /\ Offers(m, x)
  <2>1. CASE ClientLearns(m)
    BY <2>1 DEF ClientLearns, Adds, IsEvent, Offers
  <2>2. CASE ClientNotes(m)
    BY <2>2 DEF ClientNotes
  <2> QED BY <2>1, <2>2
<1> HIDE DEF m
<1>4. ASSUME NEW x
      PROVE  /\ Freed(x) <=> Freed(x)'
             /\ DeletesOnce(p2c, x) => DeletesOnce(p2c, x)'
             /\ Offering(p2c, x) <=> Offering(p2c, x)' \/ Offers(m, x)
  BY <1>2, DeletingPops, OfferingPops DEF Freed, m
<1>5. \A x \in ClientIds : x \notin ServerIds
  BY IdsAssumption
<1>6. ASSUME NEW x
      PROVE  /\ Asked(x)' <=> Asked(x)
             /\ Passed(x)' <=> Passed(x)
             /\ Given(x)' <=> Given(x)
             /\ x \in ClientIds /\ Quiet(x) => Quiet(x)'
  BY <1>3, <1>5 DEF Asked, Passed, Given, Quiet
<1>7. OnePlace'
  <2> HIDE DEF Asked, Passed, Given, Freed
  <2> QED BY <1>1, <1>2, <1>4, <1>6, AsideKeeps DEF OnePlace
<1>8. Once'
  BY <1>1, <1>4 DEF Once
<1>9. LastWords'
  BY <1>1, <1>3, <1>5, <1>6 DEF LastWords
<1>10. Awaited' /\ Arrived' /\ OwnRange'
  BY <1>1, <1>6, AsideKeeps DEF Decodable, Awaited, Arrived, OwnRange
<1>11. Held'
  <2> SUFFICES ASSUME NEW x \in DOMAIN client'.objs, client'.objs[x] # "callback"
               PROVE  (Mapped(x, client.objs[x]) \/ CreatingAs(c2p, x, client.objs[x]))'
    BY DEF Held
  <2>1. CASE x \in DOMAIN client.objs /\ client'.objs[x] = client.objs[x]
    BY <1>1, <2>1 DEF Decodable, Held, Mapped, Aside
  <2>2. CASE x \in ServerIds /\ client'.objs[x] = "offer" /\ Offers(m, x)
    <3>1. Mapped(x, "offer")
      BY <1>1, <1>4, <2>2 DEF Announced, Promised
    <3> QED BY <2>2, <3>1 DEF Mapped, Aside
  <2> QED BY <1>3, <2>1, <2>2
<1>12. Foretold'
  BY <1>1 DEF Announced, Foretold, Aside, Known
<1>13. Agreed'
  BY <1>1 DEF Announced, Agreed, Aside, Mapped
<1>14. Promised'
  BY <1>1, <1>4, AsideKeeps DEF Announced, Promised
<1> QED BY <1>7, <1>8, <1>9, <1>10, <1>11, <1>12, <1>13, <1>14 DEF InProtocol, Decodable, Announced

----------------------------------------------------------------------------
(* The compositor.                                                          *)

(* What its steps leave of the client's side.                               *)
LEMMA NearKeeps ==
  ASSUME Serving, Aside, UNCHANGED <<c2p, p2c, client>>
  PROVE  /\ Awaited' /\ Held' /\ OwnRange'
         /\ \A i : /\ Asked(i)' <=> Asked(i)
                   /\ Freed(i)' <=> Freed(i)
                   /\ Quiet(i)' <=> Quiet(i)
         /\ \A i \in ClientIds : /\ CreatesOnce(c2p, i)' /\ DeletesOnce(p2c, i)'
                                 /\ EndsLast(c2p, i)'
                                 /\ Ending(c2p, i)' => i \notin DOMAIN client'.objs
         /\ \A i \in ServerIds : Offering(p2c, i)' => Mapped(i, "offer")'
<1>1. Once /\ Decodable /\ LastWords /\ Announced
  BY DEF Serving, PolicyInv, InProtocol
<1>2. \A i : /\ Asked(i)' <=> Asked(i)
             /\ Freed(i)' <=> Freed(i)
             /\ Quiet(i)' <=> Quiet(i)
  BY DEF Asked, Freed, Quiet
<1>3. Awaited' /\ OwnRange'
  BY <1>1, <1>2, AsideKeeps DEF Decodable, Awaited, OwnRange
<1>4. Held'
  BY <1>1 DEF Decodable, Held, Mapped, Aside
<1>5. \A i \in ClientIds : /\ CreatesOnce(c2p, i)' /\ DeletesOnce(p2c, i)'
                           /\ EndsLast(c2p, i)'
                           /\ Ending(c2p, i)' => i \notin DOMAIN client'.objs
  BY <1>1 DEF Once, LastWords
<1>6. \A i \in ServerIds : Offering(p2c, i)' => Mapped(i, "offer")'
  BY <1>1, AsideKeeps DEF Announced, Promised
<1> QED BY <1>2, <1>3, <1>4, <1>5, <1>6

(* The compositor sends an event about an object it has, an offer it makes,  *)
(* or a change of its globals.                                               *)
LEMMA TellServes ==
  ASSUME Serving, NEW m, IsEvent(m), TellsGlobal(m) \/ TellsOffer(m) \/ TellsPlain(m),
         Aside, UNCHANGED <<c2p, p2s, p2c, client>>
  PROVE  InProtocol'
<1>1. /\ OnePlace /\ Once /\ Decodable /\ LastWords /\ Announced /\ MapOK /\ ServerOK
      /\ \A k \in 1 .. Len(s2p) : IsEvent(s2p[k])
      /\ Puts(s2p, s2p', m)
  BY DEF Serving, PolicyInv, InProtocol, Shapes, TellsGlobal, TellsOffer, TellsPlain
<1>2. \A x : ~Deletes(m, x)
  BY DEF TellsGlobal, TellsOffer, TellsPlain, Deletes
<1>3. ASSUME NEW x
      PROVE  /\ Given(x)' <=> Given(x)
             /\ DeletesOnce(s2p, x) => DeletesOnce(s2p, x)'
             /\ Offering(s2p, x)' <=> Offering(s2p, x) \/ Offers(m, x)
             /\ Passed(x)' <=> Passed(x)
  BY <1>1, <1>2, DeletingPuts, OfferingPuts DEF Given, Passed
<1>4. \A x \in DOMAIN server'.objs :
        \/ x \in DOMAIN server.objs /\ server'.objs[x] = server.objs[x]
        \/ x \in ServerIds /\ Offers(m, x)
  <2>1. CASE TellsOffer(m)
    BY <2>1 DEF TellsOffer, Adds, Offers
  <2>2. CASE TellsGlobal(m) \/ TellsPlain(m)
    BY <2>2 DEF TellsGlobal, TellsPlain
  <2> QED BY <2>1, <2>2
<1>5. \A x \in ClientIds : x \notin ServerIds
  BY IdsAssumption
<1>6. OnePlace'
  <2> HIDE DEF Asked, Passed, Given, Freed
  <2> QED BY <1>1, <1>3, <1>4, <1>5, NearKeeps, AsideKeeps DEF OnePlace
<1>7. Once'
  BY <1>1, <1>3, NearKeeps DEF Once
<1>8. LastWords'
  <2> HIDE DEF Given, Quiet
  <2> QED BY <1>1, <1>3, NearKeeps DEF LastWords
<1>9. Arrived'
  BY <1>1, AsideKeeps DEF Decodable, Arrived
<1>10. ASSUME NEW x \in Ids, About(m, x)
       PROVE  /\ Known(x, m.since) \/ (m.since <= Table["offer"] /\ Offering(s2p, x))
              /\ ~Given(x)
  <2>1. x = m.obj /\ m.obj \in DOMAIN server.objs /\ m.since <= Table[server.objs[x].iface]
    <3>1. CASE TellsOffer(m)
      BY <1>1, <1>10, <3>1, TableAssumption DEF TellsOffer, About, ServerOK
    <3>2. CASE TellsPlain(m)
      BY <1>10, <3>2 DEF TellsPlain, About
    <3>3. CASE TellsGlobal(m)
      BY <1>10, <3>3 DEF TellsGlobal, About
    <3> QED BY <3>1, <3>2, <3>3
  <2>2. CASE x \in ClientIds
    <3>1. Mapped(x, server.objs[x].iface)
      BY <1>1, <2>1, <2>2 DEF Announced, Agreed
    <3>2. ~Given(x)
      BY <1>1, <2>1, <2>2 DEF OnePlace
    <3> QED BY <2>1, <3>1, <3>2 DEF Known, Mapped
  <2>3. CASE x \in ServerIds
    <3>1. server.objs[x].iface = "offer"
      BY <1>1, <2>1, <2>3 DEF ServerOK
    <3>2. Mapped(x, "offer") \/ Offering(s2p, x)
      BY <1>1, <2>1, <2>3 DEF Announced, Agreed
    <3>3. ~Given(x)
      BY <1>1, <1>5, <2>3 DEF Given, Deleting, Deletes, IsEvent
    <3> QED BY <2>1, <3>1, <3>2, <3>3 DEF Known, Mapped
  <2> QED BY <2>2, <2>3 DEF Ids
<1>11. Foretold'
  <2> SUFFICES ASSUME NEW k \in 1 .. Len(s2p'), NEW x \in Ids, About(s2p'[k], x)
               PROVE  /\ \/ Known(x, s2p[k].since)'
                         \/ s2p'[k].since <= Table["offer"] /\ Offered(s2p', k, x)
                      /\ ~Deleted(s2p', k, x)
    BY DEF Foretold
  <2>1. /\ Offered(s2p', Len(s2p'), x) <=> Offering(s2p, x)
        /\ Deleted(s2p', Len(s2p'), x) <=> Given(x)
        /\ \/ k = Len(s2p') /\ s2p'[k] = m
           \/ /\ k \in 1 .. Len(s2p) /\ s2p'[k] = s2p[k]
              /\ Offered(s2p', k, x) <=> Offered(s2p, k, x)
              /\ Deleted(s2p', k, x) <=> Deleted(s2p, k, x)
    BY <1>1, OfferingPuts DEF Given
  <2>2. CASE k = Len(s2p') /\ s2p'[k] = m
    BY <1>10, <2>1, <2>2 DEF Known, Aside
  <2>3. CASE /\ k \in 1 .. Len(s2p) /\ s2p'[k] = s2p[k]
             /\ Offered(s2p', k, x) <=> Offered(s2p, k, x)
             /\ Deleted(s2p', k, x) <=> Deleted(s2p, k, x)
    BY <1>1, <2>3 DEF Announced, Foretold, Known, Aside
  <2> QED BY <2>1, <2>2, <2>3
<1>12. Agreed'
  <2>1. ASSUME NEW x \in ClientIds, x \in DOMAIN server'.objs
        PROVE  Mapped(x, server.objs[x].iface)'
    BY <1>1, <1>4, <1>5, <2>1 DEF Announced, Agreed, Mapped, Aside
  <2>2. \A x \in ServerIds : x \in DOMAIN server'.objs => Mapped(x, "offer")' \/ Offering(s2p, x)'
    BY <1>1, <1>3, <1>4, AsideKeeps DEF Announced, Agreed
  <2> QED BY <2>1, <2>2 DEF Agreed
<1>13. Promised'
  BY <1>1, NearKeeps, AsideKeeps DEF Announced, Promised
<1> QED BY <1>6, <1>7, <1>8, <1>9, <1>11, <1>12, <1>13, NearKeeps DEF InProtocol, Decodable, Announced

(* A callback is done: the client never has a request about one, so nothing  *)
(* concerns the id when it is given back.                                    *)
LEMMA DoneServes ==
  ASSUME Serving, NEW m, TellsDone(m), Aside, UNCHANGED <<c2p, p2s, p2c, client>>
  PROVE  InProtocol'
<1> DEFINE i == m.obj
<1>1. OnePlace /\ Once /\ Decodable /\ LastWords /\ Announced
  BY DEF Serving, PolicyInv, InProtocol
<1>2. PICK n, q : Deletes(n, i) /\ Puts(s2p, q, m) /\ Puts(q, s2p', n)
  BY DEF TellsDone
<1>3. /\ i \in ClientIds /\ i \in Ids /\ i \in DOMAIN server.objs
      /\ server.objs[i].iface = "callback" /\ m.op = "event" /\ m.since = 1
      /\ Removes(server.objs, server'.objs, i)
  BY DEF TellsDone, Ids
<1>4. /\ \A x : ~Deletes(m, x) /\ ~Offers(m, x) /\ (About(m, x) => x = i)
      /\ \A x : (Deletes(n, x) <=> x = i) /\ ~Offers(n, x) /\ ~About(n, x)
  BY <1>2, <1>3 DEF Deletes, Offers, About
<1> HIDE DEF i
<1>5. Mapped(i, "callback") /\ ~Given(i) /\ ~Passed(i) /\ ~Asked(i) /\ i \in DOMAIN objects
  BY <1>1, <1>3 DEF Announced, Agreed, OnePlace
<1>6. ASSUME NEW x
      PROVE  /\ Given(x)' <=> Given(x) \/ x = i
             /\ DeletesOnce(s2p, x) /\ (x = i => ~Given(x)) => DeletesOnce(s2p, x)'
             /\ Offering(s2p, x)' <=> Offering(s2p, x)
             /\ Passed(x)' <=> Passed(x)
  <2>1. /\ Deleting(q, x) <=> Given(x)
        /\ DeletesOnce(s2p, x) => DeletesOnce(q, x)
        /\ Offering(q, x) <=> Offering(s2p, x)
    BY <1>2, <1>4, DeletingPuts, OfferingPuts DEF Given
  <2>2. /\ Deleting(s2p', x) <=> Deleting(q, x) \/ x = i
        /\ DeletesOnce(q, x) /\ (x = i => ~Deleting(q, x)) => DeletesOnce(s2p', x)
        /\ Offering(s2p', x) <=> Offering(q, x)
    BY <1>2, <1>4, DeletingPuts, OfferingPuts
  <2> QED BY <2>1, <2>2 DEF Given, Passed
<1>7. Quiet(i) /\ ~Concerning(p2s, i)
  <2>1. ~Concerning(p2s, i)
    BY <1>1, <1>3, <1>5 DEF Decodable, Arrived
  <2>2. \A f : ~CreatingAs(c2p, i, f)
    BY <1>5 DEF CreatingAs, Asked, Creating
  <2>3. i \in DOMAIN client.objs => client.objs[i] = "callback"
    BY <1>1, <1>5, <2>2 DEF Decodable, Held, Mapped
  <2>4. ASSUME NEW k \in 1 .. Len(c2p), Concerns(c2p[k], i) PROVE FALSE
    <3>1. PICK f \in Faces : Answers(c2p[k], f) /\ (Mapped(i, f) \/ CreatedAs(c2p, k, i, f))
      BY <1>1, <1>3, <2>4 DEF Decodable, Awaited
    <3>2. Len(c2p) \in Nat
      BY DEF Serving, PolicyInv, Shapes
    <3>3. ~CreatedAs(c2p, k, i, f)
      BY <1>5, <3>2 DEF CreatedAs, Asked, Creating
    <3> QED BY <1>5, <3>1, <3>3 DEF Mapped, Answers
  <2> QED BY <2>1, <2>3, <2>4 DEF Quiet, Concerning
<1>8. OnePlace'
  <2> HIDE DEF Asked, Passed, Given, Freed
  <2> QED BY <1>1, <1>3, <1>5, <1>6, NearKeeps, AsideKeeps DEF OnePlace, Removes
<1>9. Once'
  BY <1>1, <1>5, <1>6, NearKeeps DEF Once
<1>10. LastWords'
  <2> HIDE DEF Given, Quiet
  <2> QED BY <1>1, <1>6, <1>7, NearKeeps DEF LastWords
<1>11. Arrived'
  BY <1>1, AsideKeeps DEF Decodable, Arrived
<1>12. Foretold'
  <2> SUFFICES ASSUME NEW k \in 1 .. Len(s2p'), NEW x \in Ids, About(s2p'[k], x)
               PROVE  /\ \/ Known(x, s2p[k].since)'
                         \/ s2p'[k].since <= Table["offer"] /\ Offered(s2p', k, x)
                      /\ ~Deleted(s2p', k, x)
    BY DEF Foretold
  <2>1. /\ k \in 1 .. Len(q) /\ s2p'[k] = q[k]
        /\ Offered(s2p', k, x) <=> Offered(q, k, x)
        /\ Deleted(s2p', k, x) <=> Deleted(q, k, x)
    BY <1>2, <1>4, OfferingPuts
  <2>2. /\ Offered(q, Len(q), x) <=> Offering(s2p, x)
        /\ Deleted(q, Len(q), x) <=> Given(x)
        /\ \/ k = Len(q) /\ q[k] = m
           \/ /\ k \in 1 .. Len(s2p) /\ q[k] = s2p[k]
              /\ Offered(q, k, x) <=> Offered(s2p, k, x)
              /\ Deleted(q, k, x) <=> Deleted(s2p, k, x)
    BY <1>2, <2>1, OfferingPuts DEF Given
  <2>3. CASE k = Len(q) /\ q[k] = m
    <3>1. x = i /\ Known(i, m.since)
      BY <1>3, <1>4, <1>5, <2>1, <2>3, TableAssumption DEF Known, Mapped
    <3> QED BY <1>5, <2>1, <2>2, <2>3, <3>1 DEF Known, Aside
  <2>4. CASE /\ k \in 1 .. Len(s2p) /\ q[k] = s2p[k]
             /\ Offered(q, k, x) <=> Offered(s2p, k, x)
             /\ Deleted(q, k, x) <=> Deleted(s2p, k, x)
    BY <1>1, <2>1, <2>4 DEF Announced, Foretold, Known, Aside
  <2> QED BY <2>2, <2>3, <2>4
<1>13. Agreed'
  <2>1. ASSUME NEW x \in ClientIds, x \in DOMAIN server'.objs
        PROVE  Mapped(x, server.objs[x].iface)'
    BY <1>1, <1>3, <2>1 DEF Announced, Agreed, Mapped, Aside, Removes
  <2>2. \A x \in ServerIds : x \in DOMAIN server'.objs => Mapped(x, "offer")' \/ Offering(s2p, x)'
    BY <1>1, <1>3, <1>6, AsideKeeps DEF Announced, Agreed, Removes
  <2> QED BY <2>1, <2>2 DEF Agreed
<1>14. Promised'
  BY <1>1, NearKeeps, AsideKeeps DEF Announced, Promised
<1> QED BY <1>8, <1>9, <1>10, <1>11, <1>12, <1>13, <1>14, NearKeeps DEF InProtocol, Decodable, Announced

(* The compositor makes what was asked for: the id moves from p2s to it.     *)
LEMMA FulfilServes ==
  ASSUME Serving, Fulfils(p2s[1]), 1 \in 1 .. Len(p2s), Pops(p2s, p2s'),
         Aside, UNCHANGED <<c2p, p2c, client>>
  PROVE  InProtocol'
<1> DEFINE m == p2s[1]
           i == p2s[1].new
<1>1. /\ OnePlace /\ Once /\ Decodable /\ LastWords /\ Announced /\ s2p' = s2p
      /\ IsRequest(m) /\ Judged(m)
  BY DEF Serving, PolicyInv, InProtocol, Shapes, Fulfils
<1>2. /\ i \in ClientIds /\ i \notin DOMAIN server.objs
      /\ \A x : (Creates(m, x) <=> x = i) /\ ~Concerns(m, x)
      /\ Adds(server.objs, server'.objs, i, [iface |-> Makes(m), version |-> m.version])
  BY <1>1 DEF Fulfils, Creates, Concerns, Judged
<1>3. Passed(i) /\ CreatingAs(p2s, i, Makes(m)) /\ Makes(m) \in Faces
  BY <1>1, <1>2, TableAssumption DEF Passed, Creating, CreatingAs, Judged, Fulfils, Faces
<1>4. Mapped(i, Makes(m)) /\ i \in DOMAIN objects /\ ~Given(i)
  BY <1>1, <1>2, <1>3 DEF Announced, Promised, OnePlace
<1> HIDE DEF m, i
<1>5. ASSUME NEW x
      PROVE  /\ Passed(x) <=> Passed(x)' \/ x = i
             /\ CreatesOnce(p2s, x) => CreatesOnce(p2s, x)' /\ (x = i => ~Passed(x)')
             /\ Concerning(p2s, x)' <=> Concerning(p2s, x)
             /\ Ending(p2s, x)' <=> Ending(p2s, x)
             /\ EndsLast(p2s, x) => EndsLast(p2s, x)'
             /\ \A f : CreatingAs(p2s, x, f)' => CreatingAs(p2s, x, f)
             /\ Given(x)' <=> Given(x)
  <2>1. /\ Passed(x) <=> Passed(x)' \/ x = i
        /\ CreatesOnce(p2s, x) => CreatesOnce(p2s, x)' /\ (x = i => ~Passed(x)')
    BY <1>2, CreatingPops DEF Passed, m
  <2>2. /\ Concerning(p2s, x)' <=> Concerning(p2s, x)
        /\ Ending(p2s, x)' <=> Ending(p2s, x)
        /\ EndsLast(p2s, x) => EndsLast(p2s, x)'
    BY <1>2, ConcerningPops DEF m
  <2>3. \A f : CreatingAs(p2s, x, f)' => CreatingAs(p2s, x, f)
    BY CreatedPops
  <2> QED BY <1>1, <2>1, <2>2, <2>3 DEF Given
<1>6. OnePlace'
  <2> HIDE DEF Asked, Passed, Given, Freed
  <2> QED BY <1>1, <1>2, <1>4, <1>5, NearKeeps, AsideKeeps DEF OnePlace, Once, Adds
<1>7. Once'
  BY <1>1, <1>5, NearKeeps DEF Once
<1>8. LastWords'
  <2> HIDE DEF Given, Quiet
  <2> QED BY <1>1, <1>5, NearKeeps DEF LastWords
<1>9. Arrived'
  BY <1>1, <1>5, AsideKeeps DEF Decodable, Arrived
<1>10. Foretold'
  BY <1>1 DEF Announced, Foretold, Known, Aside
<1>11. Agreed'
  <2>1. ASSUME NEW x \in ClientIds, x \in DOMAIN server'.objs
        PROVE  Mapped(x, server.objs[x].iface)'
    <3>1. CASE x = i
      BY <1>2, <1>4, <3>1 DEF Mapped, Aside, Adds
    <3>2. CASE x # i
      BY <1>1, <1>2, <2>1, <3>2 DEF Announced, Agreed, Mapped, Aside, Adds
    <3> QED BY <3>1, <3>2
  <2>2. \A x \in ServerIds : x \in DOMAIN server'.objs => Mapped(x, "offer")' \/ Offering(s2p, x)'
    <3>1. i \notin ServerIds
      BY <1>2, IdsAssumption
    <3> QED BY <1>1, <1>2, <3>1, AsideKeeps DEF Announced, Agreed, Adds
  <2> QED BY <2>1, <2>2 DEF Agreed
<1>12. Promised'
  BY <1>1, <1>5, NearKeeps, AsideKeeps DEF Announced, Promised
<1> QED BY <1>6, <1>7, <1>8, <1>9, <1>10, <1>11, <1>12, NearKeeps DEF InProtocol, Decodable, Announced

(* The compositor ends an object, and gives a client's id back: the          *)
(* destructor was the last request about it.                                 *)
LEMMA ReleaseServes ==
  ASSUME Serving, Releases(p2s[1]), 1 \in 1 .. Len(p2s), Pops(p2s, p2s'),
         Aside, UNCHANGED <<c2p, p2c, client>>
  PROVE  InProtocol'
<1> DEFINE m == p2s[1]
           i == p2s[1].obj
<1>1. /\ OnePlace /\ Once /\ Decodable /\ LastWords /\ Announced
      /\ i \in DOMAIN server.objs /\ Removes(server.objs, server'.objs, i)
  BY DEF Serving, PolicyInv, InProtocol, Releases
<1>2. Concerns(m, i) /\ m.op = "destroy" /\ Ending(p2s, i) /\ \A x : ~Creates(m, x)
  BY DEF Releases, Concerns, Ending, Creates
<1>3. \/ i \in ClientIds /\ \E n \in Messages : Deletes(n, i) /\ Puts(s2p, s2p', n)
      \/ i \notin ClientIds /\ s2p' = s2p
  BY DEF Releases
<1> HIDE DEF m, i
<1>4. ASSUME NEW x
      PROVE  /\ Passed(x)' <=> Passed(x)
             /\ CreatesOnce(p2s, x) => CreatesOnce(p2s, x)'
             /\ Concerning(p2s, x)' => Concerning(p2s, x)
             /\ Ending(p2s, x)' => Ending(p2s, x)
             /\ EndsLast(p2s, x) => EndsLast(p2s, x)' /\ (x = i => ~Concerning(p2s, x)')
             /\ \A f : CreatingAs(p2s, x, f)' => CreatingAs(p2s, x, f)
  <2>1. (Passed(x)' <=> Passed(x)) /\ (CreatesOnce(p2s, x) => CreatesOnce(p2s, x)')
    BY <1>2, CreatingPops DEF Passed, m
  <2>2. /\ Concerning(p2s, x)' => Concerning(p2s, x)
        /\ Ending(p2s, x)' => Ending(p2s, x)
        /\ EndsLast(p2s, x) => EndsLast(p2s, x)' /\ (x = i => ~Concerning(p2s, x)')
    BY <1>2, ConcerningPops DEF m
  <2>3. \A f : CreatingAs(p2s, x, f)' => CreatingAs(p2s, x, f)
    BY CreatedPops
  <2> QED BY <2>1, <2>2, <2>3
<1>5. ASSUME NEW x
      PROVE  /\ Given(x)' <=> Given(x) \/ (x = i /\ i \in ClientIds)
             /\ DeletesOnce(s2p, x) /\ (x = i => ~Given(x)) => DeletesOnce(s2p, x)'
             /\ Offering(s2p, x)' <=> Offering(s2p, x)
  <2>1. CASE i \in ClientIds /\ \E n \in Messages : Deletes(n, i) /\ Puts(s2p, s2p', n)
    <3>1. PICK n \in Messages : Deletes(n, i) /\ Puts(s2p, s2p', n)
      BY <2>1
    <3>2. (Deletes(n, x) <=> x = i) /\ ~Offers(n, x)
      BY <3>1 DEF Deletes, Offers
    <3> QED BY <2>1, <3>1, <3>2, DeletingPuts, OfferingPuts DEF Given
  <2>2. CASE i \notin ClientIds /\ s2p' = s2p
    BY <2>2 DEF Given
  <2> QED BY <1>3, <2>1, <2>2
<1>6. i \in ClientIds => ~Given(i) /\ ~Passed(i) /\ i \in DOMAIN objects /\ Quiet(i)
  BY <1>1, <1>2 DEF OnePlace, LastWords
<1>7. OnePlace'
  <2> HIDE DEF Asked, Passed, Given, Freed
  <2> QED BY <1>1, <1>4, <1>5, <1>6, NearKeeps, AsideKeeps DEF OnePlace, Removes
<1>8. Once'
  BY <1>1, <1>4, <1>5, <1>6, NearKeeps DEF Once
<1>9. LastWords'
  <2> HIDE DEF Given, Quiet
  <2> QED BY <1>1, <1>4, <1>5, <1>6, NearKeeps DEF LastWords
<1>10. Arrived'
  BY <1>1, <1>4, AsideKeeps DEF Decodable, Arrived
<1>11. Foretold'
  <2> SUFFICES ASSUME NEW k \in 1 .. Len(s2p'), NEW x \in Ids, About(s2p'[k], x)
               PROVE  /\ \/ Known(x, s2p[k].since)'
                         \/ s2p'[k].since <= Table["offer"] /\ Offered(s2p', k, x)
                      /\ ~Deleted(s2p', k, x)
    BY DEF Foretold
  <2>1. /\ k \in 1 .. Len(s2p) /\ s2p'[k] = s2p[k]
        /\ Offered(s2p', k, x) <=> Offered(s2p, k, x)
        /\ Deleted(s2p', k, x) <=> Deleted(s2p, k, x)
    <3>1. CASE i \in ClientIds /\ \E n \in Messages : Deletes(n, i) /\ Puts(s2p, s2p', n)
      <4>1. PICK n \in Messages : Deletes(n, i) /\ Puts(s2p, s2p', n)
        BY <3>1
      <4>2. ~About(n, x)
        BY <4>1 DEF Deletes, About
      <4> QED BY <4>1, <4>2, OfferingPuts
    <3>2. CASE s2p' = s2p
      BY <3>2
    <3> QED BY <1>3, <3>1, <3>2
  <2> QED BY <1>1, <2>1 DEF Announced, Foretold, Known, Aside
<1>12. Agreed'
  <2>1. ASSUME NEW x \in ClientIds, x \in DOMAIN server'.objs
        PROVE  Mapped(x, server.objs[x].iface)'
    BY <1>1, <2>1 DEF Announced, Agreed, Mapped, Aside, Removes
  <2>2. \A x \in ServerIds : x \in DOMAIN server'.objs => Mapped(x, "offer")' \/ Offering(s2p, x)'
    BY <1>1, <1>5, AsideKeeps DEF Announced, Agreed, Removes
  <2> QED BY <2>1, <2>2 DEF Agreed
<1>13. Promised'
  BY <1>1, <1>4, NearKeeps, AsideKeeps DEF Announced, Promised
<1> QED BY <1>7, <1>8, <1>9, <1>10, <1>11, <1>12, <1>13, NearKeeps DEF InProtocol, Decodable, Announced

(* The compositor reads a request that changes nothing here.                 *)
LEMMA IgnoreServes ==
  ASSUME Serving, Ignores(p2s[1]), Pops(p2s, p2s'), Aside, UNCHANGED <<c2p, p2c, client>>
  PROVE  InProtocol'
<1>1. OnePlace /\ Once /\ Decodable /\ LastWords /\ Announced /\ s2p' = s2p /\ server' = server
  BY DEF Serving, PolicyInv, InProtocol, Ignores
<1>2. ASSUME NEW x
      PROVE  /\ Passed(x)' => Passed(x)
             /\ CreatesOnce(p2s, x) => CreatesOnce(p2s, x)'
             /\ Concerning(p2s, x)' => Concerning(p2s, x)
             /\ Ending(p2s, x)' => Ending(p2s, x)
             /\ EndsLast(p2s, x) => EndsLast(p2s, x)'
             /\ \A f : CreatingAs(p2s, x, f)' => CreatingAs(p2s, x, f)
             /\ Given(x)' <=> Given(x)
  <2>1. (Passed(x)' => Passed(x)) /\ (CreatesOnce(p2s, x) => CreatesOnce(p2s, x)')
    BY CreatingPops DEF Passed
  <2>2. /\ Concerning(p2s, x)' => Concerning(p2s, x)
        /\ Ending(p2s, x)' => Ending(p2s, x)
        /\ EndsLast(p2s, x) => EndsLast(p2s, x)'
    BY ConcerningPops
  <2>3. \A f : CreatingAs(p2s, x, f)' => CreatingAs(p2s, x, f)
    BY CreatedPops
  <2> QED BY <1>1, <2>1, <2>2, <2>3 DEF Given
<1>3. OnePlace'
  <2> HIDE DEF Asked, Passed, Given, Freed
  <2> QED BY <1>1, <1>2, NearKeeps, AsideKeeps DEF OnePlace
<1>4. Once'
  BY <1>1, <1>2, NearKeeps DEF Once
<1>5. LastWords'
  <2> HIDE DEF Given, Quiet
  <2> QED BY <1>1, <1>2, NearKeeps DEF LastWords
<1>6. Arrived'
  BY <1>1, <1>2, AsideKeeps DEF Decodable, Arrived
<1>7. Foretold'
  BY <1>1 DEF Announced, Foretold, Known, Aside
<1>8. Agreed'
  BY <1>1 DEF Announced, Agreed, Mapped, Aside
<1>9. Promised'
  BY <1>1, <1>2, NearKeeps, AsideKeeps DEF Announced, Promised
<1> QED BY <1>3, <1>4, <1>5, <1>6, <1>7, <1>8, <1>9, NearKeeps DEF InProtocol, Decodable, Announced

----------------------------------------------------------------------------
(* The invariant, and the theorem.                                          *)

\* Nothing is forgotten but what the compositor has withdrawn.
StaysBindable ==
  \A n : Bindable(globals, server.removed, n) => Bindable(globals', server'.removed, n)

(* What is known of a global of the client's, and of a bind of it that is on *)
(* its way, lasts: only the compositor's withdrawal makes it unbindable.     *)
LEMMA NextLasts ==
  ASSUME PolicyInv, PolicyNext
  PROVE  Lasts'
<1>q. /\ c2p \in Seq(Messages) /\ p2s \in Seq(Messages)
      /\ s2p \in Seq(Messages) /\ p2c \in Seq(Messages)
      /\ Lasts /\ client.honest \in BOOLEAN
  BY DEF PolicyInv, Shapes, ClientOK
<1>b. ASSUME UNCHANGED globals, server.removed \subseteq server'.removed PROVE StaysBindable
  BY <1>b DEF Bindable, StaysBindable
<1>1. CASE JudgeRequest
  <2>1. UNCHANGED <<globals, s2p, p2c, client, server>> /\ Pops(c2p, c2p')
    BY <1>1, JudgesRequest DEF JudgeRequest, Remembers
  <2> QED BY <1>q, <1>b, <2>1, PopsKeep DEF Lasts, StaysBindable
<1>2. CASE JudgeEvent
  <2> DEFINE m == Head(s2p)
  <2>0. s2p # <<>> /\ UNCHANGED <<c2p, p2s, client, server>>
    BY <1>2 DEF JudgeEvent
  <2>1. m = s2p[1] /\ 1 \in 1 .. Len(s2p) /\ m \in Messages /\ IsEvent(m)
    BY <1>q, <2>0, TailPops DEF PolicyInv, Shapes, Pops
  <2>2. s2p' = Tail(s2p) /\ Pops(s2p, s2p')
    BY <1>2, JudgesEvent
  <2>3. /\ StaysBindable
        /\ \/ p2c' = p2c
           \/ \E x \in Messages :
                           /\ p2c' = Append(p2c, x)
                           /\ x.op = "global" => /\ Bindable(globals', server'.removed, x.name)
                                                 /\ x.version = Offer(x.name)
    <3>1. CASE Global(m) /\ Described(m.name)
      <4> DEFINE x == [m EXCEPT !.version = Offer(m.name)]
      <4>1. m.name \in Names /\ Offer(m.name) \in Nat
        BY <2>1, <3>1, TableAssumption DEF Global, IsEvent, Offer, Described
      <4>2. x \in Messages /\ x.name = m.name /\ x.version = Offer(m.name)
        BY <2>1, <4>1 DEF Messages
      <4>3. globals' = With(globals, m.name, Offer(m.name)) /\ p2c' = Append(p2c, x)
        BY <3>1 DEF Global, Forward
      <4>4. DOMAIN globals' = DOMAIN globals \cup {m.name}
        BY <4>3 DEF With
      <4>5. StaysBindable /\ Bindable(globals', server'.removed, m.name)
        BY <2>0, <3>1, <4>4 DEF Bindable, Described, StaysBindable
      <4> HIDE DEF x
      <4> QED BY <4>2, <4>3, <4>5
    <3>2. CASE GlobalRemove(m)
      <4>1. m.op = "global_remove" /\ m.name \in server.removed
        BY <1>q, <2>1, <3>2 DEF GlobalRemove, Lasts
      <4>2. /\ \A n \in DOMAIN globals : n # m.name => n \in DOMAIN globals'
            /\ p2c' = p2c \/ p2c' = Append(p2c, m)
        BY <3>2 DEF GlobalRemove, Without, Restrict, Forward, Drop
      <4>3. StaysBindable
        BY <2>0, <4>1, <4>2 DEF Bindable, Described, StaysBindable
      <4> QED BY <2>1, <4>1, <4>2, <4>3
    <3>3. CASE UNCHANGED globals /\ (p2c' = p2c \/ (p2c' = Append(p2c, m) /\ m.op # "global"))
      BY <1>b, <2>0, <2>1, <3>3
    <3>4. CASE Global(m) /\ ~Described(m.name)
      BY <3>3, <3>4 DEF Global, Drop
    <3>5. CASE DeleteIdEvent(m) \/ PlainEvent(m)
      BY <3>3, <3>5 DEF DeleteIdEvent, PlainEvent, Forward
    <3>6. CASE NewObject(m, s2p, p2c)
      BY <3>3, <3>6 DEF NewObject, Forward, Close
    <3>7. CASE Undecodable(m, s2p, p2c)
      BY <3>3, <3>7 DEF Undecodable, Close
    <3> QED BY <1>2, <3>1, <3>2, <3>4, <3>5, <3>6, <3>7 DEF JudgeEvent
  <2>4. \A k \in 1 .. Len(s2p') :
          s2p'[k].op = "global_remove" => s2p'[k].name \in server'.removed
    BY <1>q, <2>0, <2>2, PopsKeep DEF Lasts
  <2>5. \A k \in 1 .. Len(p2c') : p2c'[k].op = "global" =>
          /\ Bindable(globals', server'.removed, p2c'[k].name)
          /\ p2c'[k].version = Offer(p2c'[k].name)
    <3>1. CASE p2c' = p2c
      BY <1>q, <2>3, <3>1 DEF Lasts, StaysBindable
    <3>2. CASE p2c' # p2c
      <4>1. PICK x \in Messages :
              /\ p2c' = Append(p2c, x)
              /\ x.op = "global" => /\ Bindable(globals', server'.removed, x.name)
                                    /\ x.version = Offer(x.name)
        BY <2>3, <3>2
      <4>2. \A k \in 1 .. Len(p2c') : p2c'[k] = x \/ \E l \in 1 .. Len(p2c) : p2c'[k] = p2c[l]
        BY <1>q, <4>1, AppendPuts, PutsKeep
      <4> QED BY <1>q, <2>3, <4>1, <4>2 DEF Lasts, StaysBindable
    <3> QED BY <3>1, <3>2
  <2> QED BY <1>q, <2>0, <2>3, <2>4, <2>5 DEF Lasts, StaysBindable
<1>3. CASE Tick
  BY <1>q, <1>3 DEF Tick, Lasts
<1>4. CASE ClientSends
  <2>1. PICK m : /\ Puts(c2p, c2p', m) /\ Aside /\ UNCHANGED <<p2s, s2p, p2c, server>>
                 /\ client'.honest = client.honest /\ client'.seen = client.seen
                 /\ IsRequest(m) /\ (client.honest => Fair(m))
    BY <1>4, SendsRequest
  <2>2. StaysBindable
    BY <1>b, <2>1 DEF Aside
  <2>3. ASSUME client.honest, m.op = "bind"
        PROVE  /\ Bindable(globals, server.removed, m.name) /\ m.iface = Globals[m.name].iface
               /\ m.version \in 1 .. Offer(m.name)
    <3>1. /\ Bindable(globals, server.removed, m.name) /\ m.iface = Globals[m.name].iface
          /\ 1 <= m.version /\ m.version <= Offer(m.name)
      BY <1>q, <2>1, <2>3 DEF Fair, Lasts
    <3>2. m.version \in Nat /\ Offer(m.name) \in Nat
      BY <2>1, <2>3, <3>1, TableAssumption DEF IsRequest, Messages, Bindable, Described, Offer
    <3> QED BY <3>1, <3>2
  <2>4. \A k \in 1 .. Len(c2p') : c2p'[k] = m \/ \E l \in 1 .. Len(c2p) : c2p'[k] = c2p[l]
    BY <2>1, PutsKeep
  <2>5. client'.honest =>
          \A k \in 1 .. Len(c2p') : c2p'[k].op = "bind" =>
            /\ Bindable(globals, server.removed, c2p'[k].name)
            /\ c2p'[k].iface = Globals[c2p'[k].name].iface
            /\ c2p'[k].version \in 1 .. Offer(c2p'[k].name)
    BY <1>q, <2>1, <2>3, <2>4 DEF Lasts
  <2> QED BY <1>q, <2>1, <2>2, <2>5 DEF Lasts, StaysBindable
<1>5. CASE ClientReads
  <2>1. /\ Pops(p2c, p2c') /\ Aside /\ UNCHANGED <<c2p, p2s, s2p, server>>
        /\ client'.honest = client.honest /\ ClientHears(p2c[1]) /\ 1 \in 1 .. Len(p2c)
    BY <1>5, ReadsEvent DEF Pops
  <2>2. StaysBindable
    BY <1>b, <2>1 DEF Aside
  <2>3. \A n \in DOMAIN client'.seen :
          Bindable(globals, server.removed, n) /\ client'.seen[n] = Offer(n)
    BY <1>q, <2>1 DEF Lasts, ClientHears
  <2> QED BY <1>q, <2>1, <2>2, <2>3, PopsKeep DEF Lasts, StaysBindable
<1>6. CASE CompositorSends
  <2>1. Aside /\ UNCHANGED <<c2p, p2s, p2c, client>> /\ Honours
    BY <1>6, SendsEvent
  <2>2. StaysBindable
    BY <1>b, <2>1 DEF Aside, Honours
  <2> QED BY <1>q, <2>1, <2>2 DEF Lasts, Honours, Vouched, StaysBindable
<1>7. CASE CompositorReads
  <2>1. /\ Aside /\ UNCHANGED <<c2p, p2c, client>> /\ server'.removed = server.removed
        /\ \A k \in 1 .. Len(s2p') : Vouched(server, s2p'[k])
    BY <1>7, ReadsRequest
  <2>2. StaysBindable
    BY <1>b, <2>1 DEF Aside
  <2> QED BY <1>q, <2>1, <2>2 DEF Lasts, Vouched, StaysBindable
<1> QED BY <1>1, <1>2, <1>3, <1>4, <1>5, <1>6, <1>7 DEF PolicyNext

(* The proxy's clock is the time since the user's last input: nothing else   *)
(* sets it, and no input is missed.                                          *)
LEMMA NextQuiet ==
  ASSUME PolicyInv, PolicyNext
  PROVE  quiet' = age'
<1>0. quiet = age
  BY DEF PolicyInv
<1>1. CASE JudgeRequest
  <2>1. UNCHANGED <<age, quiet>>
    BY <1>1 DEF JudgeRequest, Bind, Receive, NewObject, DestroyRequest, Undecodable, Close, proxy
  <2> QED BY <1>0, <2>1
<1>2. CASE JudgeEvent
  <2> DEFINE m == Head(s2p)
  <2>0. closed = "no" /\ quiet' = IF m.op = "input" /\ closed' = "no" THEN 0 ELSE quiet
    BY <1>2 DEF JudgeEvent
  <2>1. CASE Global(m) \/ GlobalRemove(m) \/ DeleteIdEvent(m)
    BY <1>0, <2>0, <2>1 DEF Global, GlobalRemove, DeleteIdEvent
  <2>2. CASE NewObject(m, s2p, p2c)
    BY <1>0, <2>0, <2>2 DEF NewObject, Close
  <2>3. CASE PlainEvent(m)
    BY <1>0, <2>0, <2>3 DEF PlainEvent
  <2>4. CASE Undecodable(m, s2p, p2c)
    BY <1>0, <2>0, <2>4 DEF Undecodable, Close
  <2> QED BY <1>2, <2>1, <2>2, <2>3, <2>4 DEF JudgeEvent
<1>3. CASE Tick
  BY <1>0, <1>3 DEF Tick
<1>4. CASE ClientSends \/ ClientReads \/ CompositorSends \/ CompositorReads
  BY <1>0, <1>4 DEF ClientSends, ClientReads, CompositorSends, CompositorReads, proxy
<1> QED BY <1>1, <1>2, <1>3, <1>4 DEF PolicyNext

(* The gate on clipboard reads, in one step.                                 *)
LEMMA NextGated ==
  ASSUME PolicyInv, [PolicyNext]_pvars,
         c2p # <<>>, Head(c2p).op = "receive", c2p' = Tail(c2p), closed' = "no"
  PROVE  p2s' = Append(p2s, Head(c2p)) <=> gate = "open" \/ quiet <= Window
<1>0. /\ c2p \in Seq(Messages) /\ p2s \in Seq(Messages) /\ Head(c2p) \in Messages /\ quiet = age
      /\ Pops(c2p, c2p') /\ Len(c2p') # Len(c2p)
  BY TailPops DEF PolicyInv, Shapes, Pops
<1>1. ~UNCHANGED c2p
  BY <1>0
<1>2. ~ClientSends
  <2>1. ASSUME ClientSends PROVE FALSE
    <3>1. PICK m : Puts(c2p, c2p', m)
      BY <2>1, SendsRequest
    <3> DEFINE a == Len(c2p)  b == Len(c2p')
    <3>2. a \in Nat /\ b \in Nat /\ a = b + 1
      BY <1>0 DEF Pops
    <3>3. b = a + 1
      BY <3>1 DEF Puts
    <3> HIDE DEF a, b
    <3> QED BY <3>2, <3>3
  <2> QED BY <2>1
<1>3. JudgeRequest
  BY <1>1, <1>2 DEF PolicyNext, pvars, JudgeEvent, Tick, ClientReads, CompositorSends,
                    CompositorReads
<1>4. Receive(Head(c2p))
  BY <1>3 DEF JudgeRequest, Bind, NewObject, DestroyRequest, Undecodable, Close
<1>5. Len(Append(p2s, Head(c2p))) # Len(p2s)
  BY <1>0
<1> QED BY <1>0, <1>4, <1>5 DEF Receive, ReadAllowed, Forward, Drop

(* Every step keeps the invariant.                                          *)
LEMMA NextPolicyInv == PolicyInv /\ [PolicyNext]_pvars => PolicyInv'
<1> SUFFICES ASSUME PolicyInv, [PolicyNext]_pvars PROVE PolicyInv'
    OBVIOUS
<1>0. HonestServed /\ client.honest \in BOOLEAN
  BY DEF PolicyInv, ClientOK
<1>1. CASE UNCHANGED pvars
  <2>1. Shapes' /\ ClientOK' /\ ServerOK' /\ MapOK' /\ Shown'
    BY <1>1 DEF PolicyInv, pvars, Shapes, ClientOK, ServerOK, MapOK, ZombiesCounted, MapBounded, Shown,
                BoundWasShown
  <2>4. Lasts' /\ quiet' = age'
    BY <1>1 DEF PolicyInv, pvars, Lasts, Bindable, Described, Offer
  <2>2. HonestServed' /\ client' = client /\ closed' = closed
    BY <1>0, <1>1 DEF pvars, HonestServed
  <2>3. ASSUME client.honest, closed = "no" PROVE InProtocol'
    <3>1. Serving /\ Aside /\ UNCHANGED <<c2p, p2c, client>> /\ UNCHANGED <<p2s, s2p, server>>
      BY <1>1, <2>3 DEF Serving, Aside, pvars
    <3>2. OnePlace /\ Once /\ Decodable /\ LastWords /\ Announced
      BY <2>3 DEF PolicyInv, InProtocol
    <3>3. OnePlace' /\ Once' /\ LastWords'
      BY <3>1, <3>2 DEF OnePlace, Once, LastWords, Asked, Passed, Given, Freed, Quiet, Aside
    <3>4. Decodable'
      BY <3>1, <3>2, NearKeeps, AsideKeeps DEF Decodable, Arrived
    <3>5. Announced'
      BY <3>1, <3>2, BeyondKeeps
    <3> QED BY <3>3, <3>4, <3>5 DEF InProtocol
  <2> QED BY <2>1, <2>2, <2>3, <2>4 DEF PolicyInv
<1>2. CASE PolicyNext
  <2>1. Shapes' /\ ClientOK' /\ ServerOK' /\ MapOK' /\ Shown'
    BY <1>2, NextBase DEF Base
  <2> SUFFICES HonestServed' /\ (client'.honest /\ closed' = "no" => InProtocol')
    BY <1>2, <2>1, NextLasts, NextQuiet DEF PolicyInv
  <2>2. ASSUME client'.honest = client.honest, closed = "no", closed' = "no",
               client.honest => InProtocol'
        PROVE  HonestServed' /\ (client'.honest /\ closed' = "no" => InProtocol')
    BY <1>0, <2>2 DEF HonestServed
  <2>3. ASSUME client.honest, closed = "no" PROVE Serving
    BY <2>3 DEF Serving
  <2>4. CASE JudgeRequest
    <3>0. closed = "no" /\ client' = client /\ server' = server /\ 1 \in 1 .. Len(c2p)
      BY <2>4, TailPops DEF JudgeRequest, PolicyInv, Shapes, Pops
    <3>1. CASE LetsCreate
      BY <2>2, <2>3, <3>0, <3>1, CreateServes DEF LetsCreate, Stays
    <3>2. CASE LetsPass \/ LetsDrop
      BY <2>2, <2>3, <3>0, <3>2, PassServes DEF LetsPass, LetsDrop, Stays
    <3>3. CASE closed' # "no" /\ (client.honest => closed' \in Losses)
      BY <3>0, <3>3 DEF HonestServed, Losses
    <3> QED BY <2>4, <3>1, <3>2, <3>3, JudgesRequest
  <2>5. CASE JudgeEvent
    <3>0. closed = "no" /\ client' = client /\ server' = server /\ 1 \in 1 .. Len(s2p)
      BY <2>5, TailPops DEF JudgeEvent, PolicyInv, Shapes, Pops
    <3>1. CASE LetsHear \/ LetsOffer
      BY <2>2, <2>3, <3>0, <3>1, HearServes DEF LetsHear, LetsOffer, Stays
    <3>2. CASE LetsDelete
      BY <2>2, <2>3, <3>0, <3>2, DeleteServes DEF LetsDelete, Stays
    <3>3. CASE closed' # "no" /\ (client.honest => closed' \in Losses)
      BY <3>0, <3>3 DEF HonestServed, Losses
    <3> QED BY <2>5, <3>1, <3>2, <3>3, JudgesEvent
  <2>6. CASE Tick
    <3>1. /\ closed = "no" /\ closed' = "no" /\ client' = client
          /\ UNCHANGED <<objects, c2p, p2s, s2p, p2c, server>>
      BY <2>6 DEF Tick
    <3>2. ASSUME client.honest PROVE InProtocol'
      <4>1. OnePlace /\ Once /\ Decodable /\ LastWords /\ Announced
        BY <3>1, <3>2 DEF PolicyInv, InProtocol
      <4>2. OnePlace' /\ Once' /\ LastWords'
        BY <3>1, <4>1 DEF OnePlace, Once, LastWords, Asked, Passed, Given, Freed, Quiet
      <4>3. Decodable'
        BY <3>1, <4>1 DEF Decodable, Awaited, Arrived, Held, OwnRange, Asked, Mapped
      <4>4. Announced'
        BY <3>1, <4>1 DEF Announced, Foretold, Agreed, Promised, Known, Mapped
      <4> QED BY <4>2, <4>3, <4>4 DEF InProtocol
    <3> QED BY <2>2, <3>1, <3>2
  <2>7. CASE ClientSends
    <3>1. PICK m : /\ IsRequest(m) /\ Puts(c2p, c2p', m)
                   /\ Aside /\ UNCHANGED <<p2s, s2p, p2c, server>> /\ closed = "no"
                   /\ client'.honest = client.honest
                   /\ client.honest => ClientAsks(m) \/ ClientUses(m) \/ ClientEnds(m)
      BY <2>7, SendsRequest
    <3>2. ASSUME client.honest PROVE InProtocol'
      BY <2>3, <3>1, <3>2, AskServes, UseServes
    <3> QED BY <2>2, <3>1, <3>2 DEF Aside
  <2>8. CASE ClientReads
    <3>1. /\ IsEvent(p2c[1]) /\ Pops(p2c, p2c')
          /\ Aside /\ UNCHANGED <<c2p, p2s, s2p, server>> /\ closed = "no"
          /\ client'.honest = client.honest
          /\ client.honest =>
               ClientFrees(p2c[1]) \/ ClientLearns(p2c[1]) \/ ClientNotes(p2c[1])
      BY <2>8, ReadsEvent
    <3>2. ASSUME client.honest PROVE InProtocol'
      BY <2>3, <3>1, <3>2, FreeServes, LearnServes
    <3> QED BY <2>2, <3>1, <3>2 DEF Aside
  <2>9. CASE CompositorSends
    <3>1. PICK m : /\ closed = "no" /\ Aside /\ UNCHANGED <<c2p, p2s, p2c, client>> /\ IsEvent(m)
                   /\ TellsGlobal(m) \/ TellsOffer(m) \/ TellsPlain(m) \/ TellsDone(m)
      BY <2>9, SendsEvent
    <3>2. ASSUME client.honest PROVE InProtocol'
      BY <2>3, <3>1, <3>2, TellServes, DoneServes
    <3> QED BY <2>2, <3>1, <3>2 DEF Aside
  <2>10. CASE CompositorReads
    <3>0. 1 \in 1 .. Len(p2s)
      BY <2>10, TailPops DEF CompositorReads, PolicyInv, Shapes, Pops
    <3>1. /\ closed = "no" /\ Aside /\ UNCHANGED <<c2p, p2c, client>> /\ Pops(p2s, p2s')
          /\ Fulfils(p2s[1]) \/ Releases(p2s[1]) \/ Ignores(p2s[1])
      BY <2>10, ReadsRequest
    <3>2. ASSUME client.honest PROVE InProtocol'
      BY <2>3, <3>0, <3>1, <3>2, FulfilServes, ReleaseServes, IgnoreServes
    <3> QED BY <2>2, <3>1, <3>2 DEF Aside
  <2> QED BY <1>2, <2>4, <2>5, <2>6, <2>7, <2>8, <2>9, <2>10 DEF PolicyNext
<1> QED BY <1>1, <1>2

(* However the messages on their way interleave: a client that keeps the     *)
(* protocol loses its connection only to the cap or for a bind of a global   *)
(* the compositor has withdrawn, the compositor is bound only to what it     *)
(* offered and the tables describe, the cap counts the dead ids it means to, *)
(* and a clipboard read goes on exactly when the gate is open or input went  *)
(* past within the window (policy.rs, objects.rs).                           *)
THEOREM PolicyKeptHolds == PolicySpec => PolicyKept
<1>1. PolicyInv => HonestServed /\ BoundWasShown /\ ZombiesCounted
  BY DEF PolicyInv, Shown, MapOK
<1>2. PolicySpec => []PolicyInv
  BY InitPolicyInv, NextPolicyInv, PTL DEF PolicySpec
<1>3. PolicyInv /\ [PolicyNext]_pvars =>
        [c2p # << >> /\ Head(c2p).op = "receive" /\ c2p' = Tail(c2p) /\ closed' = "no"
           => (p2s' = Append(p2s, Head(c2p)) <=> gate = "open" \/ quiet <= Window)]_pvars
  BY NextGated
<1> QED BY <1>1, <1>2, <1>3, PTL DEF PolicySpec, PolicyKept, ReadsGated

(* The map of a connection's objects never holds more than twice MaxObjects, *)
(* whatever the client and the compositor send (Objects::record).            *)
THEOREM MapBoundedHolds == PolicySpec => []MapBounded
<1>1. PolicyInv => MapBounded
  BY DEF PolicyInv, MapOK
<1> QED BY <1>1, InitPolicyInv, NextPolicyInv, PTL DEF PolicySpec

-----------------------------------------------------------------------------
(***************************************************************************)
(* The relay: RelayKept.  A descriptor stays with the message that owns    *)
(* it, and what waits for a peer that does not read is bounded.            *)
(***************************************************************************)

Frame == [m : Nat, off : {0, 1}, fds : Seq(Nat)]
UnitSent == [m : Nat, part : {1, 2}, fds : Seq(Nat)]
Batch == [units : 1 .. MaxBatch, fds : Seq(Nat), from : Nat]
SideState == [buf : Nat, next : Nat \ {0}, fds : Seq(Nat), out : Seq(Frame), eof : BOOLEAN]
PeerState == [sent : Nat, in : Seq(Batch), sock : Seq(UnitSent),
              shut : BOOLEAN, gone : BOOLEAN, clean : BOOLEAN]

(* Only the first frame of a queue may be cut.                              *)
Tidy(out) == \A j \in DOMAIN out : j > 1 => out[j].off = 0

(* A frame of which nothing was written owns its message's descriptor.      *)
Carried(out) ==
  \A j \in DOMAIN out :
    out[j].fds = IF out[j].off = 0 /\ out[j].m > 0 THEN <<out[j].m>> ELSE << >>
Ridden(sock) ==
  \A i \in DOMAIN sock :
    sock[i].fds = IF sock[i].part = 1 /\ sock[i].m > 0 THEN <<sock[i].m>> ELSE << >>

(* Of a peer that never sent too many or too few: what is held are the      *)
(* descriptors of the messages begun and not yet looked at, and the batches *)
(* on their way go on from there.                                           *)
Read(sd) == Size * (sd.next - 1) + sd.buf
HeldBack(sd) == sd.fds = Numbered(sd.next - 1, Begun(Read(sd)))
Chained(in, from, to) ==
  /\ in = << >> => from = to
  /\ in # << >> => in[1].from = from
  /\ \A j \in DOMAIN in :
       /\ in[j].fds = Numbered(Begun(in[j].from), Begun(in[j].from + in[j].units))
       /\ in[j].from + in[j].units = IF j = Len(in) THEN to ELSE in[j + 1].from
Aligned(sd, p) == HeldBack(sd) /\ Chained(p.in, Read(sd), p.sent)

(* What holds of a connection, given its sides, its peers and closing.      *)
Sound(sd, p, cl) ==
  \A s \in Sides :
    /\ Tidy(sd[s].out)
    /\ p[s].clean => Aligned(sd[s], p[s])
    /\ p[Other(s)].clean => Carried(sd[s].out) /\ Ridden(p[s].sock)
    /\ ~cl => sd[s].buf < Size
    /\ Len(p[s].sock) <= Cap

QueueRoom == MaxQueue - 1 + Size * ((Size - 1 + MaxBatch) \div Size)
Within(sd, cl) ==
  /\ Bytes(sd["server"].out) <= QueueRoom
  /\ Bytes(sd["client"].out) <= QueueRoom + (IF cl THEN Size ELSE 0)

(* A side that poll woke has room to be read into, or is one whose peer has *)
(* gone with something still to be written to it: that write fails.         *)
Excused(c, s) == WantsIn(c, s) \/ (peer[c][s].gone /\ WantsOut(c, s))

RelayTypes ==
  /\ side \in [Conns -> [Sides -> SideState]]
  /\ peer \in [Conns -> [Sides -> PeerState]]
  /\ closing \in [Conns -> BOOLEAN]
AllSound == \A c \in Conns : Sound(side[c], peer[c], closing[c])
AllWithin == \A c \in Conns \ dead : Within(side[c], closing[c])
Round ==
  /\ pc # "serve" => dead = {} /\ todo = {}
  /\ todo \subseteq Conns \ dead
  /\ \A c \in todo, s \in Sides : <<c, s>> \in ready => Excused(c, s)
RelayInv == RelayTypes /\ AllSound /\ AllWithin /\ Round

-----------------------------------------------------------------------------
(* Writing: what Rest leaves and Unit sends.                                *)

LEMMA TwoOf ==
  ASSUME NEW a \in Int, NEW b \in Int
  PROVE  Min({a, b}) \in {a, b} /\ Min({a, b}) <= a /\ Min({a, b}) <= b
<1>1. \E x \in {a, b} : \A y \in {a, b} : x <= y OBVIOUS
<1> QED BY <1>1 DEF Min

LEMMA Halves ==
  ASSUME NEW u \in Nat
  PROVE  u % Size \in {0, 1} /\ u \div Size \in Nat /\ u = Size * (u \div Size) + (u % Size)
BY DEF Size

LEMMA BytesNat == ASSUME NEW out \in Seq(Frame) PROVE Bytes(out) \in Nat
<1>1. CASE out = << >> BY <1>1 DEF Bytes
<1>2. CASE out # << >>
  <2>1. Len(out) \in Nat /\ Len(out) >= 1 BY <1>2, EmptySeq, LenProperties
  <2>2. out[1] \in Frame BY <2>1, ElementOfSeq
  <2> QED BY <1>2, <2>1, <2>2 DEF Bytes, Frame, Size
<1> QED BY <1>1, <1>2

LEMMA UnitRides ==
  ASSUME NEW out \in Seq(Frame), out # << >>, NEW i \in 1 .. Bytes(out)
  PROVE  /\ Unit(out, i) \in UnitSent
         /\ Tidy(out) /\ Carried(out) =>
              LET u == Unit(out, i)
              IN  u.fds = IF u.part = 1 /\ u.m > 0 THEN <<u.m>> ELSE << >>
<1> DEFINE u == out[1].off + i - 1
           j == u \div Size + 1
<1>1. Len(out) \in Nat /\ Len(out) >= 1 BY EmptySeq, LenProperties
<1>2. out[1] \in Frame BY <1>1, ElementOfSeq
<1>3. i \in Nat /\ i >= 1 /\ i <= Size * Len(out) - out[1].off
  BY <1>1, <1>2 DEF Bytes, Size, Frame
<1>4. u \in Nat /\ u < Size * Len(out) BY <1>1, <1>2, <1>3 DEF Size, Frame
<1>5. j \in 1 .. Len(out) BY <1>1, <1>4 DEF Size
<1>6. out[j] \in Frame BY <1>5, <1>1, ElementOfSeq
<1>7. u % Size \in {0, 1} BY <1>4 DEF Size
<1> DEFINE U == Unit(out, i)
<1>8. U = [m |-> out[j].m, part |-> (u % Size) + 1,
                fds |-> IF u % Size = out[j].off THEN out[j].fds ELSE << >>]
  BY DEF Unit
<1>9. /\ U.m = out[j].m /\ U.part = (u % Size) + 1
      /\ U.fds = IF u % Size = out[j].off THEN out[j].fds ELSE << >>
  BY <1>8
<1>a. U \in UnitSent BY <1>6, <1>7, <1>8 DEF UnitSent, Frame
<1>b. ASSUME Tidy(out), Carried(out)
      PROVE  U.fds = IF U.part = 1 /\ U.m > 0 THEN <<U.m>> ELSE << >>
  <2>1. out[j].fds = IF out[j].off = 0 /\ out[j].m > 0 THEN <<out[j].m>> ELSE << >>
    BY <1>b, <1>5, LenProperties DEF Carried
  <2>2. CASE out[j].off = 0
    BY <2>1, <2>2, <1>9, <1>7
  <2>3. CASE out[j].off = 1
    <3>1. j = 1 BY <2>3, <1>b, <1>5, LenProperties DEF Tidy
    <3>2. u % Size = 1 BY <3>1, <2>3, <1>2, <1>3, <1>4 DEF Size, Frame
    <3>3. U.part = 2 /\ U.fds = << >> BY <3>2, <1>9, <2>1, <2>3
    <3> QED BY <3>3
  <2> QED BY <2>2, <2>3, <1>6 DEF Frame
<1> HIDE DEF U
<1>c. U = Unit(out, i) BY DEF U
<1> QED BY <1>a, <1>b, <1>c

LEMMA RestKept ==
  ASSUME NEW out \in Seq(Frame), out # << >>, NEW k \in 0 .. Bytes(out)
  PROVE  /\ Rest(out, k) \in Seq(Frame)
         /\ Bytes(Rest(out, k)) <= Bytes(out)
         /\ Tidy(out) => Tidy(Rest(out, k))
         /\ Tidy(out) /\ Carried(out) => Carried(Rest(out, k))
<1> DEFINE u == k + out[1].off
           a == u \div Size + 1
           r == SubSeq(out, a, Len(out))
           R == Rest(out, k)
<1>1. Len(out) \in Nat /\ Len(out) >= 1 BY EmptySeq, LenProperties
<1>2. out[1] \in Frame BY <1>1, ElementOfSeq
<1>3. k \in Nat /\ k <= Size * Len(out) - out[1].off
  BY <1>1, <1>2 DEF Bytes, Size, Frame
<1>4. u \in Nat /\ u <= Size * Len(out) /\ u >= out[1].off BY <1>1, <1>2, <1>3 DEF Size, Frame
<1>5. a \in Nat /\ a >= 1 /\ a <= Len(out) + 1 BY <1>1, <1>4 DEF Size
<1>6. /\ r \in Seq(Frame) /\ Len(r) = Len(out) - a + 1
      /\ \A j \in 1 .. Len(r) : r[j] = out[a + j - 1]
  <2>1. \A j \in a .. Len(out) : out[j] \in Frame BY <1>1, <1>5, ElementOfSeq
  <2> HIDE DEF a
  <2>2. r \in Seq(Frame) BY <2>1, <1>1, <1>5, SubSeqProperties
  <2>3. Len(r) = Len(out) - a + 1 BY <2>1, <1>1, <1>5, SubSeqProperties
  <2>4. \A j \in 1 .. Len(r) : r[j] = out[a + j - 1] BY <2>1, <2>3, <1>1, <1>5, SubSeqProperties
  <2> QED BY <2>2, <2>3, <2>4
<1>7. R = IF r = << >> \/ u % Size = 0 THEN r
          ELSE [r EXCEPT ![1] = [m |-> @.m, off |-> u % Size, fds |-> << >>]]
  BY DEF Rest
<1>8. u % Size \in {0, 1} /\ u = Size * (a - 1) + (u % Size)
  <2> HIDE DEF u
  <2>1. u % Size \in {0, 1} /\ u \div Size \in Nat /\ u = Size * (u \div Size) + (u % Size) BY <1>4, Halves
  <2>2. a - 1 = u \div Size BY <2>1
  <2> QED BY <2>1, <2>2
<1>9. \A j \in 1 .. Len(r) : a + j - 1 \in 1 .. Len(out) BY <1>1, <1>5, <1>6
<1> HIDE DEF a, r, R, u
<1>10. CASE r = << >>
  <2>1. R = << >> BY <1>10, <1>7
  <2>2. Bytes(R) = 0 BY <2>1 DEF Bytes
  <2>3. Bytes(out) \in Nat BY BytesNat
  <2> QED BY <2>1, <2>2, <2>3, EmptySeq DEF Tidy, Carried, R
<1>11. CASE r # << >> /\ u % Size = 0
  <2>1. R = r BY <1>11, <1>7
  <2>2. Len(r) \in Nat /\ Len(r) >= 1 BY <1>6, <1>11, EmptySeq, LenProperties
  <2>3. r[1] \in Frame BY <2>2, <1>6, ElementOfSeq
  <2>4. Bytes(R) <= Bytes(out)
    <3>1. Bytes(R) = Size * Len(r) - r[1].off BY <2>1, <1>11 DEF Bytes
    <3>2. Bytes(out) = Size * Len(out) - out[1].off BY DEF Bytes
    <3>3. r[1].off \in {0, 1} /\ out[1].off \in {0, 1} BY <1>2, <2>3 DEF Frame
    <3>4. CASE a = 1
      <4>1. r[1] = out[1] BY <3>4, <1>6, <2>2
      <4>2. Len(r) = Len(out) BY <3>4, <1>6, <1>1
      <4> QED BY <3>1, <3>2, <3>3, <4>1, <4>2, <1>1 DEF Size
    <3>5. CASE a > 1
      BY <3>1, <3>2, <3>3, <3>5, <1>6, <1>1, <1>5 DEF Size
    <3> QED BY <3>4, <3>5, <1>5
  <2>5. ASSUME Tidy(out) PROVE Tidy(r)
    <3>1. ASSUME NEW j \in DOMAIN r, j > 1 PROVE r[j].off = 0
      <4>1. j \in 1 .. Len(r) BY <1>6, LenProperties
      <4>2. a + j - 1 \in DOMAIN out /\ a + j - 1 > 1 BY <4>1, <1>9, <1>5, <3>1, LenProperties
      <4> QED BY <4>1, <4>2, <1>6, <2>5 DEF Tidy
    <3> QED BY <3>1 DEF Tidy
  <2>6. ASSUME Carried(out) PROVE Carried(r)
    <3>1. ASSUME NEW j \in DOMAIN r
          PROVE r[j].fds = IF r[j].off = 0 /\ r[j].m > 0 THEN <<r[j].m>> ELSE << >>
      <4>1. j \in 1 .. Len(r) BY <1>6, LenProperties
      <4>2. a + j - 1 \in DOMAIN out BY <4>1, <1>9, LenProperties
      <4> QED BY <4>1, <4>2, <1>6, <2>6 DEF Carried
    <3> QED BY <3>1 DEF Carried
  <2> QED BY <2>1, <2>4, <2>5, <2>6, <1>6 DEF R
<1>12. CASE r # << >> /\ u % Size = 1
  <2>2. Len(r) \in Nat /\ Len(r) >= 1 BY <1>6, <1>12, EmptySeq, LenProperties
  <2>3. r[1] \in Frame BY <2>2, <1>6, ElementOfSeq
  <2> DEFINE f == [m |-> r[1].m, off |-> 1, fds |-> << >>]
  <2>4. f \in Frame /\ f.off = 1 /\ f.fds = << >> BY <2>3 DEF Frame
  <2>1. R = [r EXCEPT ![1] = f]
    <3>1. ~(r = << >> \/ u % Size = 0) BY <1>12
    <3>2. R = [r EXCEPT ![1] = [m |-> r[1].m, off |-> u % Size, fds |-> << >>]] BY <3>1, <1>7
    <3> QED BY <3>2, <1>12
  <2> HIDE DEF f
  <2>5. R \in Seq(Frame) /\ Len(R) = Len(r) /\ R[1] = f
        /\ \A j \in 1 .. Len(r) : j > 1 => R[j] = r[j]
    <3>1. R \in Seq(Frame) BY <2>1, <1>6, <2>4, <2>2, ExceptSeq
    <3>2. Len(R) = Len(r) BY <2>1, <1>6, <2>4, <2>2, ExceptSeq
    <3>3. \A j \in 1 .. Len(r) : R[j] = IF j = 1 THEN f ELSE r[j] BY <2>1, <1>6, <2>4, <2>2, ExceptSeq
    <3> QED BY <3>1, <3>2, <3>3, <2>2
  <2>6. Bytes(R) <= Bytes(out)
    <3>1. R # << >> BY <2>5, <2>2, EmptySeq
    <3>2. Bytes(R) = Size * Len(r) - 1 BY <3>1, <2>5, <2>4 DEF Bytes
    <3>3. Bytes(out) = Size * Len(out) - out[1].off BY DEF Bytes
    <3> QED BY <3>2, <3>3, <1>6, <1>1, <1>2, <1>5 DEF Size, Frame
  <2>7. ASSUME Tidy(out) PROVE Tidy(R)
    <3>1. ASSUME NEW j \in DOMAIN R, j > 1 PROVE R[j].off = 0
      <4>1. j \in 1 .. Len(r) BY <2>5, LenProperties
      <4>2. a + j - 1 \in DOMAIN out /\ a + j - 1 > 1 BY <4>1, <1>9, <1>5, <3>1, LenProperties
      <4> QED BY <4>1, <4>2, <1>6, <2>7, <2>5, <3>1 DEF Tidy
    <3> QED BY <3>1 DEF Tidy
  <2>8. ASSUME Carried(out) PROVE Carried(R)
    <3>1. ASSUME NEW j \in DOMAIN R
          PROVE R[j].fds = IF R[j].off = 0 /\ R[j].m > 0 THEN <<R[j].m>> ELSE << >>
      <4>1. j \in 1 .. Len(r) BY <2>5, LenProperties
      <4>2. CASE j = 1 BY <4>2, <2>5, <2>4
      <4>3. CASE j > 1
        <5>1. a + j - 1 \in DOMAIN out BY <4>1, <1>9, LenProperties
        <5> QED BY <4>1, <4>3, <5>1, <1>6, <2>8, <2>5 DEF Carried
      <4> QED BY <4>1, <4>2, <4>3
    <3> QED BY <3>1 DEF Carried
  <2> QED BY <2>5, <2>6, <2>7, <2>8 DEF R
<1> QED BY <1>8, <1>10, <1>11, <1>12

LEMMA FlushKept ==
  ASSUME NEW sd \in SideState, NEW p \in PeerState, Len(p.sock) <= Cap
  PROVE  /\ Flushed(sd, p) \in SideState /\ Taken(sd, p) \in PeerState
         /\ \E o \in Seq(Frame) : Flushed(sd, p) = [sd EXCEPT !.out = o]
         /\ \E k \in Seq(UnitSent) : Taken(sd, p) = [p EXCEPT !.sock = k]
         /\ Len(Taken(sd, p).sock) <= Cap
         /\ Bytes(Flushed(sd, p).out) <= Bytes(sd.out)
         /\ Tidy(sd.out) => Tidy(Flushed(sd, p).out)
         /\ Tidy(sd.out) /\ Carried(sd.out) /\ Ridden(p.sock)
              => Carried(Flushed(sd, p).out) /\ Ridden(Taken(sd, p).sock)
<1>1. sd.out \in Seq(Frame) /\ p.sock \in Seq(UnitSent) BY DEF SideState, PeerState
<1>2. Bytes(sd.out) \in Nat BY <1>1, BytesNat
<1>3. CASE sd.out = << >> \/ p.gone
  <2>1. Flushed(sd, p) = sd /\ Taken(sd, p) = p BY <1>3 DEF Flushed, Taken
  <2>2. sd = [sd EXCEPT !.out = sd.out] /\ p = [p EXCEPT !.sock = p.sock] BY DEF SideState, PeerState
  <2> QED BY <2>1, <2>2, <1>1, <1>2
<1>4. CASE ~(sd.out = << >> \/ p.gone)
  <2> DEFINE k == Sent(sd, p)
             us == [i \in 1 .. k |-> Unit(sd.out, i)]
             o == Rest(sd.out, k)
             t == p.sock \o us
  <2>1. Len(p.sock) \in Nat BY <1>1, LenProperties
  <2>2. k \in Nat /\ k <= Bytes(sd.out) /\ k <= Cap - Len(p.sock)
    <3>1. Cap - Len(p.sock) \in Nat BY <2>1, RelayAssumption
    <3> DEFINE a == Cap - Len(p.sock)  b == Bytes(sd.out)
    <3>2. a \in Nat /\ b \in Nat BY <3>1, <1>2
    <3>3. k = Min({a, b}) BY DEF Sent
    <3> HIDE DEF a, b, k
    <3>5. a \in Int /\ b \in Int BY <3>2
    <3>6. Min({a, b}) \in {a, b} /\ Min({a, b}) <= a /\ Min({a, b}) <= b BY <3>5, TwoOf
    <3>4. k \in {a, b} /\ k <= a /\ k <= b BY <3>3, <3>6
    <3> QED BY <3>2, <3>4 DEF a, b
  <2>3. Flushed(sd, p) = [sd EXCEPT !.out = o] /\ Taken(sd, p) = [p EXCEPT !.sock = t]
    BY <1>4 DEF Flushed, Taken
  <2> HIDE DEF k
  <2>4. o \in Seq(Frame) /\ Bytes(o) <= Bytes(sd.out) /\ (Tidy(sd.out) => Tidy(o))
        /\ (Tidy(sd.out) /\ Carried(sd.out) => Carried(o))
    BY <1>1, <1>2, <1>4, <2>2, RestKept
  <2>5. us \in Seq(UnitSent) /\ Len(us) = k
    <3>1. ASSUME NEW i \in 1 .. k PROVE Unit(sd.out, i) \in UnitSent
      <4>1. i \in 1 .. Bytes(sd.out) BY <1>2, <2>2
      <4> QED BY <4>1, <1>1, <1>4, UnitRides
    <3> QED BY <3>1, <2>2, IsASeq
  <2>6. /\ t \in Seq(UnitSent) /\ Len(t) = Len(p.sock) + k
        /\ \A i \in 1 .. Len(p.sock) + k :
              t[i] = IF i <= Len(p.sock) THEN p.sock[i] ELSE us[i - Len(p.sock)]
    <3> HIDE DEF us
    <3> QED BY <1>1, <2>5, ConcatProperties
  <2>7. ASSUME Tidy(sd.out), Carried(sd.out), Ridden(p.sock) PROVE Ridden(t)
    <3>1. ASSUME NEW i \in DOMAIN t
          PROVE  t[i].fds = IF t[i].part = 1 /\ t[i].m > 0 THEN <<t[i].m>> ELSE << >>
      <4>1. i \in 1 .. Len(p.sock) + k BY <2>6, LenProperties
      <4>2. CASE i <= Len(p.sock)
        <5>1. i \in DOMAIN p.sock BY <4>1, <4>2, <1>1, LenProperties
        <5> QED BY <5>1, <4>1, <4>2, <2>6, <2>7 DEF Ridden
      <4>3. CASE i > Len(p.sock)
        <5>1. i - Len(p.sock) \in 1 .. k BY <4>1, <4>3, <2>1, <2>2
        <5>2. t[i] = Unit(sd.out, i - Len(p.sock))
          <6>1. ~(i <= Len(p.sock)) BY <4>1, <4>3, <2>1, <2>2
          <6>2. t[i] = us[i - Len(p.sock)] BY <6>1, <4>1, <2>6
          <6> QED BY <6>2, <5>1
        <5>3. i - Len(p.sock) \in 1 .. Bytes(sd.out) BY <5>1, <2>2, <1>2
        <5> QED BY <5>2, <5>3, <2>7, <1>1, <1>4, UnitRides
      <4> QED
        <5>1. i \in Int BY <4>1, <2>1, <2>2
        <5>2. i <= Len(p.sock) \/ i > Len(p.sock) BY <5>1, <2>1
        <5> QED BY <5>2, <4>2, <4>3
    <3> QED BY <3>1 DEF Ridden
  <2> HIDE DEF o, t
  <2>8. [sd EXCEPT !.out = o] \in SideState /\ [sd EXCEPT !.out = o].out = o BY <2>4 DEF SideState
  <2>9. [p EXCEPT !.sock = t] \in PeerState /\ [p EXCEPT !.sock = t].sock = t BY <2>6 DEF PeerState
  <2>10. Len(t) <= Cap BY <2>6, <2>2, <2>1, RelayAssumption
  <2> QED BY <2>3, <2>4, <2>6, <2>7, <2>8, <2>9, <2>10
<1> QED BY <1>3, <1>4

-----------------------------------------------------------------------------
(* Reading: the numbers of the messages begun in a stretch of the stream.   *)

LEMMA NumberedSeq ==
  ASSUME NEW a \in Nat, NEW b \in Nat, a <= b
  PROVE  /\ Numbered(a, b) \in Seq(Nat) /\ Len(Numbered(a, b)) = b - a
         /\ \A i \in 1 .. b - a : Numbered(a, b)[i] = a + i
<1>1. \A i \in 1 .. b - a : a + i \in Nat OBVIOUS
<1> QED BY <1>1, IsASeq DEF Numbered

LEMMA NumberedConcat ==
  ASSUME NEW a \in Nat, NEW b \in Nat, NEW c \in Nat, a <= b, b <= c
  PROVE  Numbered(a, b) \o Numbered(b, c) = Numbered(a, c)
<1> DEFINE x == Numbered(a, b)  y == Numbered(b, c)  z == Numbered(a, c)
<1>1. /\ x \in Seq(Nat) /\ Len(x) = b - a /\ \A i \in 1 .. b - a : x[i] = a + i
      /\ y \in Seq(Nat) /\ Len(y) = c - b /\ \A i \in 1 .. c - b : y[i] = b + i
      /\ z \in Seq(Nat) /\ Len(z) = c - a /\ \A i \in 1 .. c - a : z[i] = a + i
  <2>1. a <= c OBVIOUS
  <2> QED BY <2>1, NumberedSeq
<1> HIDE DEF x, y, z
<1>2. /\ x \o y \in Seq(Nat) /\ Len(x \o y) = Len(x) + Len(y)
      /\ \A i \in 1 .. Len(x) + Len(y) :
           (x \o y)[i] = IF i <= Len(x) THEN x[i] ELSE y[i - Len(x)]
  BY <1>1, ConcatProperties
<1>3. ASSUME NEW i \in 1 .. c - a PROVE (x \o y)[i] = z[i]
  <2>1. CASE i <= b - a BY <2>1, <1>1, <1>2
  <2>2. CASE i > b - a
    <3>1. i - (b - a) \in 1 .. c - b BY <2>2
    <3>2. y[i - (b - a)] = a + i BY <3>1, <1>1
    <3>3. (x \o y)[i] = y[i - (b - a)]
      <4>1. Len(x) = b - a /\ i \in 1 .. Len(x) + Len(y) /\ ~(i <= Len(x)) BY <2>2, <1>1
      <4>2. (x \o y)[i] = y[i - Len(x)] BY <4>1, <1>2
      <4> QED BY <4>1, <4>2
    <3> QED BY <3>2, <3>3, <1>1
  <2>3. i <= b - a \/ i > b - a OBVIOUS
  <2> QED BY <2>1, <2>2, <2>3
<1>4. Len(x \o y) = Len(z) BY <1>1, <1>2
<1>5. x \o y = z BY <1>1, <1>2, <1>3, <1>4, SeqEqual
<1> QED BY <1>5 DEF x, y, z

LEMMA NumberedDrop ==
  ASSUME NEW a \in Nat, NEW b \in Nat, a <= b, NEW n \in 0 .. b - a
  PROVE  SubSeq(Numbered(a, b), n + 1, Len(Numbered(a, b))) = Numbered(a + n, b)
<1> DEFINE x == Numbered(a, b)  z == Numbered(a + n, b)  y == SubSeq(x, n + 1, Len(x))
<1>0. a + n \in Nat /\ a + n <= b OBVIOUS
<1>1. /\ x \in Seq(Nat) /\ Len(x) = b - a /\ \A i \in 1 .. b - a : x[i] = a + i
      /\ z \in Seq(Nat) /\ Len(z) = b - (a + n) /\ \A i \in 1 .. b - (a + n) : z[i] = a + n + i
  BY <1>0, NumberedSeq
<1> HIDE DEF x, z
<1>2. \A i \in n + 1 .. Len(x) : x[i] \in Nat BY <1>1
<1>3. n + 1 \in Int /\ Len(x) \in Int /\ n + 1 <= Len(x) + 1 BY <1>1
<1>4. y \in Seq(Nat) BY <1>2, <1>3, SubSeqProperties
<1>5. Len(y) = b - (a + n) BY <1>1, <1>2, <1>3, SubSeqProperties
<1>6. \A i \in 1 .. b - (a + n) : y[i] = x[n + i] BY <1>1, <1>2, <1>3, <1>5, SubSeqProperties
<1>7. \A i \in 1 .. b - (a + n) : y[i] = z[i] BY <1>1, <1>6
<1>8. y = z BY <1>1, <1>4, <1>5, <1>7, SeqEqual
<1> QED BY <1>8 DEF x, z

LEMMA BegunGrows ==
  ASSUME NEW a \in Nat, NEW b \in Nat, a <= b
  PROVE  Begun(a) \in Nat /\ Begun(b) \in Nat /\ Begun(a) <= Begun(b)
BY DEF Begun, Size

LEMMA BegunOver ==
  ASSUME NEW n \in Nat, NEW b \in Nat
  PROVE  Begun(Size * n + b) = n + Begun(b) /\ Begun(b) \in Nat /\ b \div Size \in Nat /\ b \div Size <= Begun(b)
BY DEF Begun, Size

(* One recvmsg: the batch's descriptors follow the ones held.               *)
LEMMA ReceivedKept ==
  ASSUME NEW sd \in SideState, NEW p \in PeerState
  PROVE  /\ Received(sd, p) \in SideState /\ Drained(p) \in PeerState
         /\ \E i \in Seq(Batch) : Drained(p) = [p EXCEPT !.in = i]
         /\ Received(sd, p).out = sd.out /\ Received(sd, p).next = sd.next
         /\ Received(sd, p).buf <= sd.buf + MaxBatch
         /\ Aligned(sd, p) => Aligned(Received(sd, p), Drained(p))
<1>1. p.in \in Seq(Batch) /\ sd.buf \in Nat /\ sd.next \in Nat \ {0} /\ sd.fds \in Seq(Nat)
      /\ sd.out \in Seq(Frame) /\ sd.eof \in BOOLEAN
  BY DEF PeerState, SideState
<1>2. CASE p.in = << >>
  <2> DEFINE rd == [sd EXCEPT !.eof = TRUE]
  <2>1. Received(sd, p) = rd /\ Drained(p) = p BY <1>2 DEF Received, Drained
  <2>2. rd \in SideState /\ rd.out = sd.out /\ rd.next = sd.next /\ rd.buf = sd.buf /\ rd.fds = sd.fds
    BY DEF SideState
  <2>3. p = [p EXCEPT !.in = p.in] BY DEF PeerState
  <2> HIDE DEF rd
  <2>4. Aligned(sd, p) => Aligned(rd, p) BY <2>2 DEF Aligned, HeldBack, Read
  <2> QED BY <2>1, <2>2, <2>3, <2>4, <1>1, RelayAssumption
<1>3. CASE p.in # << >>
  <2> DEFINE b == Head(p.in)
             t == Tail(p.in)
             q == sd.buf + b.units
             g == sd.fds \o b.fds
             rd == [sd EXCEPT !.buf = q, !.fds = g]
             dp == [p EXCEPT !.in = t]
  <2>1. Received(sd, p) = rd /\ Drained(p) = dp BY <1>3 DEF Received, Drained
  <2>2. /\ b \in Batch /\ t \in Seq(Batch) /\ Len(t) = Len(p.in) - 1
        /\ \A i \in 1 .. Len(t) : t[i] = p.in[i + 1]
    BY <1>1, <1>3, HeadTailProperties
  <2>3. Len(p.in) \in Nat /\ Len(p.in) >= 1 /\ b = p.in[1] BY <1>1, <1>3, EmptySeq, LenProperties
  <2> HIDE DEF b, t
  <2>4. b.units \in Nat /\ b.units >= 1 /\ b.units <= MaxBatch /\ b.fds \in Seq(Nat) /\ b.from \in Nat
    BY <2>2, RelayAssumption DEF Batch
  <2>5. g \in Seq(Nat) /\ q \in Nat BY <1>1, <2>4, ConcatProperties
  <2>6. rd \in SideState /\ rd.out = sd.out /\ rd.next = sd.next /\ rd.buf = sd.buf + b.units
        /\ rd.fds = sd.fds \o b.fds
    <3> HIDE DEF g, q
    <3>1. rd \in SideState /\ rd.out = sd.out /\ rd.next = sd.next /\ rd.buf = q /\ rd.fds = g
      BY <2>5 DEF SideState
    <3> QED BY <3>1 DEF g, q
  <2>7. dp \in PeerState /\ dp.in = t /\ dp.sent = p.sent BY <2>2 DEF PeerState
  <2> HIDE DEF rd, dp
  <2>8. ASSUME Aligned(sd, p) PROVE Aligned(rd, dp)
    <3> DEFINE R == Read(sd)
    <3>1. R \in Nat /\ sd.next - 1 \in Nat /\ R = Size * (sd.next - 1) + sd.buf BY <1>1 DEF Read, Size
    <3>2. Read(rd) = R + b.units BY <2>6, <2>4, <1>1 DEF Read, Size
    <3> HIDE DEF R
    <3>3. b.from = R /\ b.fds = Numbered(Begun(R), Begun(R + b.units))
      <4>1. p.in[1].from = R BY <2>8, <1>3 DEF Aligned, Chained, R
      <4>2. 1 \in DOMAIN p.in BY <2>3, <1>1, LenProperties
      <4>3. p.in[1].fds = Numbered(Begun(p.in[1].from), Begun(p.in[1].from + p.in[1].units))
        BY <2>8, <4>2 DEF Aligned, Chained
      <4> QED BY <4>1, <4>3, <2>3
    <3>4. HeldBack(rd)
      <4>1. sd.fds = Numbered(sd.next - 1, Begun(R)) BY <2>8 DEF Aligned, HeldBack, R
      <4>2. Begun(R) \in Nat /\ Begun(R + b.units) \in Nat /\ Begun(R) <= Begun(R + b.units)
        <5> DEFINE Q == R + b.units
        <5>1. Q \in Nat /\ R <= Q BY <3>1, <2>4
        <5> HIDE DEF Q
        <5>2. Begun(R) \in Nat /\ Begun(Q) \in Nat /\ Begun(R) <= Begun(Q) BY <5>1, <3>1, BegunGrows
        <5> QED BY <5>2 DEF Q
      <4>3. sd.next - 1 <= Begun(R)
        <5> DEFINE N == sd.next - 1
        <5>1. N \in Nat /\ R = Size * N + sd.buf BY <3>1
        <5> HIDE DEF N
        <5>2. Begun(R) = N + Begun(sd.buf) /\ Begun(sd.buf) \in Nat BY <5>1, <1>1, BegunOver
        <5>3. N <= Begun(R) BY <5>1, <5>2
        <5> QED BY <5>3 DEF N
      <4>4. sd.fds \o b.fds = Numbered(sd.next - 1, Begun(R + b.units))
        <5> DEFINE A == sd.next - 1  B == Begun(R)  C == Begun(R + b.units)
        <5>1. A \in Nat /\ B \in Nat /\ C \in Nat /\ A <= B /\ B <= C BY <3>1, <4>2, <4>3
        <5> HIDE DEF A, B, C
        <5>2. Numbered(A, B) \o Numbered(B, C) = Numbered(A, C) BY <5>1, NumberedConcat
        <5> QED BY <5>2, <4>1, <3>3 DEF A, B, C
      <4> QED BY <4>4, <3>2, <2>6 DEF HeldBack
    <3>5. Chained(t, R + b.units, p.sent)
      <4>0. Chained(p.in, R, p.sent) BY <2>8 DEF Aligned, R
      <4>1. 1 \in DOMAIN p.in BY <2>3, <1>1, LenProperties
      <4>2. R + b.units = IF 1 = Len(p.in) THEN p.sent ELSE p.in[2].from
        <5>1. p.in[1].from + p.in[1].units = IF 1 = Len(p.in) THEN p.sent ELSE p.in[1 + 1].from
          BY <4>0, <4>1 DEF Chained
        <5> QED BY <5>1, <3>3, <2>3
      <4>3. t = << >> => R + b.units = p.sent BY <4>2, <2>2, <2>3, EmptySeq
      <4>4. ASSUME t # << >> PROVE t[1].from = R + b.units
        <5>1. Len(t) \in Nat /\ Len(t) >= 1 BY <4>4, <2>2, EmptySeq, LenProperties
        <5>2. Len(p.in) # 1 BY <5>1, <2>2, <2>3
        <5> QED BY <5>1, <5>2, <4>2, <2>2
      <4>5. ASSUME NEW j \in DOMAIN t
            PROVE  /\ t[j].fds = Numbered(Begun(t[j].from), Begun(t[j].from + t[j].units))
                   /\ t[j].from + t[j].units = IF j = Len(t) THEN p.sent ELSE t[j + 1].from
        <5>1. j \in 1 .. Len(t) BY <2>2, LenProperties
        <5>2. j + 1 \in DOMAIN p.in BY <5>1, <2>2, <2>3, <1>1, LenProperties
        <5>3. t[j] = p.in[j + 1] BY <5>1, <2>2
        <5>4. j = Len(t) <=> j + 1 = Len(p.in) BY <5>1, <2>2, <2>3
        <5>5. j # Len(t) => t[j + 1] = p.in[j + 1 + 1]
          <6>1. Len(t) \in Nat BY <2>2, LenProperties
          <6>2. j # Len(t) => j + 1 \in 1 .. Len(t) BY <5>1, <6>1
          <6> QED BY <6>2, <2>2
        <5>6. /\ p.in[j + 1].fds = Numbered(Begun(p.in[j + 1].from), Begun(p.in[j + 1].from + p.in[j + 1].units))
              /\ p.in[j + 1].from + p.in[j + 1].units = IF j + 1 = Len(p.in) THEN p.sent ELSE p.in[j + 1 + 1].from
          BY <4>0, <5>2 DEF Chained
        <5> QED BY <5>3, <5>4, <5>5, <5>6
      <4> QED BY <4>3, <4>4, <4>5 DEF Chained
    <3> QED BY <3>2, <3>4, <3>5, <2>7 DEF Aligned
  <2>9. rd.buf <= sd.buf + MaxBatch BY <2>4, <2>6, <1>1, RelayAssumption
  <2>10. \E i \in Seq(Batch) : dp = [p EXCEPT !.in = i] BY <2>2 DEF dp
  <2> QED BY <2>1, <2>6, <2>7, <2>8, <2>9, <2>10
<1> QED BY <1>2, <1>3

(* What a pump leaves of its side.                                          *)
LEMMA LeftKept ==
  ASSUME NEW sd \in SideState, NEW p \in PeerState, NEW s \in Sides, NEW r \in Rulings(sd, s),
         Tidy(sd.out)
  PROVE  /\ Left(sd, r) \in SideState
         /\ Tidy(Left(sd, r).out)
         /\ Carried(sd.out) => Carried(Left(sd, r).out)
         /\ Left(sd, r).out = IF Refused(sd, r) THEN Append(sd.out, ErrorFrame) ELSE sd.out
         /\ Bytes(Left(sd, r).out) = Bytes(sd.out) + (IF Refused(sd, r) THEN Size ELSE 0)
         /\ ~Refused(sd, r) => Left(sd, r).buf < Size
         /\ Aligned(sd, p) => Aligned(Left(sd, r), p)
<1> DEFINE n == Looked(sd, r)
           f == SubSeq(sd.fds, n + 1, Len(sd.fds))
           o == IF Refused(sd, r) THEN Append(sd.out, ErrorFrame) ELSE sd.out
           L == Left(sd, r)
<1>1. /\ sd.buf \in Nat /\ sd.next \in Nat \ {0} /\ sd.fds \in Seq(Nat) /\ Len(sd.fds) \in Nat
      /\ sd.out \in Seq(Frame) /\ sd.eof \in BOOLEAN
  BY LenProperties DEF SideState
<1>2. Whole(sd) \in Nat /\ Size * Whole(sd) <= sd.buf /\ sd.buf - Size * Whole(sd) < Size
  BY <1>1 DEF Whole, Size
<1>3. /\ n \in Nat /\ n <= Whole(sd)
      /\ ~Refused(sd, r) => n = Whole(sd)
  <2>1. CASE Refused(sd, r)
    <3>1. r.how = "refuse" /\ n = r.last BY <2>1 DEF Refused, Looked
    <3>2. r.last \in 1 .. Whole(sd) + 1 /\ (r.how = "all" <=> r.last > Whole(sd)) BY DEF Rulings
    <3> QED BY <3>1, <3>2, <2>1, <1>2
  <2>2. CASE ~Refused(sd, r) BY <2>2, <1>2 DEF Looked
  <2> QED BY <2>1, <2>2
<1>4. f \in Seq(Nat)
  <2>1. \A i \in n + 1 .. Len(sd.fds) : sd.fds[i] \in Nat BY <1>1, <1>3, ElementOfSeq
  <2> HIDE DEF n
  <2> QED BY <2>1, <1>1, <1>3, SubSeqProperties
<1>5. ErrorFrame \in Frame /\ ErrorFrame.off = 0 /\ ErrorFrame.m = 0 /\ ErrorFrame.fds = << >>
  BY DEF ErrorFrame, Frame
<1>6. o \in Seq(Frame) BY <1>1, <1>5, AppendProperties
<1>7. L = [sd EXCEPT !.buf = @ - Size * n, !.next = @ + n, !.fds = f, !.out = o] BY DEF Left
<1> HIDE DEF n, f, o, L
<1>8. sd.buf - Size * n \in Nat /\ sd.next + n \in Nat \ {0}
  <2> DEFINE v == sd.buf  w == Whole(sd)  z == sd.next
  <2>1. v \in Nat /\ w \in Nat /\ n \in Nat /\ n <= w /\ Size * w <= v /\ z \in Nat \ {0} BY <1>1, <1>2, <1>3
  <2> HIDE DEF v, w, z
  <2>2. v - Size * n \in Nat /\ z + n \in Nat \ {0} BY <2>1 DEF Size
  <2> QED BY <2>2 DEF v, z
<1>9. L \in SideState /\ L.buf = sd.buf - Size * n /\ L.next = sd.next + n /\ L.fds = f /\ L.out = o
  BY <1>4, <1>6, <1>7, <1>8 DEF SideState
<1>10. Tidy(o) /\ (Carried(sd.out) => Carried(o))
       /\ Bytes(o) = Bytes(sd.out) + (IF Refused(sd, r) THEN Size ELSE 0)
  <2>1. CASE Refused(sd, r)
    <3>1. o = Append(sd.out, ErrorFrame) BY <2>1 DEF o
    <3>2. /\ Len(o) = Len(sd.out) + 1 /\ Len(sd.out) \in Nat
          /\ \A i \in 1 .. Len(sd.out) : o[i] = sd.out[i]
          /\ o[Len(sd.out) + 1] = ErrorFrame /\ o # << >>
      <4>1. Len(sd.out) \in Nat BY <1>1, LenProperties
      <4> DEFINE w == sd.out  e == ErrorFrame
      <4>0. w \in Seq(Frame) /\ e \in Frame /\ o = Append(w, e) BY <3>1, <1>1, <1>5
      <4> HIDE DEF w, e
      <4>a. /\ Append(w, e) # << >> /\ Len(Append(w, e)) = Len(w) + 1
            /\ \A i \in 1 .. Len(w) : Append(w, e)[i] = w[i]
            /\ Append(w, e)[Len(w) + 1] = e
        BY <4>0, AppendProperties
      <4>2. /\ Len(o) = Len(sd.out) + 1 /\ o # << >>
            /\ \A i \in 1 .. Len(sd.out) : o[i] = sd.out[i]
            /\ o[Len(sd.out) + 1] = ErrorFrame
        BY <4>0, <4>a DEF w, e
      <4> QED BY <4>1, <4>2
    <3>3. \A j \in DOMAIN o : j = Len(sd.out) + 1 \/ (j \in DOMAIN sd.out /\ o[j] = sd.out[j])
      BY <3>2, <1>1, <1>6, LenProperties
    <3>4. Tidy(o) BY <3>2, <3>3, <1>5 DEF Tidy
    <3>5. ASSUME Carried(sd.out) PROVE Carried(o)
      <4>1. ASSUME NEW j \in DOMAIN o
            PROVE  o[j].fds = IF o[j].off = 0 /\ o[j].m > 0 THEN <<o[j].m>> ELSE << >>
        <5>1. CASE j = Len(sd.out) + 1
          <6>1. o[j] = ErrorFrame BY <5>1, <3>2
          <6> QED BY <6>1, <1>5
        <5>2. CASE j \in DOMAIN sd.out /\ o[j] = sd.out[j] BY <5>2, <3>5 DEF Carried
        <5> QED BY <5>1, <5>2, <3>3
      <4> QED BY <4>1 DEF Carried
    <3>6. Bytes(o) = Bytes(sd.out) + Size
      <4>1. CASE sd.out = << >>
        <5>1. Len(sd.out) = 0 BY <4>1, EmptySeq
        <5>2. Bytes(o) = Size BY <5>1, <3>2, <1>5 DEF Bytes, Size
        <5> QED BY <5>2, <4>1 DEF Bytes, Size
      <4>2. CASE sd.out # << >>
        <5>1. Len(sd.out) >= 1 BY <4>2, <3>2, <1>1, EmptySeq
        <5>2. o[1] = sd.out[1] BY <5>1, <3>2
        <5>3. sd.out[1] \in Frame BY <5>1, <3>2, <1>1, ElementOfSeq
        <5> QED BY <5>1, <5>2, <5>3, <4>2, <3>2 DEF Bytes, Size, Frame
      <4> QED BY <4>1, <4>2
    <3> QED BY <3>4, <3>5, <3>6, <2>1
  <2>2. CASE ~Refused(sd, r)
    <3>1. o = sd.out /\ Bytes(sd.out) \in Nat BY <2>2, <1>1, BytesNat DEF o
    <3> QED BY <3>1, <2>2
  <2> QED BY <2>1, <2>2
<1>11. ~Refused(sd, r) => L.buf < Size BY <1>2, <1>3, <1>9
<1>12. ASSUME Aligned(sd, p) PROVE Aligned(L, p)
  <2>1. Read(L) = Read(sd) BY <1>9, <1>1, <1>3 DEF Read, Size
  <2> DEFINE B == Begun(Read(sd))
  <2>2. /\ Read(sd) = Size * (sd.next - 1) + sd.buf /\ sd.next - 1 \in Nat /\ Read(sd) \in Nat
    BY <1>1 DEF Read, Size
  <2>3. B \in Nat /\ n <= B - (sd.next - 1)
    <3>1. B = (sd.next - 1) + Begun(sd.buf) /\ Begun(sd.buf) \in Nat /\ sd.buf \div Size <= Begun(sd.buf)
      BY <2>2, <1>1, BegunOver
    <3> QED BY <3>1, <1>2, <1>3, <2>2 DEF Whole
  <2> HIDE DEF B
  <2>4. sd.fds = Numbered(sd.next - 1, B) BY <1>12 DEF Aligned, HeldBack, B
  <2>5. f = Numbered(sd.next - 1 + n, B)
    <3> DEFINE N == sd.next - 1
    <3>1. N \in Nat /\ N <= B /\ n \in 0 .. B - N BY <2>2, <2>3, <1>3
    <3> HIDE DEF N
    <3>2. SubSeq(Numbered(N, B), n + 1, Len(Numbered(N, B))) = Numbered(N + n, B) BY <3>1, <2>3, NumberedDrop
    <3> QED BY <3>2, <2>4 DEF f, N
  <2>6. sd.next - 1 + n = L.next - 1 BY <1>9, <1>1, <1>3
  <2>7. HeldBack(L) BY <2>1, <2>5, <2>6, <1>9 DEF HeldBack, B
  <2> QED BY <2>1, <2>7, <1>12 DEF Aligned
<1> QED BY <1>9, <1>10, <1>11, <1>12 DEF L, o

(* The frames a pump queues, and what a queue is with them behind it.       *)
LEMMA FramesKept ==
  ASSUME NEW sd \in SideState, NEW s \in Sides, NEW r \in Rulings(sd, s)
  PROVE  /\ Frames(sd, r) \in Seq(Frame) /\ Len(Frames(sd, r)) <= Whole(sd)
         /\ \A j \in DOMAIN Frames(sd, r) : Frames(sd, r)[j].off = 0
         /\ HeldBack(sd) => Carried(Frames(sd, r))
<1> DEFINE F == Frames(sd, r)
<1>1. sd.buf \in Nat /\ sd.next \in Nat \ {0} /\ sd.fds \in Seq(Nat) /\ Len(sd.fds) \in Nat
  BY LenProperties DEF SideState
<1>2. Whole(sd) \in Nat BY <1>1 DEF Whole, Size
<1>3. /\ r.on \in Rising(Whole(sd)) /\ r.last \in 1 .. Whole(sd) + 1 /\ r.last - 1 <= Len(sd.fds)
      /\ \A i \in DOMAIN r.on : r.on[i] < r.last
  BY DEF Rulings
<1>4. PICK m \in 0 .. Whole(sd) : r.on \in [1 .. m -> 1 .. Whole(sd)] BY <1>3 DEF Rising
<1>5. ASSUME NEW j \in 1 .. m PROVE r.on[j] \in 1 .. Len(sd.fds) /\ r.on[j] \in Nat
  <2>1. r.on[j] \in 1 .. Whole(sd) /\ r.on[j] < r.last BY <1>3, <1>4
  <2>2. r.last \in Nat BY <1>2, <1>3
  <2> QED BY <2>1, <2>2, <1>1, <1>2, <1>3
<1> DEFINE G(j) == [m |-> sd.next + r.on[j] - 1, off |-> 0, fds |-> <<sd.fds[r.on[j]]>>]
<1>6. ASSUME NEW j \in 1 .. m PROVE G(j) \in Frame
  <2>1. sd.fds[r.on[j]] \in Nat BY <1>1, <1>5, ElementOfSeq
  <2>2. <<sd.fds[r.on[j]]>> \in Seq(Nat) BY <2>1
  <2>3. sd.next + r.on[j] - 1 \in Nat BY <1>1, <1>5
  <2> QED BY <2>2, <2>3 DEF Frame
<1>7. F = [j \in 1 .. m |-> G(j)] BY <1>4 DEF Frames
<1>8. F \in Seq(Frame) /\ Len(F) = m
  <2> HIDE DEF F, G
  <2> QED BY <1>6, <1>7, <1>4, IsASeq
<1>9. \A j \in DOMAIN F : j \in 1 .. m /\ F[j] = G(j) BY <1>7
<1>10. ASSUME HeldBack(sd) PROVE Carried(F)
  <2>1. ASSUME NEW j \in DOMAIN F
        PROVE  F[j].fds = IF F[j].off = 0 /\ F[j].m > 0 THEN <<F[j].m>> ELSE << >>
    <3> DEFINE N == sd.next - 1  B == Begun(Read(sd))
    <3>1. N \in Nat /\ Read(sd) = Size * N + sd.buf BY <1>1 DEF Read, Size
    <3> HIDE DEF N
    <3>2. B = N + Begun(sd.buf) /\ Begun(sd.buf) \in Nat BY <3>1, <1>1, BegunOver
    <3> HIDE DEF B
    <3>3. B \in Nat /\ N <= B BY <3>1, <3>2
    <3>4. sd.fds = Numbered(N, B) BY <1>10 DEF HeldBack, N, B
    <3>z. Len(Numbered(N, B)) = B - N /\ \A i \in 1 .. B - N : Numbered(N, B)[i] = N + i
      BY <3>1, <3>3, NumberedSeq, Zenon
    <3>5. Len(sd.fds) = B - N /\ \A i \in 1 .. B - N : sd.fds[i] = N + i BY <3>4, <3>z
    <3>6. F[j] = G(j) /\ j \in 1 .. m BY <1>9
    <3>7. sd.fds[r.on[j]] = N + r.on[j] BY <3>5, <3>6, <1>5
    <3>a. r.on[j] \in Nat /\ r.on[j] >= 1 BY <1>1, <1>5, <3>6
    <3>8. sd.next + r.on[j] - 1 = N + r.on[j] /\ sd.next + r.on[j] - 1 > 0 BY <1>1, <3>a DEF N
    <3>9. F[j].m = sd.next + r.on[j] - 1 /\ F[j].off = 0 /\ F[j].fds = <<sd.fds[r.on[j]]>> BY <3>6
    <3> QED BY <3>7, <3>8, <3>9
  <2> QED BY <2>1 DEF Carried
<1> QED BY <1>4, <1>8, <1>9, <1>10

LEMMA Joined ==
  ASSUME NEW o \in Seq(Frame), NEW F \in Seq(Frame), Tidy(o), \A j \in DOMAIN F : F[j].off = 0
  PROVE  /\ o \o F \in Seq(Frame) /\ Tidy(o \o F)
         /\ Bytes(o \o F) = Bytes(o) + Size * Len(F)
         /\ Carried(o) /\ Carried(F) => Carried(o \o F)
         /\ o # << >> => o \o F # << >>
<1> DEFINE q == o \o F
<1>1. Len(o) \in Nat /\ Len(F) \in Nat BY LenProperties
<1>2. /\ q \in Seq(Frame) /\ Len(q) = Len(o) + Len(F)
      /\ \A i \in 1 .. Len(o) + Len(F) : q[i] = IF i <= Len(o) THEN o[i] ELSE F[i - Len(o)]
  BY ConcatProperties
<1> HIDE DEF q
<1>3. ASSUME NEW j \in DOMAIN q
      PROVE  \/ j \in DOMAIN o /\ q[j] = o[j]
             \/ j - Len(o) \in DOMAIN F /\ q[j] = F[j - Len(o)]
  <2>1. j \in 1 .. Len(o) + Len(F) BY <1>2, LenProperties
  <2>2. j \in Int BY <2>1, <1>1
  <2>3. CASE j <= Len(o)
    <3>1. j \in 1 .. Len(o) BY <2>1, <2>3, <1>1
    <3> QED BY <3>1, <2>1, <2>3, <1>2, LenProperties
  <2>4. CASE ~(j <= Len(o))
    <3>1. j - Len(o) \in 1 .. Len(F) BY <2>1, <2>2, <2>4, <1>1
    <3> QED BY <3>1, <2>1, <2>4, <1>2, LenProperties
  <2> QED BY <2>3, <2>4
<1>4. Tidy(q) BY <1>3 DEF Tidy
<1>5. ASSUME Carried(o), Carried(F) PROVE Carried(q)
  <2>1. ASSUME NEW j \in DOMAIN q
        PROVE  q[j].fds = IF q[j].off = 0 /\ q[j].m > 0 THEN <<q[j].m>> ELSE << >>
    <3>1. CASE j \in DOMAIN o /\ q[j] = o[j] BY <3>1, <1>5 DEF Carried
    <3>2. CASE j - Len(o) \in DOMAIN F /\ q[j] = F[j - Len(o)] BY <3>2, <1>5 DEF Carried
    <3> QED BY <3>1, <3>2, <1>3
  <2> QED BY <2>1 DEF Carried
<1>6. o # << >> => q # << >>
  <2>1. o # << >> => Len(o) # 0 BY EmptySeq
  <2> QED BY <2>1, <1>1, <1>2, EmptySeq
<1>7. Bytes(q) = Bytes(o) + Size * Len(F)
  <2>1. CASE o # << >>
    <3>1. Len(o) >= 1 BY <2>1, <1>1, EmptySeq
    <3>2. q[1] = o[1] BY <3>1, <1>1, <1>2
    <3>3. o[1] \in Frame BY <3>1, <1>1, ElementOfSeq
    <3>4. Bytes(q) = Size * (Len(o) + Len(F)) - o[1].off BY <3>2, <1>2, <1>6, <2>1 DEF Bytes
    <3>5. Bytes(o) = Size * Len(o) - o[1].off BY <2>1 DEF Bytes
    <3>6. o[1].off \in {0, 1} BY <3>3 DEF Frame
    <3> DEFINE x == o[1].off  l == Len(o)  k == Len(F)
    <3>7. x \in Nat /\ l \in Nat /\ k \in Nat BY <3>6, <1>1
    <3> HIDE DEF x, l, k
    <3>8. Size * (l + k) - x = Size * l - x + Size * k BY <3>7 DEF Size
    <3> QED BY <3>4, <3>5, <3>8 DEF x, l, k
  <2>2. CASE o = << >> /\ F = << >>
    <3>1. Len(o) = 0 /\ Len(F) = 0 BY <2>2, EmptySeq
    <3>2. q = << >> BY <3>1, <1>2, EmptySeq
    <3> QED BY <2>2, <3>1, <3>2 DEF Bytes, Size
  <2>3. CASE o = << >> /\ F # << >>
    <3>1. Len(o) = 0 /\ Len(F) >= 1 BY <2>3, <1>1, EmptySeq
    <3>2. q # << >> BY <3>1, <1>1, <1>2, EmptySeq
    <3>3. q[1] = F[1] BY <3>1, <1>1, <1>2
    <3>4. 1 \in DOMAIN F BY <3>1, <1>1, LenProperties
    <3>5. q[1].off = 0 BY <3>3, <3>4
    <3> QED BY <2>3, <3>1, <3>2, <3>5, <1>1, <1>2 DEF Bytes, Size
  <2> QED BY <2>1, <2>2, <2>3
<1> QED BY <1>2, <1>4, <1>5, <1>6, <1>7 DEF q

-----------------------------------------------------------------------------
(* A whole pump of one side of a connection.                                *)

Conn == [side : [Sides -> SideState], peer : [Sides -> PeerState],
         closing : BOOLEAN, fault : BOOLEAN]

(* What one batch may add to a queue.                                       *)
Batched == Size * ((Size - 1 + MaxBatch) \div Size)

LEMMA PumpKept ==
  ASSUME NEW conn \in Conn, NEW s \in Sides, ~conn.closing,
         NEW r \in Rulings(Received(conn.side[s], conn.peer[s]), s),
         Sound(conn.side, conn.peer, conn.closing)
  PROVE  LET new == Pumped(conn, s, r)
         IN  /\ new \in Conn
             /\ Sound(new.side, new.peer, new.closing)
             /\ new.closing => s = "client"
             /\ \A x \in Sides : /\ new.peer[x].gone = conn.peer[x].gone
                                 /\ conn.side[x].out # << >> => new.side[x].out # << >>
             /\ Bytes(new.side[s].out) = Bytes(conn.side[s].out) + (IF new.closing THEN Size ELSE 0)
             /\ Bytes(new.side[Other(s)].out) <= Bytes(conn.side[Other(s)].out) + Batched
             /\ new.side[Other(s)].buf = conn.side[Other(s)].buf
             /\ new.side[Other(s)].fds = conn.side[Other(s)].fds
             /\ new.peer[Other(s)] = conn.peer[Other(s)]
<1> DEFINE t == Other(s)
           sd0 == conn.side[s]
           p0 == conn.peer[s]
           sd == Received(sd0, p0)
           p == Drained(p0)
           L == Left(sd, r)
           F == Frames(sd, r)
           d0 == conn.side[t]
           d == [d0 EXCEPT !.out = @ \o F]
           new == Pumped(conn, s, r)
<1>1. t \in Sides /\ t # s /\ Sides = {s, t} /\ Other(t) = s BY DEF Sides, Other
<1>2. sd0 \in SideState /\ p0 \in PeerState /\ d0 \in SideState /\ conn.peer[t] \in PeerState
  BY <1>1 DEF Conn
<1>3. /\ new.side = [x \in Sides |-> IF x = s THEN L ELSE d]
      /\ new.peer = [conn.peer EXCEPT ![s] = p]
      /\ new.closing = Refused(sd, r) /\ new.fault = Faulty(sd, r)
      /\ new = [side |-> new.side, peer |-> new.peer, closing |-> new.closing, fault |-> new.fault]
  BY DEF Pumped
<1> HIDE DEF t, sd0, p0, d0
<1>4. /\ sd \in SideState /\ p \in PeerState
      /\ p.sock = p0.sock /\ p.gone = p0.gone /\ p.clean = p0.clean
      /\ sd.out = sd0.out /\ sd.next = sd0.next /\ sd.buf <= sd0.buf + MaxBatch
      /\ Aligned(sd0, p0) => Aligned(sd, p)
  <2>1. /\ sd \in SideState /\ p \in PeerState
        /\ sd.out = sd0.out /\ sd.next = sd0.next /\ sd.buf <= sd0.buf + MaxBatch
        /\ Aligned(sd0, p0) => Aligned(sd, p)
    BY <1>2, ReceivedKept
  <2>2. PICK i \in Seq(Batch) : p = [p0 EXCEPT !.in = i] BY <1>2, ReceivedKept
  <2>3. p.sock = p0.sock /\ p.gone = p0.gone /\ p.clean = p0.clean BY <1>2, <2>2 DEF PeerState
  <2> QED BY <2>1, <2>3
<1>5. r \in Rulings(sd, s) BY DEF sd0, p0
<1> HIDE DEF sd, p
<1>6. /\ Tidy(sd0.out) /\ sd0.buf < Size /\ d0.buf < Size /\ Tidy(d0.out)
      /\ p0.clean => Aligned(sd0, p0)
      /\ conn.peer[t].clean => Aligned(d0, conn.peer[t])
      /\ conn.peer[t].clean => Carried(sd0.out) /\ Ridden(p0.sock)
      /\ p0.clean => Carried(d0.out) /\ Ridden(conn.peer[t].sock)
      /\ Len(p0.sock) <= Cap /\ Len(conn.peer[t].sock) <= Cap
  BY <1>1 DEF Sound, sd0, p0, d0, t
<1>7. /\ L \in SideState /\ Tidy(L.out)
      /\ Carried(sd.out) => Carried(L.out)
      /\ Bytes(L.out) = Bytes(sd.out) + (IF Refused(sd, r) THEN Size ELSE 0)
      /\ ~Refused(sd, r) => L.buf < Size
      /\ Aligned(sd, p) => Aligned(L, p)
      /\ L.out = IF Refused(sd, r) THEN Append(sd.out, ErrorFrame) ELSE sd.out
  BY <1>4, <1>5, <1>6, LeftKept
<1>8. sd.out # << >> => L.out # << >>
  <2>1. sd.out \in Seq(Frame) /\ ErrorFrame \in Frame BY <1>4 DEF SideState, ErrorFrame, Frame
  <2> QED BY <2>1, <1>7, AppendProperties
<1>9. /\ F \in Seq(Frame) /\ Len(F) <= Whole(sd) /\ \A j \in DOMAIN F : F[j].off = 0
      /\ HeldBack(sd) => Carried(F)
  BY <1>4, <1>5, FramesKept
<1> HIDE DEF L, F
<1>10. d0.out \in Seq(Frame) BY <1>2 DEF SideState
<1>11. /\ d0.out \o F \in Seq(Frame) /\ Tidy(d0.out \o F)
       /\ Bytes(d0.out \o F) = Bytes(d0.out) + Size * Len(F)
       /\ Carried(d0.out) /\ Carried(F) => Carried(d0.out \o F)
       /\ d0.out # << >> => d0.out \o F # << >>
  BY <1>6, <1>9, <1>10, Joined
<1> DEFINE q == d0.out \o F
<1>12. d \in SideState /\ d.out = q /\ d.buf = d0.buf /\ d.next = d0.next /\ d.fds = d0.fds
  <2>1. d = [d0 EXCEPT !.out = q] OBVIOUS
  <2> HIDE DEF q, d
  <2>2. q \in Seq(Frame) BY <1>11 DEF q
  <2> QED BY <2>1, <2>2, <1>2 DEF SideState
<1> HIDE DEF d, q
<1>13. Size * Len(F) <= Batched
  <2>1. Len(F) \in Nat BY <1>9, LenProperties
  <2>2. sd.buf \in Nat /\ sd.buf <= Size - 1 + MaxBatch
    <3>1. sd.buf \in Nat /\ sd0.buf \in Nat BY <1>2, <1>4 DEF SideState
    <3> QED BY <3>1, <1>4, <1>6, RelayAssumption DEF Size
  <2>3. Len(F) <= (Size - 1 + MaxBatch) \div Size BY <2>1, <2>2, <1>9, RelayAssumption DEF Whole, Size
  <2> QED BY <2>1, <2>3, RelayAssumption DEF Batched, Size
<1>14. /\ new.side[s] = L /\ new.side[t] = d /\ new.side \in [Sides -> SideState]
       /\ new.peer[s] = p /\ new.peer[t] = conn.peer[t] /\ new.peer \in [Sides -> PeerState]
  <2>1. conn.peer \in [Sides -> PeerState] BY DEF Conn
  <2> QED BY <2>1, <1>1, <1>3, <1>4, <1>7, <1>12
<1>15. new.closing \in BOOLEAN /\ new.fault \in BOOLEAN BY <1>3 DEF Refused, Faulty
<1>16. new \in Conn BY <1>3, <1>14, <1>15 DEF Conn
<1> HIDE DEF new
<1>17. new.closing => s = "client" BY <1>3, <1>5 DEF Refused, Rulings
<1>18. Sound(new.side, new.peer, new.closing)
  <2>1. ASSUME p.clean PROVE Aligned(L, p) /\ Carried(q) /\ Ridden(conn.peer[t].sock)
    <3>1. Aligned(sd, p) BY <2>1, <1>4, <1>6
    <3>2. HeldBack(sd) BY <3>1 DEF Aligned
    <3> QED BY <2>1, <3>1, <3>2, <1>4, <1>6, <1>7, <1>9, <1>11 DEF q
  <2>2. ASSUME conn.peer[t].clean PROVE Aligned(d, conn.peer[t]) /\ Carried(L.out) /\ Ridden(p.sock)
    <3>1. Aligned(d0, conn.peer[t]) BY <2>2, <1>6
    <3>2. Aligned(d, conn.peer[t]) BY <3>1, <1>12 DEF Aligned, HeldBack, Read
    <3> QED BY <2>2, <3>2, <1>4, <1>6, <1>7
  <2>3. Tidy(L.out) /\ Tidy(d.out) /\ Len(p.sock) <= Cap /\ Len(conn.peer[t].sock) <= Cap
        /\ (~new.closing => L.buf < Size) /\ d.buf < Size
    BY <1>3, <1>4, <1>6, <1>7, <1>11, <1>12 DEF q
  <2> DEFINE OK(x) == /\ Tidy(new.side[x].out)
                      /\ new.peer[x].clean => Aligned(new.side[x], new.peer[x])
                      /\ new.peer[Other(x)].clean => Carried(new.side[x].out) /\ Ridden(new.peer[x].sock)
                      /\ ~new.closing => new.side[x].buf < Size
                      /\ Len(new.peer[x].sock) <= Cap
  <2>4. OK(s) BY <2>1, <2>2, <2>3, <1>14 DEF t
  <2>5. OK(t) BY <2>1, <2>2, <2>3, <1>1, <1>12, <1>14
  <2>6. \A x \in Sides : OK(x) BY <2>4, <2>5, <1>1
  <2> QED BY <2>6 DEF Sound
<1>19. \A x \in Sides : /\ new.peer[x].gone = conn.peer[x].gone
                        /\ conn.side[x].out # << >> => new.side[x].out # << >>
  BY <1>1, <1>4, <1>8, <1>11, <1>12, <1>14 DEF sd0, p0, d0, q
<1>20. Bytes(new.side[s].out) = Bytes(conn.side[s].out) + (IF new.closing THEN Size ELSE 0)
  BY <1>3, <1>4, <1>7, <1>14 DEF sd0
<1>21. Bytes(new.side[t].out) <= Bytes(conn.side[t].out) + Batched
  <2>1. Bytes(d0.out) \in Nat BY <1>10, BytesNat
  <2>2. Bytes(new.side[t].out) = Bytes(d0.out) + Size * Len(F) BY <1>11, <1>12, <1>14 DEF q
  <2>3. Size * Len(F) \in Int /\ Batched \in Int
    <3>1. Len(F) \in Nat BY <1>9, LenProperties
    <3> QED BY <3>1, RelayAssumption DEF Size, Batched
  <2> QED BY <2>1, <2>2, <2>3, <1>13 DEF d0
<1> QED BY <1>12, <1>14, <1>16, <1>17, <1>18, <1>19, <1>20, <1>21 DEF t, d0, new

LEMMA RulingsSame ==
  ASSUME NEW a, NEW b, NEW s, a.buf = b.buf, a.fds = b.fds
  PROVE  Rulings(a, s) = Rulings(b, s)
BY DEF Rulings, Whole

LEMMA ReceivedSame ==
  ASSUME NEW a \in SideState, NEW b \in SideState, NEW p \in PeerState, a.buf = b.buf, a.fds = b.fds
  PROVE  Received(a, p).buf = Received(b, p).buf /\ Received(a, p).fds = Received(b, p).fds
<1>1. CASE p.in = << >> BY <1>1 DEF Received, SideState
<1>2. CASE p.in # << >>
  <2> DEFINE u == a.buf + Head(p.in).units
             f == a.fds \o Head(p.in).fds
  <2>1. Received(a, p) = [a EXCEPT !.buf = u, !.fds = f] BY <1>2 DEF Received
  <2>2. Received(b, p) = [b EXCEPT !.buf = u, !.fds = f] BY <1>2 DEF Received
  <2> HIDE DEF u, f
  <2> QED BY <2>1, <2>2 DEF SideState
<1> QED BY <1>1, <1>2

LEMMA ServeKept ==
  ASSUME RelayInv, NEW c \in todo, NEW rc \in Verdicts(c, "client"), NEW rs \in Verdicts(c, "server")
  PROVE  LET end == Served(c, rc, rs)
         IN  /\ end \in Conn /\ Sound(end.side, end.peer, end.closing)
             /\ Fails(end) \/ Within(end.side, end.closing)
<1> DEFINE old == Before(c)
           mid == Turned(c, rc)
           end == Served(c, rc, rs)
           B(x, s) == Bytes(x.side[s].out)
<1>1. c \in Conns /\ c \notin dead BY DEF RelayInv, Round
<1>2. /\ old.side = side[c] /\ old.peer = peer[c] /\ old.closing = closing[c] /\ ~old.fault
      /\ old \in Conn
  BY <1>1 DEF Before, RelayInv, RelayTypes, Conn
<1>3. Sound(old.side, old.peer, old.closing) /\ Within(old.side, old.closing)
  BY <1>1, <1>2 DEF RelayInv, AllSound, AllWithin
<1>4. \A s \in Sides : <<c, s>> \in ready =>
        \/ ~old.closing /\ B(old, Other(s)) < MaxQueue
        \/ old.peer[s].gone /\ old.side[s].out # << >>
  BY <1>2 DEF RelayInv, Round, Excused, WantsIn, WantsOut
<1> HIDE DEF old
<1>5. "client" \in Sides /\ "server" \in Sides /\ Other("client") = "server" /\ Other("server") = "client"
  BY DEF Sides, Other
<1>6. \A x \in Conn, s \in Sides : B(x, s) \in Nat
  <2>1. \A x \in Conn, s \in Sides : x.side[s].out \in Seq(Frame) BY DEF Conn, SideState
  <2> QED BY <2>1, BytesNat
<1>7. QueueRoom = MaxQueue - 1 + Batched /\ Batched \in Nat /\ QueueRoom \in Nat
  BY RelayAssumption DEF QueueRoom, Batched, Size
<1> DEFINE Same(x, y) == \A s \in Sides : /\ y.peer[s].gone = x.peer[s].gone
                                          /\ x.side[s].out # << >> => y.side[s].out # << >>
<1>8. /\ mid \in Conn /\ Sound(mid.side, mid.peer, mid.closing) /\ Same(old, mid)
      /\ mid.side["server"].buf = old.side["server"].buf /\ mid.side["server"].fds = old.side["server"].fds
      /\ mid.peer["server"] = old.peer["server"]
      /\ mid = old \/ (/\ ~old.closing /\ <<c, "client">> \in ready
                       /\ B(mid, "client") = B(old, "client") + (IF mid.closing THEN Size ELSE 0)
                       /\ B(mid, "server") <= B(old, "server") + Batched)
  <2>1. CASE mid = old BY <2>1, <1>2, <1>3
  <2>2. CASE mid # old
    <3>1. /\ mid = Pumped(old, "client", rc) /\ <<c, "client">> \in ready /\ ~old.closing
      BY <2>2 DEF Turned, Step, old
    <3>2. rc \in Rulings(Received(old.side["client"], old.peer["client"]), "client")
      BY <3>1, <1>2 DEF Verdicts
    <3> QED BY <3>1, <3>2, <1>2, <1>3, <1>5, PumpKept
  <2> QED BY <2>1, <2>2
<1> HIDE DEF mid
<1>9. /\ end \in Conn /\ Sound(end.side, end.peer, end.closing) /\ Same(mid, end)
      /\ end = mid \/ (/\ ~mid.closing /\ ~end.closing /\ <<c, "server">> \in ready
                       /\ B(end, "server") = B(mid, "server")
                       /\ B(end, "client") <= B(mid, "client") + Batched)
  <2>1. CASE end = mid BY <2>1, <1>8
  <2>2. CASE end # mid
    <3>1. end = Pumped(mid, "server", rs) /\ <<c, "server">> \in ready /\ ~mid.closing
      BY <2>2 DEF Served, Step, mid
    <3>2. rs \in Rulings(Received(mid.side["server"], mid.peer["server"]), "server")
      <4> DEFINE a == old.side["server"]  b == mid.side["server"]  p == old.peer["server"]
      <4>1. a \in SideState /\ b \in SideState /\ p \in PeerState BY <1>2, <1>8, <1>5 DEF Conn
      <4>2. Received(a, p).buf = Received(b, p).buf /\ Received(a, p).fds = Received(b, p).fds
        BY <4>1, <1>8, ReceivedSame
      <4>3. Rulings(Received(a, p), "server") = Rulings(Received(b, p), "server") BY <4>2, RulingsSame
      <4>4. rs \in Rulings(Received(a, p), "server") BY <3>1, <1>2 DEF Verdicts
      <4> QED BY <4>3, <4>4, <1>8
    <3>3. ~end.closing /\ end \in Conn /\ Sound(end.side, end.peer, end.closing) /\ Same(mid, end)
          /\ B(end, "server") = B(mid, "server") + (IF end.closing THEN Size ELSE 0)
          /\ B(end, "client") <= B(mid, "client") + Batched
      BY <3>1, <3>2, <1>5, <1>8, PumpKept
    <3>4. B(mid, "server") \in Nat BY <1>6, <1>8, <1>5
    <3> QED BY <3>1, <3>3, <3>4
  <2> QED BY <2>1, <2>2
<1> HIDE DEF end
<1>10. Same(old, end) BY <1>8, <1>9
<1>11. ASSUME ~Fails(end) PROVE Within(end.side, end.closing)
  <2>1. \A s \in Sides : <<c, s>> \in ready => ~old.closing /\ B(old, Other(s)) < MaxQueue
    BY <1>4, <1>10, <1>11 DEF Fails
  <2>2. B(old, "client") \in Nat /\ B(old, "server") \in Nat /\ B(mid, "client") \in Nat
        /\ B(mid, "server") \in Nat /\ B(end, "client") \in Nat /\ B(end, "server") \in Nat
    BY <1>2, <1>5, <1>6, <1>8, <1>9
  <2>3. B(old, "server") <= QueueRoom /\ B(old, "client") <= QueueRoom + (IF old.closing THEN Size ELSE 0)
    BY <1>3 DEF Within
  <2> HIDE DEF B
  <2>4. B(mid, "server") <= QueueRoom /\ B(mid, "client") <= QueueRoom + (IF mid.closing THEN Size ELSE 0)
    <3>1. CASE mid = old BY <3>1, <2>3
    <3>2. CASE mid # old
      <4>1. B(old, "server") < MaxQueue BY <3>2, <2>1, <1>5, <1>8
      <4>2. B(mid, "server") <= B(old, "server") + Batched BY <3>2, <1>8
      <4>3. B(mid, "server") <= QueueRoom BY <4>1, <4>2, <1>7, <2>2, RelayAssumption
      <4>4. B(old, "client") <= QueueRoom BY <2>3, <2>2, <1>7, <1>8, <3>2
      <4>5. CASE mid.closing
        <5>1. B(mid, "client") = B(old, "client") + Size BY <4>5, <3>2, <1>8
        <5> QED BY <4>3, <4>4, <4>5, <5>1, <2>2, <1>7 DEF Size
      <4>6. CASE ~mid.closing
        <5>1. B(mid, "client") = B(old, "client") BY <4>6, <3>2, <1>8, <2>2
        <5> QED BY <4>3, <4>4, <4>6, <5>1, <2>2, <1>7
      <4> QED BY <4>5, <4>6
    <3> QED BY <3>1, <3>2
  <2>5. B(end, "server") <= QueueRoom /\ B(end, "client") <= QueueRoom + (IF end.closing THEN Size ELSE 0)
    <3>1. CASE end = mid BY <3>1, <2>4
    <3>2. CASE end # mid
      <4>1. B(old, "client") < MaxQueue /\ ~mid.closing /\ ~end.closing BY <3>2, <2>1, <1>5, <1>9
      <4>2. B(mid, "client") = B(old, "client") BY <4>1, <1>8, <2>2
      <4>3. B(end, "client") <= B(mid, "client") + Batched /\ B(end, "server") = B(mid, "server") BY <3>2, <1>9
      <4>4. B(end, "client") <= QueueRoom BY <4>1, <4>2, <4>3, <1>7, <2>2, RelayAssumption
      <4> QED BY <4>1, <4>3, <4>4, <2>4, <2>2, <1>7
    <3> QED BY <3>1, <3>2
  <2> QED BY <2>5 DEF Within, B
<1> QED BY <1>9, <1>11 DEF end

(* Every flush of a served connection.                                      *)
LEMMA FlushedKept ==
  ASSUME NEW conn \in Conn, Sound(conn.side, conn.peer, conn.closing)
  PROVE  LET sd == [s \in Sides |-> Flushed(conn.side[s], conn.peer[s])]
             p  == [s \in Sides |-> Taken(conn.side[s], conn.peer[s])]
         IN  /\ sd \in [Sides -> SideState] /\ p \in [Sides -> PeerState]
             /\ Sound(sd, p, conn.closing)
             /\ Within(conn.side, conn.closing) => Within(sd, conn.closing)
<1> DEFINE sd == [s \in Sides |-> Flushed(conn.side[s], conn.peer[s])]
           p  == [s \in Sides |-> Taken(conn.side[s], conn.peer[s])]
<1>1. ASSUME NEW s \in Sides
      PROVE  /\ sd[s] \in SideState /\ p[s] \in PeerState /\ Len(p[s].sock) <= Cap
             /\ Bytes(sd[s].out) <= Bytes(conn.side[s].out)
             /\ Tidy(sd[s].out)
             /\ Carried(conn.side[s].out) /\ Ridden(conn.peer[s].sock)
                  => Carried(sd[s].out) /\ Ridden(p[s].sock)
             /\ sd[s].buf = conn.side[s].buf /\ p[s].clean = conn.peer[s].clean
             /\ Aligned(conn.side[s], conn.peer[s]) => Aligned(sd[s], p[s])
  <2> DEFINE a == conn.side[s]  b == conn.peer[s]
  <2>1. a \in SideState /\ b \in PeerState BY DEF Conn
  <2>2. Len(b.sock) <= Cap /\ Tidy(a.out) BY DEF Sound
  <2>3. sd[s] = Flushed(a, b) /\ p[s] = Taken(a, b) OBVIOUS
  <2> HIDE DEF a, b, sd, p
  <2>4. PICK o \in Seq(Frame) : Flushed(a, b) = [a EXCEPT !.out = o] BY <2>1, <2>2, FlushKept
  <2>5. PICK k \in Seq(UnitSent) : Taken(a, b) = [b EXCEPT !.sock = k] BY <2>1, <2>2, FlushKept
  <2>6. /\ sd[s].buf = a.buf /\ sd[s].next = a.next /\ sd[s].fds = a.fds
        /\ p[s].clean = b.clean /\ p[s].in = b.in /\ p[s].sent = b.sent
    BY <2>1, <2>3, <2>4, <2>5 DEF SideState, PeerState
  <2>7. Aligned(a, b) => Aligned(sd[s], p[s]) BY <2>6 DEF Aligned, HeldBack, Read
  <2> QED BY <2>1, <2>2, <2>3, <2>6, <2>7, FlushKept DEF a, b
<1>2. sd \in [Sides -> SideState] /\ p \in [Sides -> PeerState]
  <2>1. \A s \in Sides : Flushed(conn.side[s], conn.peer[s]) \in SideState
                         /\ Taken(conn.side[s], conn.peer[s]) \in PeerState
    BY <1>1
  <2> QED BY <2>1
<1> HIDE DEF sd, p
<1>3. \A s \in Sides : Other(s) \in Sides BY DEF Other, Sides
<1>4. Sound(sd, p, conn.closing) BY <1>1, <1>3 DEF Sound
<1>5. ASSUME Within(conn.side, conn.closing) PROVE Within(sd, conn.closing)
  <2>1. \A s \in Sides : Bytes(sd[s].out) \in Nat /\ Bytes(conn.side[s].out) \in Nat
    <3>1. \A s \in Sides : sd[s].out \in Seq(Frame) /\ conn.side[s].out \in Seq(Frame)
      BY <1>2 DEF Conn, SideState
    <3> QED BY <3>1, BytesNat
  <2>2. QueueRoom \in Nat BY RelayAssumption DEF QueueRoom, Size
  <2>3. "client" \in Sides /\ "server" \in Sides BY DEF Sides
  <2> QED BY <1>1, <1>5, <2>1, <2>2, <2>3 DEF Within, Size
<1> QED BY <1>2, <1>4, <1>5 DEF sd, p

-----------------------------------------------------------------------------
(* The steps of the loop and of the peers.                                  *)

(* A connection nothing went over yet.                                      *)
LEMMA NewKept ==
  /\ NewSide \in SideState /\ NewPeer \in PeerState
  /\ \A cl \in BOOLEAN : Sound([s \in Sides |-> NewSide], [s \in Sides |-> NewPeer], cl)
  /\ \A cl \in BOOLEAN : Within([s \in Sides |-> NewSide], cl)
<1>0. << >> \in Seq(Nat) /\ << >> \in Seq(Frame) /\ << >> \in Seq(Batch) /\ << >> \in Seq(UnitSent)
  OBVIOUS
<1>1. NewSide \in SideState /\ NewPeer \in PeerState BY <1>0 DEF NewSide, NewPeer, SideState, PeerState
<1>3. /\ \A cl \in BOOLEAN : Sound([s \in Sides |-> NewSide], [s \in Sides |-> NewPeer], cl)
      /\ \A cl \in BOOLEAN : Within([s \in Sides |-> NewSide], cl)
  <2>1. Tidy(<< >>) /\ Carried(<< >>) /\ Ridden(<< >>) BY DEF Tidy, Carried, Ridden
  <2>2. Aligned(NewSide, NewPeer)
    <3>1. Read(NewSide) = 0 BY DEF Read, NewSide, Size
    <3>2. Begun(0) = 0 BY DEF Begun, Size
    <3>3. Numbered(0, 0) = << >>
      <4>1. Numbered(0, 0) \in Seq(Nat) /\ Len(Numbered(0, 0)) = 0 BY NumberedSeq
      <4> QED BY <4>1, EmptySeq
    <3>4. HeldBack(NewSide) BY <3>1, <3>2, <3>3 DEF HeldBack, NewSide
    <3> QED BY <3>1, <3>4 DEF Aligned, Chained, NewPeer
  <2>3. NewSide.out = << >> /\ NewSide.buf = 0 /\ NewPeer.sock = << >> BY DEF NewSide, NewPeer
  <2>4. Bytes(<< >>) = 0 /\ Len(<< >>) = 0 BY DEF Bytes
  <2>5. QueueRoom \in Nat BY RelayAssumption DEF QueueRoom, Size
  <2>6. \A s \in Sides : Other(s) \in Sides BY DEF Other, Sides
  <2>7. "client" \in Sides /\ "server" \in Sides BY DEF Sides
  <2>8. ASSUME NEW cl \in BOOLEAN PROVE Sound([s \in Sides |-> NewSide], [s \in Sides |-> NewPeer], cl)
    BY <2>1, <2>2, <2>3, <2>4, <2>6, RelayAssumption DEF Sound, Size
  <2>9. ASSUME NEW cl \in BOOLEAN PROVE Within([s \in Sides |-> NewSide], cl)
    BY <2>3, <2>4, <2>5, <2>7 DEF Within, Size
  <2> QED BY <2>8, <2>9
<1> QED BY <1>1, <1>3

LEMMA RelayStarts == ASSUME RelayInit PROVE RelayInv
<1>2. RelayTypes BY NewKept DEF RelayInit, RelayTypes
<1>4. AllSound /\ AllWithin BY NewKept DEF RelayInit, AllSound, AllWithin
<1>5. Round BY DEF RelayInit, Round
<1> QED BY <1>2, <1>4, <1>5 DEF RelayInv

LEMMA PollKept == ASSUME RelayInv, Poll PROVE RelayInv'
<1>1. RelayTypes' /\ AllSound' /\ AllWithin' BY DEF RelayInv, Poll, RelayTypes, AllSound, AllWithin
<1>2. Round'
  <2>1. dead = {} /\ dead' = {} BY DEF RelayInv, Round, Poll
  <2>2. todo' \subseteq Conns BY DEF Poll, Open
  <2>3. ASSUME NEW c \in todo', NEW s \in Sides, <<c, s>> \in ready' PROVE Excused(c, s)'
    <3>1. Woken(c, s) BY <2>3 DEF Poll
    <3>2. Excused(c, s) BY <3>1 DEF Woken, Polled, Excused
    <3> QED BY <3>2 DEF Excused, WantsIn, WantsOut, Poll
  <2> QED BY <2>1, <2>2, <2>3 DEF Round, Poll
<1> QED BY <1>1, <1>2 DEF RelayInv

LEMMA ServeSteps == ASSUME RelayInv, Serve PROVE RelayInv'
<1>0. PICK c \in todo : /\ todo' = todo \ {c}
                         /\ \E a \in Verdicts(c, "client"), b \in Verdicts(c, "server") :
                              Settle(c, Served(c, a, b))
  BY DEF Serve
<1>1. PICK rc \in Verdicts(c, "client"), rs \in Verdicts(c, "server") : Settle(c, Served(c, rc, rs))
  BY <1>0
<1> DEFINE end == Served(c, rc, rs)
           sd == [s \in Sides |-> Flushed(end.side[s], end.peer[s])]
           p == [s \in Sides |-> Taken(end.side[s], end.peer[s])]
           newside == IF end.fault THEN end.side ELSE sd
           newpeer == IF end.fault THEN end.peer ELSE p
<1>2. end \in Conn /\ Sound(end.side, end.peer, end.closing) /\ (Fails(end) \/ Within(end.side, end.closing))
  BY ServeKept
<1>3. /\ side' = [side EXCEPT ![c] = newside] /\ peer' = [peer EXCEPT ![c] = newpeer]
      /\ closing' = [closing EXCEPT ![c] = end.closing] /\ todo' = todo \ {c}
      /\ dead' = IF end.fault \/ Finished(sd, end.closing, Fails(end)) THEN dead \cup {c} ELSE dead
      /\ pc' = pc /\ ready' = ready
  BY <1>0, <1>1 DEF Serve, Settle
<1> HIDE DEF end
<1>4. /\ sd \in [Sides -> SideState] /\ p \in [Sides -> PeerState] /\ Sound(sd, p, end.closing)
      /\ Within(end.side, end.closing) => Within(sd, end.closing)
  BY <1>2, FlushedKept
<1> HIDE DEF sd, p
<1>5. newside \in [Sides -> SideState] /\ newpeer \in [Sides -> PeerState] /\ end.closing \in BOOLEAN
      /\ Sound(newside, newpeer, end.closing)
  BY <1>2, <1>4 DEF Conn
<1>6. c \in dead' \/ Within(newside, end.closing)
  <2>1. Fails(end) => Finished(sd, end.closing, Fails(end)) BY DEF Finished
  <2> QED BY <2>1, <1>2, <1>3, <1>4
<1> HIDE DEF newside, newpeer
<1>7. c \in Conns /\ todo \subseteq Conns \ dead BY DEF RelayInv, Round
<1>8. RelayTypes' BY <1>3, <1>5 DEF RelayInv, RelayTypes
<1>9. \A d \in Conns : /\ d = c => side'[d] = newside /\ peer'[d] = newpeer /\ closing'[d] = end.closing
                       /\ d # c => side'[d] = side[d] /\ peer'[d] = peer[d] /\ closing'[d] = closing[d]
  BY <1>3 DEF RelayInv, RelayTypes
<1>10. AllSound'
  <2>1. ASSUME NEW d \in Conns PROVE Sound(side'[d], peer'[d], closing'[d])
    <3>1. CASE d = c BY <3>1, <1>5, <1>9
    <3>2. CASE d # c BY <3>2, <1>9 DEF RelayInv, AllSound
    <3> QED BY <3>1, <3>2
  <2> QED BY <2>1 DEF AllSound
<1>11. AllWithin'
  <2>1. ASSUME NEW d \in Conns \ dead' PROVE Within(side'[d], closing'[d])
    <3>1. CASE d = c BY <3>1, <1>6, <1>9
    <3>2. CASE d # c
      <4>1. d \notin dead BY <1>3
      <4> QED BY <3>2, <4>1, <1>9 DEF RelayInv, AllWithin
    <3> QED BY <3>1, <3>2
  <2> QED BY <2>1 DEF AllWithin
<1>12. Round'
  <2>1. pc' = "serve" BY <1>3 DEF Serve
  <2>2. todo' \subseteq Conns \ dead' BY <1>3, <1>7
  <2>3. ASSUME NEW d \in todo', NEW s \in Sides, <<d, s>> \in ready' PROVE Excused(d, s)'
    <3>1. d \in todo /\ d # c /\ d \in Conns BY <1>3, <1>7
    <3>2. Excused(d, s) BY <3>1, <2>3, <1>3 DEF RelayInv, Round
    <3>3. side'[d] = side[d] /\ peer'[d] = peer[d] /\ closing'[d] = closing[d] BY <3>1, <1>9
    <3> QED BY <3>2, <3>3 DEF Excused, WantsIn, WantsOut
  <2> QED BY <2>1, <2>2, <2>3 DEF Round
<1> QED BY <1>8, <1>10, <1>11, <1>12 DEF RelayInv

LEMMA ReapKept == ASSUME RelayInv, Reap PROVE RelayInv'
<1>1. PICK gone :
        /\ dead \subseteq gone
        /\ side' = [c \in Conns |-> IF c \in gone THEN [s \in Sides |-> NewSide] ELSE side[c]]
        /\ peer' = [c \in Conns |-> IF c \in gone THEN [s \in Sides |-> NewPeer] ELSE peer[c]]
        /\ closing' = [c \in Conns |-> c \notin gone /\ closing[c]]
  <2> DEFINE live  == Open \ dead
             total == MapThenSumSet(Queued, live)
             fat   == {c \in live : \A d \in live : Queued(d) <= Queued(c)}
             G == IF total > MaxTotal THEN {dead \cup {c} : c \in fat} ELSE {dead}
  <2>1. PICK gone \in G :
        /\ side' = [c \in Conns |-> IF c \in gone THEN [s \in Sides |-> NewSide] ELSE side[c]]
        /\ peer' = [c \in Conns |-> IF c \in gone THEN [s \in Sides |-> NewPeer] ELSE peer[c]]
        /\ closing' = [c \in Conns |-> c \notin gone /\ closing[c]]
    BY DEF Reap
  <2> HIDE DEF total, fat
  <2>2. dead \subseteq gone BY <2>1
  <2> QED BY <2>1, <2>2
<1>2. dead' = {} /\ todo' = {} /\ pc' # "serve" BY DEF Reap
<1>3. /\ NewSide \in SideState /\ NewPeer \in PeerState
      /\ \A cl \in BOOLEAN : Sound([s \in Sides |-> NewSide], [s \in Sides |-> NewPeer], cl)
      /\ \A cl \in BOOLEAN : Within([s \in Sides |-> NewSide], cl)
  BY NewKept
<1>4. RelayTypes' BY <1>1, <1>3 DEF RelayInv, RelayTypes
<1>5. AllSound'
  <2>1. ASSUME NEW c \in Conns PROVE Sound(side'[c], peer'[c], closing'[c])
    <3>1. CASE c \in gone BY <3>1, <1>1, <1>3
    <3>2. CASE c \notin gone BY <3>2, <1>1 DEF RelayInv, AllSound, RelayTypes
    <3> QED BY <3>1, <3>2
  <2> QED BY <2>1 DEF AllSound
<1>6. AllWithin'
  <2>1. ASSUME NEW c \in Conns PROVE Within(side'[c], closing'[c])
    <3>1. CASE c \in gone BY <3>1, <1>1, <1>3
    <3>2. CASE c \notin gone BY <3>2, <1>1 DEF RelayInv, AllWithin, RelayTypes
    <3> QED BY <3>1, <3>2
  <2> QED BY <2>1 DEF AllWithin
<1>7. Round' BY <1>2 DEF Round
<1> QED BY <1>4, <1>5, <1>6, <1>7 DEF RelayInv

(* A step that leaves the connections' own state alone and changes one peer. *)
LEMMA PeerMoves ==
  ASSUME RelayInv, NEW c \in Conns, NEW s \in Sides, NEW q \in PeerState,
         peer' = [peer EXCEPT ![c][s] = q],
         UNCHANGED <<side, closing, dead, todo, ready>>,
         pc' = pc \/ (pc # "serve" /\ pc' # "serve"),
         q.clean => peer[c][s].clean /\ Aligned(side[c][s], q),
         peer[c][Other(s)].clean => Ridden(q.sock),
         Len(q.sock) <= Cap, peer[c][s].gone => q.gone
  PROVE  RelayInv'
<1> DEFINE t == Other(s)
<1>1. t \in Sides /\ t # s /\ Sides = {s, t} /\ Other(t) = s BY DEF Sides, Other
<1>2. side \in [Conns -> [Sides -> SideState]] /\ peer \in [Conns -> [Sides -> PeerState]]
  BY DEF RelayInv, RelayTypes
<1>3. /\ \A d \in Conns : d # c => peer'[d] = peer[d]
      /\ peer'[c][s] = q /\ peer'[c][t] = peer[c][t]
      /\ peer' \in [Conns -> [Sides -> PeerState]]
  BY <1>1, <1>2
<1>4. RelayTypes' BY <1>3 DEF RelayInv, RelayTypes
<1>5. Sound(side[c], peer'[c], closing[c])
  <2> DEFINE OK(p, x) == /\ Tidy(side[c][x].out)
                         /\ p[x].clean => Aligned(side[c][x], p[x])
                         /\ p[Other(x)].clean => Carried(side[c][x].out) /\ Ridden(p[x].sock)
                         /\ ~closing[c] => side[c][x].buf < Size
                         /\ Len(p[x].sock) <= Cap
  <2>1. \A x \in Sides : OK(peer[c], x) BY DEF RelayInv, AllSound, Sound
  <2>2. OK(peer'[c], s) BY <2>1, <1>3 DEF t
  <2>3. OK(peer'[c], t) BY <2>1, <1>1, <1>3
  <2>4. \A x \in Sides : OK(peer'[c], x) BY <2>2, <2>3, <1>1
  <2> QED BY <2>4 DEF Sound
<1>6. AllSound'
  <2>1. ASSUME NEW d \in Conns PROVE Sound(side'[d], peer'[d], closing'[d])
    <3>1. CASE d = c BY <3>1, <1>5
    <3>2. CASE d # c BY <3>2, <1>3 DEF RelayInv, AllSound
    <3> QED BY <3>1, <3>2
  <2> QED BY <2>1 DEF AllSound
<1>7. AllWithin' BY DEF RelayInv, AllWithin
<1>8. Round'
  <2>1. \A d \in Conns, x \in Sides : peer[d][x].gone => peer'[d][x].gone BY <1>1, <1>3
  <2>2. ASSUME NEW d \in todo', NEW x \in Sides, <<d, x>> \in ready' PROVE Excused(d, x)'
    <3>1. d \in todo /\ d \in Conns BY DEF RelayInv, Round
    <3>2. Excused(d, x) BY <3>1, <2>2 DEF RelayInv, Round
    <3> QED BY <2>1, <3>1, <3>2 DEF Excused, WantsIn, WantsOut
  <2> QED BY <2>2 DEF RelayInv, Round
<1> QED BY <1>4, <1>6, <1>7, <1>8 DEF RelayInv

LEMMA NothingMoves ==
  ASSUME RelayInv, UNCHANGED <<peer, side, closing, dead, todo, ready>>,
         pc' = pc \/ (pc # "serve" /\ pc' # "serve")
  PROVE  RelayInv'
<1>1. RelayTypes' /\ AllSound' /\ AllWithin' BY DEF RelayInv, RelayTypes, AllSound, AllWithin
<1>2. \A d, x : Excused(d, x)' = Excused(d, x) BY DEF Excused, WantsIn, WantsOut
<1>3. Round' BY <1>2 DEF RelayInv, Round
<1> QED BY <1>1, <1>3 DEF RelayInv

LEMMA SendsKept == ASSUME RelayInv, NEW c \in Conns, NEW s \in Sides, PeerSends(c, s) PROVE RelayInv'
<1> DEFINE p == peer[c][s]
<1>1. PICK k \in 1 .. MaxBatch : \E f \in {Numbered(Begun(p.sent), Begun(p.sent + k)),
                                   Numbered(Begun(p.sent), Begun(p.sent + k)) \o <<0>>, << >>} :
        peer' = [peer EXCEPT ![c][s] =
                  [p EXCEPT !.sent = @ + k,
                            !.clean = @ /\ f = Numbered(Begun(p.sent), Begun(p.sent + k)),
                            !.in = Append(@, [units |-> k, fds |-> f, from |-> p.sent])]]
  BY DEF PeerSends
<1> DEFINE begun == Numbered(Begun(p.sent), Begun(p.sent + k))
<1>2. PICK f \in {begun, begun \o <<0>>, << >>} :
        peer' = [peer EXCEPT ![c][s] =
                  [p EXCEPT !.sent = @ + k, !.clean = @ /\ f = begun,
                            !.in = Append(@, [units |-> k, fds |-> f, from |-> p.sent])]]
  BY <1>1
<1> DEFINE b == [units |-> k, fds |-> f, from |-> p.sent]
           in == Append(p.in, b)
           u == p.sent + k
           cl == p.clean /\ f = begun
           q == [p EXCEPT !.sent = u, !.clean = cl, !.in = in]
<1>3. p \in PeerState /\ side[c][s] \in SideState BY DEF RelayInv, RelayTypes
<1>4. /\ p.sent \in Nat /\ p.in \in Seq(Batch) /\ Len(p.in) \in Nat /\ p.clean \in BOOLEAN
      /\ k \in Nat /\ k >= 1 /\ k <= MaxBatch
  BY <1>3, LenProperties, RelayAssumption DEF PeerState
<1>5. begun \in Seq(Nat)
  <2> DEFINE x == Begun(p.sent)  y == Begun(u)
  <2>1. p.sent \in Nat /\ u \in Nat /\ p.sent <= u BY <1>4
  <2> HIDE DEF u
  <2>2. x \in Nat /\ y \in Nat /\ x <= y BY <2>1, BegunGrows
  <2> HIDE DEF x, y
  <2>3. Numbered(x, y) \in Seq(Nat) BY <2>2, NumberedSeq
  <2> QED BY <2>3 DEF x, y, u
<1>6. f \in Seq(Nat)
  <2> HIDE DEF begun
  <2>1. <<0>> \in Seq(Nat) OBVIOUS
  <2>2. begun \o <<0>> \in Seq(Nat) BY <1>5, <2>1, ConcatProperties
  <2>3. << >> \in Seq(Nat) OBVIOUS
  <2> QED BY <1>2, <1>5, <2>2, <2>3
<1>7. b \in Batch /\ b.units = k /\ b.fds = f /\ b.from = p.sent BY <1>4, <1>6 DEF Batch
<1>8. peer' = [peer EXCEPT ![c][s] = q] BY <1>2
<1> HIDE DEF b
<1>9. /\ in \in Seq(Batch) /\ in # << >> /\ Len(in) = Len(p.in) + 1
      /\ \A i \in 1 .. Len(p.in) : in[i] = p.in[i]
      /\ in[Len(p.in) + 1] = b
  <2> DEFINE w == p.in
  <2>0. w \in Seq(Batch) /\ in = Append(w, b) BY <1>4
  <2> HIDE DEF w, in
  <2>1. /\ Append(w, b) \in Seq(Batch) /\ Append(w, b) # << >> /\ Len(Append(w, b)) = Len(w) + 1
        /\ \A i \in 1 .. Len(w) : Append(w, b)[i] = w[i]
        /\ Append(w, b)[Len(w) + 1] = b
    BY <2>0, <1>7, AppendProperties
  <2> QED BY <2>0, <2>1 DEF w
<1>10. u \in Nat /\ cl \in BOOLEAN BY <1>4
<1> HIDE DEF in, u, cl, begun
<1>11. q \in PeerState /\ q.sent = u /\ q.clean = cl /\ q.in = in /\ q.sock = p.sock /\ q.gone = p.gone
  BY <1>3, <1>9, <1>10 DEF PeerState
<1> HIDE DEF q
<1>12. ASSUME q.clean PROVE p.clean /\ Aligned(side[c][s], q)
  <2>1. p.clean /\ f = begun BY <1>11, <1>12 DEF cl
  <2>2. HeldBack(side[c][s]) /\ Chained(p.in, Read(side[c][s]), p.sent)
    BY <2>1 DEF RelayInv, AllSound, Sound, Aligned
  <2> DEFINE R == Read(side[c][s])
  <2> HIDE DEF R
  <2>3. in[1].from = R
    <3>1. CASE p.in = << >>
      <4>1. Len(p.in) = 0 /\ R = p.sent BY <3>1, <2>2, EmptySeq DEF Chained, R
      <4> QED BY <4>1, <1>9, <1>7
    <3>2. CASE p.in # << >>
      <4>1. Len(p.in) >= 1 BY <3>2, <1>4, EmptySeq
      <4>2. in[1] = p.in[1] BY <4>1, <1>4, <1>9
      <4> QED BY <3>2, <4>2, <2>2 DEF Chained, R
    <3> QED BY <3>1, <3>2
  <2>4. ASSUME NEW j \in DOMAIN in
        PROVE  /\ in[j].fds = Numbered(Begun(in[j].from), Begun(in[j].from + in[j].units))
               /\ in[j].from + in[j].units = IF j = Len(in) THEN u ELSE in[j + 1].from
    <3>1. j \in 1 .. Len(p.in) + 1 BY <1>9, LenProperties
    <3>2. CASE j = Len(p.in) + 1
      <4>1. in[j] = b /\ j = Len(in) BY <3>2, <1>9
      <4> QED BY <4>1, <1>7, <2>1 DEF begun, u
    <3>3. CASE j # Len(p.in) + 1
      <4>0. j \in 1 .. Len(p.in) /\ j # Len(in) BY <3>1, <3>3, <1>4, <1>9
      <4>1. j \in 1 .. Len(p.in) /\ j \in DOMAIN p.in /\ j # Len(in) BY <4>0, <1>4, LenProperties
      <4>2. /\ p.in[j].fds = Numbered(Begun(p.in[j].from), Begun(p.in[j].from + p.in[j].units))
            /\ p.in[j].from + p.in[j].units = IF j = Len(p.in) THEN p.sent ELSE p.in[j + 1].from
        BY <4>1, <2>2 DEF Chained
      <4>3. in[j] = p.in[j] BY <4>1, <1>9
      <4>4. in[j + 1].from = IF j = Len(p.in) THEN p.sent ELSE p.in[j + 1].from
        <5>1. CASE j = Len(p.in) BY <5>1, <1>7, <1>9
        <5>2. CASE j # Len(p.in)
          <6>1. j + 1 \in 1 .. Len(p.in) BY <5>2, <4>1, <1>4
          <6> QED BY <6>1, <5>2, <1>9
        <5> QED BY <5>1, <5>2
      <4> QED BY <4>1, <4>2, <4>3, <4>4
    <3> QED BY <3>2, <3>3
  <2>5. Chained(in, R, u) BY <2>3, <2>4, <1>9 DEF Chained
  <2> QED BY <2>1, <2>2, <2>5, <1>11 DEF Aligned, R
<1>13. (peer[c][Other(s)].clean => Ridden(q.sock)) /\ Len(q.sock) <= Cap
  BY <1>11 DEF RelayInv, AllSound, Sound
<1>14. UNCHANGED <<side, closing, dead, todo, ready>> /\ pc' = pc BY DEF PeerSends
<1> QED BY <1>8, <1>11, <1>12, <1>13, <1>14, PeerMoves

(* A peer that reads, shuts its side or goes, and an upstream never reached. *)
LEMMA TurnsKept ==
  ASSUME RelayInv, NEW c \in Conns, NEW s \in Sides, NEW q,
         q \in {[peer[c][s] EXCEPT !.sock = << >>], [peer[c][s] EXCEPT !.shut = TRUE],
                [peer[c][s] EXCEPT !.gone = TRUE], [peer[c][s] EXCEPT !.gone = TRUE, !.sock = << >>]},
         peer' = [peer EXCEPT ![c][s] = q],
         UNCHANGED <<side, closing, dead, todo, ready>>,
         pc' = pc \/ (pc # "serve" /\ pc' # "serve")
  PROVE  RelayInv'
<1> DEFINE p == peer[c][s]
<1>1. p \in PeerState BY DEF RelayInv, RelayTypes
<1>2. << >> \in Seq(UnitSent) /\ Ridden(<< >>) /\ Len(<< >>) = 0 BY DEF Ridden
<1> HIDE DEF p
<1>3. /\ q \in PeerState /\ q.clean = p.clean /\ q.in = p.in /\ q.sent = p.sent
      /\ q.sock = p.sock \/ q.sock = << >>
      /\ p.gone => q.gone
  BY <1>1, <1>2 DEF PeerState, p
<1>4. q.clean => peer[c][s].clean /\ Aligned(side[c][s], q)
  BY <1>3 DEF RelayInv, AllSound, Sound, Aligned, p
<1>5. (peer[c][Other(s)].clean => Ridden(q.sock)) /\ Len(q.sock) <= Cap
  BY <1>2, <1>3, RelayAssumption DEF RelayInv, AllSound, Sound, p
<1> QED BY <1>3, <1>4, <1>5, PeerMoves DEF p

LEMMA RelaySteps == ASSUME RelayInv, [RelayNext]_rvars PROVE RelayInv'
<1>0. peer \in [Conns -> [Sides -> PeerState]] /\ "server" \in Sides BY DEF RelayInv, RelayTypes, Sides
<1>1. CASE Poll BY <1>1, PollKept
<1>2. CASE Serve BY <1>2, ServeSteps
<1>3. CASE Reap BY <1>3, ReapKept
<1>4. CASE AcceptDone BY <1>4, NothingMoves DEF AcceptDone
<1>5. ASSUME NEW c \in Conns, Accept(c) PROVE RelayInv'
  <2>1. UNCHANGED <<side, closing, dead, todo, ready>> /\ pc # "serve" /\ pc' # "serve" BY <1>5 DEF Accept
  <2>2. CASE peer' = peer BY <2>1, <2>2, NothingMoves
  <2>3. CASE peer' = [peer EXCEPT ![c]["server"].gone = TRUE]
    <3> DEFINE q == [peer[c]["server"] EXCEPT !.gone = TRUE]
    <3>1. peer' = [peer EXCEPT ![c]["server"] = q] BY <2>3, <1>0
    <3> HIDE DEF q
    <3> QED BY <2>1, <3>1, <1>0, TurnsKept DEF q
  <2> QED BY <1>5, <2>2, <2>3 DEF Accept
<1>6. ASSUME NEW c \in Conns, Connect(c) PROVE RelayInv'
  BY <1>6, NothingMoves DEF Connect
<1>7. ASSUME NEW c \in Conns, NEW s \in Sides, PeerSends(c, s) PROVE RelayInv' BY <1>7, SendsKept
<1>8. ASSUME NEW c \in Conns, NEW s \in Sides, PeerReads(c, s) PROVE RelayInv'
  <2> DEFINE q == [peer[c][s] EXCEPT !.sock = << >>]
  <2>1. peer' = [peer EXCEPT ![c][s] = q] BY <1>8, <1>0 DEF PeerReads
  <2>2. UNCHANGED <<side, closing, dead, todo, ready>> /\ pc' = pc BY <1>8 DEF PeerReads
  <2> HIDE DEF q
  <2> QED BY <2>1, <2>2, TurnsKept DEF q
<1>9. ASSUME NEW c \in Conns, NEW s \in Sides, PeerShuts(c, s) PROVE RelayInv'
  <2> DEFINE q == [peer[c][s] EXCEPT !.shut = TRUE]
  <2>1. peer' = [peer EXCEPT ![c][s] = q] BY <1>9, <1>0 DEF PeerShuts
  <2>2. UNCHANGED <<side, closing, dead, todo, ready>> /\ pc' = pc BY <1>9 DEF PeerShuts
  <2> HIDE DEF q
  <2> QED BY <2>1, <2>2, TurnsKept DEF q
<1>10. ASSUME NEW c \in Conns, NEW s \in Sides, PeerGoes(c, s) PROVE RelayInv'
  <2> DEFINE q == [peer[c][s] EXCEPT !.gone = TRUE, !.sock = << >>]
  <2>1. peer' = [peer EXCEPT ![c][s] = q] BY <1>10, <1>0 DEF PeerGoes
  <2>2. UNCHANGED <<side, closing, dead, todo, ready>> /\ pc' = pc BY <1>10 DEF PeerGoes
  <2> HIDE DEF q
  <2> QED BY <2>1, <2>2, TurnsKept DEF q
<1>11. CASE UNCHANGED rvars BY <1>11, NothingMoves DEF rvars
<1> QED BY <1>1, <1>2, <1>3, <1>4, <1>5, <1>6, <1>7, <1>8, <1>9, <1>10, <1>11 DEF RelayNext, Loop, Peers

LEMMA RelaySuffices == ASSUME RelayInv PROVE RelayKept
<1>1. DescriptorsRide
  <2>1. ASSUME NEW c \in Open, NEW s \in Sides, peer[c][Other(s)].clean PROVE Ridden(peer[c][s].sock)
    BY <2>1 DEF RelayInv, AllSound, Sound, Open
  <2> QED BY <2>1 DEF DescriptorsRide, Ridden
<1>2. QueueBounded
  <2>1. QueueRoom \in Nat BY RelayAssumption DEF QueueRoom, Size
  <2>2. ASSUME NEW c \in Open \ dead, NEW s \in Sides
        PROVE  Bytes(side[c][s].out) <= QueueRoom + (IF closing[c] /\ s = "client" THEN Size ELSE 0)
    <3>1. Within(side[c], closing[c]) BY DEF RelayInv, AllWithin, Open
    <3>2. closing[c] \in BOOLEAN BY DEF RelayInv, RelayTypes, Open
    <3>3. CASE s = "client" BY <3>1, <3>2, <3>3 DEF Within
    <3>4. CASE s = "server" BY <3>1, <3>4, <2>1 DEF Within
    <3> QED BY <3>3, <3>4 DEF Sides
  <2> QED BY <2>2 DEF QueueBounded, QueueRoom
<1> QED BY <1>1, <1>2 DEF RelayKept

(* However many clients there are, whatever they send, in whatever pieces,  *)
(* and whatever the policy drops: a descriptor reaches the peer with its    *)
(* message's first byte and nothing else does, and no queue outgrows        *)
(* MaxQueue by more than one batch and a refusal (Conn, relay.rs).          *)
THEOREM RelayKeptHolds == RelaySpec => []RelayKept
<1>1. RelayInit => RelayInv BY RelayStarts
<1>2. RelayInv /\ [RelayNext]_rvars => RelayInv' BY RelaySteps
<1>3. RelayInv => RelayKept BY RelaySuffices
<1> QED BY <1>1, <1>2, <1>3, PTL DEF RelaySpec
=============================================================================
