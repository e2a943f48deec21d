------------------------------ MODULE WlPolicy ------------------------------
(***************************************************************************)
(* The judging half of bubbler-wl-proxy (policy.rs, objects.rs, tables.rs, *)
(* audit.rs): what the proxy remembers about one connection, and what it   *)
(* does with each message it has decoded.  The client and the compositor   *)
(* are on either side of it, each behind a FIFO socket, so a message the   *)
(* proxy judges was sent in a state of its sender that may be past.        *)
(*                                                                         *)
(* A message is a record of its opcode, the object it addresses, and the   *)
(* arguments the policy reads.                                             *)
(***************************************************************************)
EXTENDS Naturals, Sequences, FiniteSets, Functions

CONSTANTS ClientIds,     \* ids below SERVER_ID_BASE, the display's 1 left out
          ServerIds,     \* ids at or above it
          Globals,       \* name -> [iface, version] the compositor may offer
          Table,         \* interface -> the version the tables describe
          Privileged,    \* interfaces of privileged.rs
          MaxObjects, Window, Gates,
          MaxVersion,    \* bound: the version a bind asks for
          MaxFlight      \* bound: messages in the four sockets together

Names == DOMAIN Globals
Ids   == ClientIds \cup ServerIds

ASSUME IdsAssumption ==
  /\ ClientIds \cap ServerIds = {} /\ "core" \notin Ids /\ "none" \notin Ids
  /\ MaxObjects \in Nat /\ MaxVersion \in Nat /\ Window \in Nat
ASSUME NamesAssumption ==
  Names \cap {"no", "range", "in use", "too many", "hidden", "undecodable"} = {}
ASSUME TableAssumption ==
  /\ {"offer", "callback"} \subseteq DOMAIN Table
  /\ \A f \in DOMAIN Table : Table[f] \in Nat \ {0}
  /\ \A n \in Names : Globals[n].version \in Nat

VARIABLES gate,       \* Policy.gate
          age,        \* time since Policy.last_input, Window + 1 when over
          objects,    \* Objects.map: id -> [iface, zombie]
          zombies,    \* Objects.server_zombies
          hidden,     \* Objects.hidden_globals
          globals,    \* Connection.globals: name -> offered version
          closed,     \* "no", or why the relay closes the connection: what
                      \* failed, or the name a refused bind gave
          c2p, p2s, s2p, p2c,   \* the sockets
          client,     \* the client: its objects, its free ids, what it saw
          server,     \* the compositor: its objects and globals
          quiet       \* history: time since input went past, as age

pvars == <<gate, age, objects, zombies, hidden, globals, closed,
           c2p, p2s, s2p, p2c, client, server, quiet>>
proxy == <<gate, age, objects, zombies, hidden, globals, closed>>

(* Objects::new: the display, and the registry the client asks it for.  Both *)
(* are always there and are not in the map here.                             *)
PolicyInit ==
  /\ gate \in Gates /\ age = Window + 1 /\ quiet = Window + 1
  /\ objects = << >> /\ zombies = 0 /\ hidden = {} /\ globals = << >>
  /\ closed = "no"
  /\ c2p = << >> /\ p2s = << >> /\ s2p = << >> /\ p2c = << >>
  /\ \E h \in BOOLEAN :
       client = [honest |-> h, objs |-> << >>, free |-> ClientIds, seen |-> << >>]
  /\ server = [objs |-> << >>, offered |-> {}, removed |-> {}, bound |-> {}]

Room == closed = "no" /\ Len(c2p) + Len(p2s) + Len(s2p) + Len(p2c) < MaxFlight
Without(f, x) == Restrict(f, DOMAIN f \ {x})
With(f, x, v) == [y \in DOMAIN f \cup {x} |-> IF y = x THEN v ELSE f[y]]

-----------------------------------------------------------------------------
(* The object map. *)

Live == Cardinality(DOMAIN objects) - zombies

(* Objects::record, as far as it can refuse: an id of the other range, one  *)
(* the client may not use again yet, and the cap.                           *)
RecordError(fromClient, id) ==
  IF id \notin (IF fromClient THEN ClientIds ELSE ServerIds) THEN "range"
  ELSE IF id \in DOMAIN objects THEN (IF fromClient THEN "in use" ELSE "no")
  ELSE IF Live >= MaxObjects \/ zombies >= MaxObjects THEN "too many"
  ELSE "no"


Record(id, iface) ==
  /\ objects' = With(objects, id, [iface |-> iface, zombie |-> FALSE])
  /\ zombies' = IF id \in DOMAIN objects /\ objects[id].zombie
                THEN zombies - 1 ELSE zombies

(* Objects::destroy: the id stays mapped until the server lets go of it. *)
DestroyForgets(id) ==
  /\ objects' = Without(objects, id)
  /\ UNCHANGED zombies

Destroy(id) ==
  /\ objects' = [objects EXCEPT ![id].zombie = TRUE]
  /\ zombies' = IF ~objects[id].zombie /\ id \in ServerIds
                THEN zombies + 1 ELSE zombies

(* Objects::delete_id. *)
DeleteId(id) ==
  /\ objects' = Without(objects, id)
  /\ zombies' = IF id \in DOMAIN objects /\ objects[id].zombie
                   /\ id \in ServerIds
                THEN zombies - 1 ELSE zombies

-----------------------------------------------------------------------------
(* The policy.  m is the message at the head of a socket. *)

Forward(m, from, to) ==
  /\ from' = Tail(from)
  /\ to' = Append(to, m)
Drop(from, to) == from' = Tail(from) /\ UNCHANGED to

Close(why, from, to) ==
  /\ closed' = why
  /\ from' = Tail(from)
  /\ UNCHANGED <<to, gate, age, objects, zombies, hidden, globals>>

(* Interface::message: only an offer is received from, a callback has no    *)
(* requests, and the list ends with the version the tables describe.        *)
HasMessage(iface, m) ==
  /\ m.op = "receive" => iface = "offer"
  /\ m.op = "destroy" => iface # "callback"
  /\ m.since <= Table[iface]

(* The relay's own checks before the policy is asked. *)
Decodes(m) ==
  \/ m.obj = "core"
  \/ m.obj \in DOMAIN objects /\ HasMessage(objects[m.obj].iface, m)

(* Policy::global and Policy::global_remove. *)
Described(n) == /\ Globals[n].iface \in DOMAIN Table
                /\ Globals[n].iface \notin Privileged

Offer(n) == IF Globals[n].version <= Table[Globals[n].iface]
            THEN Globals[n].version ELSE Table[Globals[n].iface]

Global(m) ==
  /\ m.op = "global"
  /\ IF Described(m.name)
     THEN /\ globals' = With(globals, m.name, Offer(m.name))
          /\ Forward([m EXCEPT !.version = Offer(m.name)], s2p, p2c)
          /\ UNCHANGED hidden
     ELSE /\ hidden' = hidden \cup {m.name}
          /\ Drop(s2p, p2c)
          /\ UNCHANGED globals
  /\ UNCHANGED <<gate, age, objects, zombies, closed>>

GlobalRemove(m) ==
  /\ m.op = "global_remove"
  /\ IF m.name \in hidden
     THEN Drop(s2p, p2c) /\ UNCHANGED globals
     ELSE /\ globals' = Without(globals, m.name)
          /\ Forward(m, s2p, p2c)
  /\ UNCHANGED <<gate, age, objects, zombies, hidden, closed>>

(* Policy::bind: the name was offered, for this interface, at this version *)
(* or above; Objects::bind refuses a hidden name on top of that.           *)
BindAllowed(m) ==
  /\ m.name \in DOMAIN globals
  /\ m.iface = Globals[m.name].iface
  /\ m.version \in 1 .. globals[m.name]

Bind(m) ==
  /\ m.op = "bind"
  /\ IF ~BindAllowed(m) THEN Close(m.name, c2p, p2s)
     ELSE IF m.name \in hidden THEN Close("hidden", c2p, p2s)
     ELSE IF RecordError(TRUE, m.new) # "no"
     THEN Close(RecordError(TRUE, m.new), c2p, p2s)
     ELSE /\ Record(m.new, m.iface)
          /\ Forward(m, c2p, p2s)
          /\ UNCHANGED <<gate, age, hidden, globals, closed>>

(* Policy::request: the clipboard gate.  A denied read is dropped, and its *)
(* descriptor closed with it.                                              *)
ReadAllowed == gate = "open" \/ age <= Window

Receive(m) ==
  /\ m.op = "receive"
  /\ Decodes(m)
  /\ IF ReadAllowed THEN Forward(m, c2p, p2s) ELSE Drop(c2p, p2s)
  /\ UNCHANGED proxy

(* Policy::apply's bookkeeping after a forwarded message: new_id_from, and  *)
(* the client's destructor.  A new object is of the interface the tables    *)
(* name for the message, whatever the message says.                         *)
NewOf(m) == IF m.op = "sync" THEN "callback" ELSE "offer"

NewObject(m, from, to) ==
  /\ m.op \in {"sync", "data_offer"}
  /\ Decodes(m)
  /\ IF RecordError(m.op = "sync", m.new) = "no"
     THEN /\ Record(m.new, NewOf(m))
          /\ Forward(m, from, to)
          /\ UNCHANGED <<gate, age, hidden, globals, closed>>
     ELSE Close(RecordError(m.op = "sync", m.new), from, to)

DestroyRequest(m) ==
  /\ m.op = "destroy"
  /\ Decodes(m)
  /\ Forward(m, c2p, p2s)
  /\ Destroy(m.obj)
  /\ UNCHANGED <<gate, age, hidden, globals, closed>>

(* Policy::event: delete_id, and the input events that arm the gate. *)
DeleteIdEvent(m) ==
  /\ m.op = "delete_id"
  /\ Forward(m, s2p, p2c)
  /\ DeleteId(m.name)
  /\ UNCHANGED <<gate, age, hidden, globals, closed>>

PlainEvent(m) ==
  /\ m.op \in {"input", "event"}
  /\ Decodes(m)
  /\ Forward(m, s2p, p2c)
  /\ age' = IF m.op = "input" THEN 0 ELSE age
  /\ UNCHANGED <<gate, objects, zombies, hidden, globals, closed>>

Undecodable(m, from, to) ==
  /\ m.op \notin {"bind", "global", "global_remove", "delete_id"}
  /\ ~Decodes(m)
  /\ Close("undecodable", from, to)

JudgeRequest ==
  /\ closed = "no" /\ c2p # << >>
  /\ LET m == Head(c2p) IN
       \/ Bind(m)
       \/ Receive(m)
       \/ NewObject(m, c2p, p2s)
       \/ DestroyRequest(m)
       \/ Undecodable(m, c2p, p2s)
  /\ UNCHANGED <<s2p, p2c, client, server, quiet>>

JudgeEvent ==
  /\ closed = "no" /\ s2p # << >>
  /\ LET m == Head(s2p) IN
       \/ Global(m)
       \/ GlobalRemove(m)
       \/ DeleteIdEvent(m)
       \/ NewObject(m, s2p, p2c)
       \/ PlainEvent(m)
       \/ Undecodable(m, s2p, p2c)
  /\ quiet' = IF Head(s2p).op = "input" /\ closed' = "no" THEN 0 ELSE quiet
  /\ UNCHANGED <<c2p, p2s, client, server>>

Tick ==
  /\ closed = "no" /\ age <= Window
  /\ age' = age + 1
  /\ quiet' = IF quiet <= Window THEN quiet + 1 ELSE quiet
  /\ UNCHANGED <<gate, objects, zombies, hidden, globals, closed,
                 c2p, p2s, s2p, p2c, client, server>>

-----------------------------------------------------------------------------
(* The client.  One that keeps the protocol names what it has been told of  *)
(* and waits for delete_id; the sandbox may run one that does not.           *)

Msg(op, obj) == [op |-> op, obj |-> obj, new |-> "none",
                 name |-> "none", iface |-> "none", version |-> 1, since |-> 1]

Own  == IF client.honest THEN DOMAIN client.objs ELSE Ids
Free == IF client.honest THEN client.free ELSE Ids
Told == IF client.honest THEN DOMAIN client.seen ELSE Names

Binds == {[Msg("bind", "core") EXCEPT !.name = b.name, !.iface = Globals[b.name].iface,
             !.version = b.version, !.new = b.new] :
            b \in [name : Told, version : 1 .. MaxVersion, new : Free]}
Syncs == {[Msg("sync", "core") EXCEPT !.new = i] : i \in Free}
Uses == {Msg("receive", o) :
           o \in {i \in Own : client.honest => client.objs[i] = "offer"}}
Destroys == {Msg("destroy", o) :
               o \in {i \in Own : client.honest => client.objs[i] # "callback"}}
Requests == Binds \cup Syncs \cup Uses \cup Destroys

ClientSends ==
  /\ Room
  /\ \E m \in Requests :
       /\ client.honest /\ m.op = "bind" => m.version <= client.seen[m.name]
       /\ c2p' = Append(c2p, m)
       /\ client' = CASE client.honest /\ m.op \in {"bind", "sync"} ->
                          [client EXCEPT !.free = @ \ {m.new},
                             !.objs = With(@, m.new, IF m.op = "bind"
                                             THEN m.iface ELSE "callback")]
                      [] client.honest /\ m.op = "destroy" ->
                          [client EXCEPT !.objs = Without(@, m.obj)]
                      [] OTHER -> client
  /\ UNCHANGED <<p2s, s2p, p2c, server, quiet>>
  /\ UNCHANGED proxy

ClientReads ==
  /\ closed = "no" /\ p2c # << >>
  /\ p2c' = Tail(p2c)
  /\ LET m == Head(p2c) IN
     client' =
       IF ~client.honest THEN client
       ELSE CASE m.op = "global" ->
                   [client EXCEPT !.seen = With(@, m.name, m.version)]
              [] m.op = "global_remove" ->
                   [client EXCEPT !.seen = Without(@, m.name)]
              [] m.op = "delete_id" ->
                   [client EXCEPT !.free = @ \cup {m.name},
                                  !.objs = Without(@, m.name)]
              [] m.op = "data_offer" ->
                   [client EXCEPT !.objs = With(@, m.new, "offer")]
              [] OTHER -> client
  /\ UNCHANGED <<c2p, p2s, s2p, server, quiet>>
  /\ UNCHANGED proxy

-----------------------------------------------------------------------------
(* The compositor keeps the protocol.  A global it withdraws stays bindable *)
(* for the clients that have not heard of it yet.                            *)

Emit(m) == s2p' = Append(s2p, m)
Of(iface) == {i \in DOMAIN server.objs : server.objs[i].iface = iface}

CompositorSends ==
  /\ Room
  /\ \/ \E n \in Names \ server.offered :
          /\ Emit([Msg("global", "core") EXCEPT !.name = n,
                                               !.version = Globals[n].version])
          /\ server' = [server EXCEPT !.offered = @ \cup {n}]
     \/ \E n \in server.offered \ server.removed :
          /\ Emit([Msg("global_remove", "core") EXCEPT !.name = n])
          /\ server' = [server EXCEPT !.removed = @ \cup {n}]
     \/ \E i \in Of("device"), s \in ServerIds \ DOMAIN server.objs :
          /\ Emit([Msg("data_offer", i) EXCEPT !.new = s])
          /\ server' = [server EXCEPT
               !.objs = With(@, s, [iface |-> "offer", version |-> 1])]
     \/ \E i \in Of("device") : Emit(Msg("input", i)) /\ UNCHANGED server
     \/ \E i \in DOMAIN server.objs \ Of("callback") :
          /\ Emit([Msg("event", i) EXCEPT !.since = server.objs[i].version])
          /\ UNCHANGED server
     \/ \E i \in Of("callback") :      \* done ends the object on both sides
          /\ s2p' = s2p \o <<Msg("event", i),
                             [Msg("delete_id", "core") EXCEPT !.name = i]>>
          /\ server' = [server EXCEPT !.objs = Without(@, i)]
  /\ UNCHANGED <<c2p, p2s, p2c, client, quiet>>
  /\ UNCHANGED proxy

CompositorReads ==
  /\ closed = "no" /\ p2s # << >>
  /\ p2s' = Tail(p2s)
  /\ LET m == Head(p2s)
         known == /\ m.obj = "core" \/ m.obj \in DOMAIN server.objs
                  /\ m.new \notin DOMAIN server.objs
     IN     \/ /\ ~known
               /\ UNCHANGED <<server, s2p>>
            \/ /\ m.op \in {"bind", "sync"} /\ known
               /\ server' = [server EXCEPT
                    !.bound = IF m.op = "bind" THEN @ \cup {m.name} ELSE @,
                    !.objs = With(@, m.new,
                               [iface |-> IF m.op = "bind" THEN m.iface
                                                           ELSE "callback",
                                version |-> m.version])]
               /\ UNCHANGED s2p
            \/ /\ m.op = "destroy" /\ known
               /\ server' = [server EXCEPT !.objs = Without(@, m.obj)]
               /\ IF m.obj \in ClientIds
                  THEN Emit([Msg("delete_id", "core") EXCEPT !.name = m.obj])
                  ELSE UNCHANGED s2p
            \/ /\ m.op = "receive" /\ known
               /\ UNCHANGED <<server, s2p>>
  /\ UNCHANGED <<c2p, p2c, client, quiet>>
  /\ UNCHANGED proxy

PolicyNext == \/ JudgeRequest \/ JudgeEvent \/ Tick
              \/ ClientSends \/ ClientReads \/ CompositorSends \/ CompositorReads

PolicySpec == PolicyInit /\ [][PolicyNext]_pvars

-----------------------------------------------------------------------------
(* A client that keeps the protocol never loses its connection to the       *)
(* proxy's bookkeeping: events for what it destroyed still decode, an id is *)
(* free again when it says so, a version it was told can be bound, and only *)
(* the cap, or a bind of a global the compositor has withdrawn, ends it:    *)
(* Policy::global_remove forgets a name of which a bind may be on its way   *)
(* (policy.rs:336, against the comment at 110).                             *)
HonestServed == client.honest => closed \in {"no", "too many"} \cup server.removed

(* The compositor is bound only to globals it advertised to this client and *)
(* the proxy let it see (Policy::bind, Policy::global).                     *)
BoundWasShown == \A n \in server.bound : n \in server.offered /\ Described(n)

(* The count the cap works with is the number of dead server ids            *)
(* (Objects::destroy, delete_id and record).                                *)
ZombiesCounted ==
  zombies = Cardinality({i \in DOMAIN objects \cap ServerIds : objects[i].zombie})

(* The map holds at most twice MaxObjects: that many live, that many dead   *)
(* (Objects::record, objects.rs:34).                                        *)
MapBounded == Cardinality(DOMAIN objects) <= 2 * MaxObjects

(* A clipboard read that is judged reaches the compositor exactly when the  *)
(* gate is open or input went past within the window, whatever else has     *)
(* gone past since (Policy::request, Policy::arm; policy.rs:13).            *)
ReadsGated ==
  [][c2p # << >> /\ Head(c2p).op = "receive" /\ c2p' = Tail(c2p) /\ closed' = "no"
       => (p2s' = Append(p2s, Head(c2p)) <=> gate = "open" \/ quiet <= Window)]_pvars

(* The four of them: what the proxy lets through is what the compositor     *)
(* showed and the user asked for, and an honest client pays for no          *)
(* bookkeeping but the two above (policy.rs, objects.rs).                   *)
PolicyKept == [](HonestServed /\ BoundWasShown /\ ZombiesCounted) /\ ReadsGated
=============================================================================
