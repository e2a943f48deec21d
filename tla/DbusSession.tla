---------------------------- MODULE DbusSession ----------------------------
(***************************************************************************)
(* The bus client of dbus_wire.rs: one connection, opened and then used    *)
(* for one call at a time.  On the other side are the bus, the service     *)
(* that is called (it may not run yet, may leave during a call, and comes  *)
(* back under another unique name) and a stranger on the same bus who      *)
(* guesses serials.                                                        *)
(*                                                                         *)
(* A message is a record of the header fields call_by() reads.  Bytes,     *)
(* alignment and signatures are left out; a message whose body or whose    *)
(* descriptor count is refused has ok = FALSE.                             *)
(***************************************************************************)
EXTENDS Naturals, Sequences

CONSTANTS Peers,        \* the unique names the service may have, one a start
          Stranger,     \* the unique name of another client of the bus
          NoName,       \* no unique name
          MaxCallFds,   \* MAX_CALL_FDS
          MaxInbox      \* bound: messages waiting in the client's socket

Bus == "org.freedesktop.DBus"
NoOwner == "NameHasNoOwner"
Unknown == "ServiceUnknown"
NoReply == "NoReply"

ASSUME PeersAssumption == /\ {Stranger, NoName, Bus} \cap Peers = {}
                          /\ Stranger # NoName /\ Bus \notin {Stranger, NoName}

VARIABLES step,     \* where the client is
          pending,  \* the call of the caller: [fds, write], or <<>>
          call,     \* the message call_by() awaits an answer to
          owner,    \* Session.owners, for the one well-known name called
          serial,   \* Session.serial
          passing,  \* Session.fd_passing
          late,     \* the deadline has passed
          inbox,    \* what has arrived in the socket
          result,   \* what the last call returned
          bus,      \* the bus: [gone, holder, used, wire]
          exports,  \* what the service has exported: a set of [file, write]
          told      \* unique names a call came back from as not there

client == <<step, pending, call, owner, serial, passing, late, inbox, result>>
svars == <<client, bus, exports, told>>

NoCall == [method |-> "none", dest |-> NoName, serial |-> 0, again |-> FALSE]
NoResult == [tag |-> "none", ids |-> <<>>]
NoWire == [method |-> "none"]
Elements(s) == {s[i] : i \in DOMAIN s}

SessionInit ==
  /\ step = "closed" /\ pending = <<>> /\ call = NoCall /\ owner = NoName
  /\ serial = 0 /\ passing = FALSE /\ late = FALSE /\ inbox = <<>>
  /\ result = NoResult /\ exports = {} /\ told = {}
  /\ \E h \in Peers \cup {NoName} :
       bus = [gone |-> FALSE, holder |-> h, used |-> {h} \ {NoName},
              wire |-> NoWire]

----------------------------------------------------------------------------
(* How a call ends.  Only an answer leaves the connection as it was.        *)

Line(text) == [kind |-> "line", text |-> text]
Message(kind, sender, to, err, ids, ok) ==
  [kind |-> kind, sender |-> sender, serial |-> to, err |-> err, ids |-> ids,
   ok |-> ok]

Return(tag, ids) ==
  /\ result' = [tag |-> tag, ids |-> ids]
  /\ step' = "ready" /\ pending' = <<>> /\ call' = NoCall /\ late' = FALSE

\* Every failure but an answer: the caller drops the session.
Fail == /\ Return("wire", <<>>)
        /\ UNCHANGED <<owner, serial, passing, inbox, bus, exports, told>>

\* connect(), and the first line of authenticate().
Connect ==
  /\ step = "closed" /\ result.tag = "none"
  /\ \/ step' = "auth" /\ late' = FALSE
        /\ UNCHANGED <<pending, call, result>>
     \/ Return("wire", <<>>)
  /\ UNCHANGED <<owner, serial, passing, inbox, bus, exports, told>>

\* Put a message on the wire, by way of the step that writes it.
Sending(method, dest, again) ==
  /\ step' = "send"
  /\ serial' = serial + 1
  /\ call' = [method |-> method, dest |-> dest, serial |-> serial + 1,
              again |-> again]

\* The lines of authenticate(), then hello().
AuthLine ==
  /\ step \in {"auth", "negotiate"} /\ inbox # <<>>
  /\ inbox' = Tail(inbox)
  /\ LET text == Head(inbox).text IN
       \/ /\ step = "auth" /\ text = "OK"
          /\ step' = "negotiate"
          /\ UNCHANGED <<pending, call, serial, passing, late, result>>
       \/ /\ step = "negotiate" /\ text \in {"AGREE_UNIX_FD", "ERROR"}
          /\ passing' = (text = "AGREE_UNIX_FD")
          /\ Sending("Hello", Bus, FALSE)
          /\ UNCHANGED <<pending, late, result>>
       \/ /\ IF step = "auth" THEN text # "OK"
             ELSE text \notin {"AGREE_UNIX_FD", "ERROR"}
          /\ Return("wire", <<>>)
          /\ UNCHANGED <<serial, passing>>
  /\ UNCHANGED <<owner, bus, exports, told>>

\* The checks of call_by() that come before anything is sent.
Unsendable(fds) == \/ fds # <<>> /\ ~passing
                   \/ Len(fds) > MaxCallFds

\* owner_of(): the cached owner, or ask the bus for it first.
AddressedTo(name) ==
  IF name # NoName THEN Sending("AddFull", name, FALSE)
                   ELSE Sending("GetNameOwner", Bus, FALSE)

\* call(): what the caller starts, with its descriptors and permission.
Call(fds, write) ==
  /\ step = "ready" /\ late' = FALSE
  /\ IF Unsendable(fds)
     THEN /\ Return("unsent", <<>>) /\ UNCHANGED serial
     ELSE /\ pending' = <<[fds |-> fds, write |-> write]>>
          /\ AddressedTo(owner) /\ result' = NoResult
  /\ UNCHANGED <<owner, passing, inbox, bus, exports, told>>

\* send(): the message and its descriptors, or the deadline first.
Send ==
  /\ step = "send"
  /\ IF bus.gone THEN Fail
     ELSE /\ step' = "await"
          /\ bus' = [bus EXCEPT !.wire =
               [method |-> call.method, dest |-> call.dest,
                serial |-> call.serial, pending |-> pending]]
          /\ UNCHANGED <<pending, call, owner, serial, passing, late, inbox,
                         result, exports, told>>

\* The loop of call_by() looks at the clock before every message, not only
\* when there is none.
GivesUpIdle == late /\ inbox = <<>>
GivesUp == late

TimeOut ==
  /\ step \in {"auth", "negotiate", "send", "await"} /\ late
  /\ step = "await" => GivesUp
  /\ Fail

\* fill(): nothing is left to read and the bus has closed the connection.
Closed ==
  /\ step \in {"auth", "negotiate", "await"} /\ inbox = <<>> /\ bus.gone
  /\ Fail

----------------------------------------------------------------------------
(* The loop of call_by(): one message off the buffer.                       *)

Answers(m) == m.serial = call.serial /\ m.kind \in {"return", "error"}
TrustedAnyone(m) == TRUE
Trusted(m) == \/ m.sender = call.dest
              \/ m.sender = Bus /\ m.kind = "error"

Skip == UNCHANGED <<step, pending, call, owner, serial, late, result, told>>
Broken == Return("wire", <<>>) /\ UNCHANGED <<owner, serial, told>>

Forgets(err) == err \in {NoOwner, Unknown}

\* A method return: what hello(), ask_owner(), start_service() or the
\* caller makes of it.
Returned(m) ==
  CASE call.method = "Hello" ->
         Return("open", <<>>) /\ UNCHANGED <<owner, serial, told>>
    [] call.method = "GetNameOwner" ->
         /\ owner' = m.ids[1] /\ Sending("AddFull", m.ids[1], FALSE)
         /\ UNCHANGED <<pending, late, result, told>>
    [] call.method = "StartServiceByName" ->
         /\ Sending("GetNameOwner", Bus, TRUE)
         /\ UNCHANGED <<pending, owner, late, result, told>>
    [] OTHER -> Return("ok", m.ids) /\ UNCHANGED <<owner, serial, told>>

\* An error: a name nobody holds is started once, then asked for again.
Errored(m) ==
  IF call.method = "GetNameOwner" /\ m.err = NoOwner /\ ~call.again
  THEN /\ Sending("StartServiceByName", Bus, FALSE)
       /\ UNCHANGED <<pending, owner, late, result, told>>
  ELSE /\ Return("remote", <<>>)
       /\ owner' = IF call.method = "AddFull" /\ Forgets(m.err)
                   THEN NoName ELSE owner
       /\ told' = IF m.sender = Bus /\ m.err = Unknown
                  THEN told \cup {call.dest} ELSE told
       /\ UNCHANGED serial

Receive ==
  /\ step = "await" /\ inbox # <<>> /\ ~GivesUp
  /\ inbox' = Tail(inbox)
  /\ LET m == Head(inbox) IN
       CASE ~m.ok -> Broken
         [] m.ok /\ (~Answers(m) \/ ~Trusted(m)) -> Skip
         [] OTHER -> IF m.kind = "return" THEN Returned(m) ELSE Errored(m)
  /\ UNCHANGED <<passing, bus, exports>>

Expire == /\ step \in {"auth", "negotiate", "send", "await"} /\ ~late
          /\ late' = TRUE
          /\ UNCHANGED <<step, pending, call, owner, serial, passing, inbox,
                         result, bus, exports, told>>

----------------------------------------------------------------------------
(* The bus, the service and the stranger.  The bus stamps every sender, and *)
(* answers what is addressed to it or to a name that has left.              *)

Arrives(m) == inbox' = Append(inbox, m)
Handled == bus' = [bus EXCEPT !.wire = NoWire]

BusLine(text) ==
  /\ step \in {"auth", "negotiate"} /\ inbox = <<>> /\ ~bus.gone
  /\ Arrives(Line(text))
  /\ UNCHANGED <<step, pending, call, owner, serial, passing, late, result,
                 bus, exports, told>>

Quiet == UNCHANGED <<step, pending, call, owner, serial, passing, late, result,
                     told>>

FromBus(kind, err, ids) ==
  Arrives(Message(kind, Bus, bus.wire.serial, err, ids, TRUE))

BusAnswers ==
  /\ ~bus.gone /\ bus.wire # NoWire /\ bus.wire.dest = Bus
  /\ CASE bus.wire.method = "Hello" -> FromBus("return", "", <<>>) /\ Handled
       [] bus.wire.method = "GetNameOwner" ->
            /\ IF bus.holder = NoName THEN FromBus("error", NoOwner, <<>>)
               ELSE FromBus("return", "", <<bus.holder>>)
            /\ Handled
       [] OTHER ->
            \/ bus.holder # NoName /\ FromBus("return", "", <<>>) /\ Handled
            \/ /\ bus.holder = NoName
               /\ \E p \in Peers \ bus.used :
                    bus' = [bus EXCEPT !.wire = NoWire, !.holder = p,
                                       !.used = @ \cup {p}]
               /\ FromBus("return", "", <<>>)
            \/ bus.holder = NoName /\ FromBus("error", Unknown, <<>>) /\ Handled
  /\ UNCHANGED exports /\ Quiet

\* Nobody has that unique name any more.
BusBounces ==
  /\ ~bus.gone /\ bus.wire # NoWire
  /\ bus.wire.dest \in Peers /\ bus.wire.dest # bus.holder
  /\ FromBus("error", Unknown, <<>>) /\ Handled
  /\ UNCHANGED exports /\ Quiet

\* The service exports what it was handed and says under which ids, or
\* refuses, or answers with another number of ids.
ServiceAnswers ==
  /\ ~bus.gone /\ bus.wire # NoWire
  /\ bus.wire.dest \in Peers /\ bus.wire.dest = bus.holder
  /\ LET p == bus.wire.pending[1]
         answer(kind, err, ids, ok) ==
           Arrives(Message(kind, bus.holder, bus.wire.serial, err, ids, ok))
     IN \/ /\ exports' = exports \cup
                {[file |-> f, write |-> p.write] : f \in Elements(p.fds)}
           /\ \E ids \in {p.fds, Tail(p.fds)}, ok \in BOOLEAN :
                answer("return", "", ids, ok)
        \/ answer("error", "NotAllowed", <<>>, TRUE) /\ UNCHANGED exports
  /\ Handled /\ Quiet

\* The service leaves; a call it had is answered by the bus.
ServiceLeaves ==
  /\ ~bus.gone /\ bus.holder # NoName
  /\ IF bus.wire # NoWire /\ bus.wire.dest = bus.holder
     THEN /\ bus' = [bus EXCEPT !.holder = NoName, !.wire = NoWire]
          /\ FromBus("error", NoReply, <<>>)
     ELSE bus' = [bus EXCEPT !.holder = NoName] /\ UNCHANGED inbox
  /\ UNCHANGED exports /\ Quiet

\* The stranger answers first, with a guessed serial, or sends a signal, or
\* a message with more descriptors than fill() has room for.
StrangerSends ==
  /\ ~bus.gone /\ step = "await" /\ Len(inbox) < MaxInbox
  /\ \E kind \in {"return", "error", "signal"}, ok \in BOOLEAN :
       Arrives(Message(kind, Stranger, serial, Unknown, <<Stranger>>, ok))
  /\ UNCHANGED <<bus, exports>> /\ Quiet

BusLeaves ==
  /\ ~bus.gone /\ bus' = [bus EXCEPT !.gone = TRUE]
  /\ UNCHANGED <<inbox, exports>> /\ Quiet

World == \/ \E text \in {"OK", "REJECTED", "AGREE_UNIX_FD", "ERROR"} :
              BusLine(text)
         \/ BusAnswers \/ BusBounces \/ ServiceAnswers \/ ServiceLeaves
         \/ StrangerSends \/ BusLeaves

----------------------------------------------------------------------------
SessionTypeOK ==
  /\ step \in {"closed", "auth", "negotiate", "send", "await", "ready"}
  /\ owner \in Peers \cup {NoName, Stranger}
  /\ serial \in Nat /\ passing \in BOOLEAN /\ late \in BOOLEAN
  /\ call.method \in {"none", "Hello", "GetNameOwner", "StartServiceByName",
                      "AddFull"}
  /\ call.serial <= serial
  /\ Len(inbox) <= MaxInbox + 2

(* A name a call has come back from as gone is never addressed again: the   *)
(* owner is forgotten with the error, looked up and if need be started anew *)
(* (call_by's owners.retain, dbus_wire.rs:1429).                            *)
NotToCorpse == call.method = "AddFull" => call.dest \notin told
=============================================================================
