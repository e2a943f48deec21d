------------------------------- MODULE Stream -------------------------------
(***************************************************************************)
(* What a one-way byte stream promises between two programs that share no  *)
(* socket: every unit given is taken at most once and in order, and the    *)
(* end of the stream is seen only behind the last unit before it.          *)
(*                                                                         *)
(* Nothing of the relay in between is here: no buffer, no poll, no thread. *)
(* NetProxy's tunnels are shown to implement it.                           *)
(***************************************************************************)
EXTENDS Naturals

CONSTANT Streams

VARIABLES given,    \* stream -> units its source has given and not taken back
          taken,    \* stream -> units its sink has been given
          ended,    \* stream -> the source has ended it
          closed    \* stream -> the sink has been told of the end

svars == <<given, taken, ended, closed>>

Init == /\ given = [s \in Streams |-> 0] /\ taken = [s \in Streams |-> 0]
        /\ ended = [s \in Streams |-> FALSE] /\ closed = [s \in Streams |-> FALSE]

Give(s) == /\ ~ended[s] /\ given' = [given EXCEPT ![s] = @ + 1]
           /\ UNCHANGED <<taken, ended, closed>>

(* A source that resets the stream takes back units nobody has taken.      *)
End(s) == /\ ~ended[s] /\ ended' = [ended EXCEPT ![s] = TRUE]
          /\ \E n \in taken[s]..given[s] : given' = [given EXCEPT ![s] = n]
          /\ UNCHANGED <<taken, closed>>

Take(s) == /\ ~closed[s]
           /\ \E n \in (taken[s] + 1)..given[s] : taken' = [taken EXCEPT ![s] = n]
           /\ UNCHANGED <<given, ended, closed>>

Close(s) == /\ ended[s] /\ taken[s] = given[s] /\ ~closed[s]
            /\ closed' = [closed EXCEPT ![s] = TRUE]
            /\ UNCHANGED <<given, taken, ended>>

(* The connection is over for both of its streams, and its name free.      *)
Cut(S) ==
  /\ given' = [s \in Streams |-> IF s \in S THEN 0 ELSE given[s]]
  /\ taken' = [s \in Streams |-> IF s \in S THEN 0 ELSE taken[s]]
  /\ ended' = [s \in Streams |-> s \notin S /\ ended[s]]
  /\ closed' = [s \in Streams |-> s \notin S /\ closed[s]]

Next == \/ \E s \in Streams : Give(s) \/ End(s) \/ Take(s) \/ Close(s)
        \/ \E S \in SUBSET Streams : Cut(S)

Spec == Init /\ [][Next]_svars
=============================================================================
