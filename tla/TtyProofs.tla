----------------------------- MODULE TtyProofs ------------------------------
(***************************************************************************)
(* Theorems about the relay between the user's terminal and a pty, for     *)
(* every size of chunk, hold and pty and any length of a detach sequence,  *)
(* and about the descriptors a run borrows from the user.                  *)
(***************************************************************************)
EXTENDS TtyRelay, TLAPS, SequenceTheorems

(* ---------------------------- the invariant ----------------------------- *)

Over == {"drain", "finish", "done"}

(* The relay is over exactly when it has a result, and the limit is raised *)
(* with it; no key is in hand but while keys are fed.                      *)
Control ==
  /\ result = "none" <=> pc \notin Over
  /\ limit = IF result = "none" THEN PendingMax ELSE DrainMax
  /\ result # "detached" /\ pc # "feed" => chunk = <<>>
  /\ pc \in {"type", "stdin"} /\ "out" \notin polled => typed = <<>>
  /\ pc \in {"type", "stdin", "feed", "pty"} /\ "in" \in polled => pending < PendingMax
  /\ quiet => ~slave

(* Once the sandbox is gone every whole chunk read beyond the limit is one *)
(* the pty had buffered.                                                   *)
Chunks == {m \in Nat : \E j \in Nat : m = j * Chunk}
Spare(m) == pending < PendingMax + m + Chunk /\ (pty > 0 => pty + m <= PtyMax)
Room ==
  /\ result = "none" /\ slave => pending < PendingMax + Chunk
  /\ result = "none" /\ ~slave => pending + pty < PendingMax + Chunk + PtyMax
  /\ ~slave /\ (result = "none" \/ (pc = "drain" /\ quiet /\ result = "exited")) =>
       \E m \in Chunks : Spare(m)

(* What the sandbox has of the keys, without an end-of-file character or   *)
(* around one; as long as keys are read there has been none.               *)
Chars == {"x", "esc", "eof"}
Plain == Sent \o Kept = all
Split == \E a, b \in Seq(Chars) : Sent = (a \o <<"eof">>) \o b /\ (a \o b) \o Kept = all
Keys == slave /\ result # "detached" => (Plain \/ Split) /\ (stdin => Plain)

IInv == TypeOK /\ Control /\ Accounted /\ Room /\ Keys

(* The parts of the type invariant: truth values, counts and texts.        *)
Flags == /\ exec \in BOOLEAN /\ tty \in BOOLEAN /\ slave \in BOOLEAN /\ status \in BOOLEAN
         /\ stop \in BOOLEAN /\ stopping \in BOOLEAN /\ winch \in BOOLEAN /\ reading \in BOOLEAN
         /\ quiet \in BOOLEAN /\ hung \in BOOLEAN /\ stdin \in BOOLEAN /\ aged \in BOOLEAN
Counts == /\ pc \in Locations /\ result \in {"none", "exited", "signalled", "detached"}
          /\ pty \in 0..PtyMax /\ made \in 0..MaxOut
          /\ hostSize \in 0..MaxResizes /\ size \in 0..MaxResizes /\ ptySize \in 0..MaxResizes
          /\ pending \in Nat /\ limit \in {PendingMax, DrainMax} /\ dest \in {"host", "sink", "none"}
          /\ taken \in Nat /\ dropped \in Nat /\ polled \subseteq {"in", "out"}
          /\ held \in 0..(DetachRun - 1)
Texts == /\ all \in Seq({"x", "esc"}) /\ keys \in Seq({"x", "esc"}) /\ chunk \in Seq({"x", "esc"})
         /\ typed \in Seq({"x", "esc", "eof"}) /\ got \in Seq({"x", "esc", "eof"})
LEMMA TypeParts == TypeOK <=> Flags /\ Counts /\ Texts
  BY DEF TypeOK, Flags, Counts, Texts
LEMMA TypePartsNext == TypeOK' <=> Flags' /\ Counts' /\ Texts'
  BY DEF TypeOK, Flags, Counts, Texts

(* What Out.flush() is given it keeps or hands on.                         *)
LEMMA FlushKeeps ==
  ASSUME TypeOK, NEW n \in Nat, Flush(n)
  PROVE  /\ pending' \in 0..n /\ taken' \in Nat /\ pending' + taken' = n + taken
         /\ dest' \in {"host", "sink", "none"}
<1>1. taken \in Nat /\ pending \in Nat /\ dest \in {"host", "sink", "none"}
  BY DEF TypeOK
<1>2. CASE dest = "host" /\ \E k \in 0..n : pending' = n - k /\ taken' = taken + k /\ UNCHANGED dest
  BY <1>1, <1>2
<1>3. CASE pending' = 0 /\ taken' = taken + n /\ dest' \in {"sink", "none"}
  BY <1>1, <1>3
<1>4. CASE dest = "none" /\ pending' = n /\ UNCHANGED <<dest, taken>>
  BY <1>1, <1>4
<1> QED BY <1>2, <1>3, <1>4 DEF Flush

(* Escapes held back are keys of the user's.                               *)
LEMMA EscapesAre ==
  ASSUME NEW n \in Nat
  PROVE  /\ Escapes(n) \in Seq({"x", "esc"}) /\ Escapes(n) \in Seq(Chars) /\ Len(Escapes(n)) = n
         /\ Escapes(n + 1) = Escapes(n) \o <<"esc">>
<1>1. Escapes(n) \in Seq({"x", "esc"}) /\ Escapes(n) \in Seq(Chars) /\ Len(Escapes(n)) = n
  BY DEF Escapes, Chars
<1>2. Escapes(n + 1) \in Seq(Chars) /\ Len(Escapes(n + 1)) = n + 1
  BY DEF Escapes, Chars
<1>3. <<"esc">> \in Seq(Chars)
  BY DEF Chars
<1>4. \A i \in 1..(n + 1) : Escapes(n + 1)[i] = (Escapes(n) \o <<"esc">>)[i]
  BY <1>1, <1>3 DEF Escapes
<1>5. Escapes(n) \o <<"esc">> \in Seq(Chars) /\ Len(Escapes(n) \o <<"esc">>) = n + 1
  BY <1>1, <1>3
<1> QED BY <1>1, <1>2, <1>4, <1>5, SeqEqual

LEMMA InitInv == Init => IInv
<1> SUFFICES ASSUME Init PROVE IInv
  OBVIOUS
<1> USE RelayAssumption DEF Init
<1>1. TypeOK
  <2>1. Flags
    BY DEF Flags
  <2>2. Counts
    BY DEF Counts, Locations
  <2>3. Texts
    BY DEF Texts
  <2> QED BY <2>1, <2>2, <2>3, TypeParts
<1>2. Control
  BY DEF Control, Over
<1>3. Accounted /\ Room
  BY DEF Accounted, Room
<1>4. Keys
  <2>1. Escapes(0) = <<>>
    BY EscapesAre, EmptySeq
  <2>2. Plain
    BY <2>1 DEF Plain, Sent, Kept
  <2> QED BY <2>2 DEF Keys
<1> QED BY <1>1, <1>2, <1>3, <1>4 DEF IInv

LEMMA FlagsStep ==
  ASSUME TypeOK, [Next]_vars
  PROVE  Flags'
<1>0. Flags
  BY TypeParts
<1>1. CASE Until
  BY <1>0, <1>1 DEF Until, sandbox, keyboard, setup, Flags
<1>2. CASE TakeWinch
  BY <1>0, <1>2 DEF TakeWinch, sandbox, output, keyboard, setup, Flags
<1>3. CASE GetSize
  BY <1>0, <1>3 DEF GetSize, sandbox, output, keyboard, setup, Flags
<1>4. CASE SetSize
  BY <1>0, <1>4 DEF SetSize, sandbox, output, keyboard, setup, Flags
<1>5. CASE ServeOut
  BY <1>0, <1>5, ZenonT(60) DEF ServeOut, sandbox, signals, setup, Flags
<1>6. CASE ServeTyped
  BY <1>0, <1>6, ZenonT(60) DEF ServeTyped, sandbox, signals, output, setup, Flags
<1>7. CASE ServeStdin
  BY <1>0, <1>7, ZenonT(60) DEF ServeStdin, sandbox, signals, output, setup, Flags
<1>8. CASE Feed
  <2>1. aged' = FALSE \/ aged' = aged
    BY <1>8 DEF Feed
  <2>2. UNCHANGED <<setup, sandbox, signals, reading, quiet, hung, stdin>>
    BY <1>8 DEF Feed
  <2> QED BY <1>0, <2>1, <2>2, ZenonT(60) DEF sandbox, signals, setup, Flags
<1>9. CASE ServePty
  <2>1. reading' = FALSE \/ reading' = reading
    BY <1>9 DEF ServePty, ReadPty
  <2> QED BY <1>0, <1>9, <2>1, ZenonT(60) DEF ServePty, signals, keyboard, setup, Flags
<1>10. CASE DrainFlush
  BY <1>0, <1>10 DEF DrainFlush, control, sandbox, signals, keyboard, setup, Flags
<1>11. CASE DrainRead
  <2>1. reading' = FALSE \/ reading' = reading
    BY <1>11 DEF DrainRead, ReadPty
  <2> QED BY <1>0, <1>11, <2>1, ZenonT(60) DEF DrainRead, control, signals, keyboard, setup, Flags
<1>12. CASE DrainOver
  BY <1>0, <1>12 DEF DrainOver, sandbox, signals, output, keyboard, setup, Flags
<1>13. CASE Finish
  BY <1>0, <1>13 DEF Finish, sandbox, signals, keyboard, setup, Flags
<1>14. CASE GiveUp
  BY <1>0, <1>14 DEF GiveUp, sandbox, signals, keyboard, setup, Flags
<1>15. ASSUME NEW n \in 1..PtyMax, Write(n)
      PROVE  Flags'
  BY <1>0, <1>15 DEF Write, control, signals, output, keyboard, setup, Flags
<1>16. CASE CloseSlave
  BY <1>0, <1>16 DEF CloseSlave, control, signals, output, keyboard, setup, Flags
<1>17. CASE StatusArrives
  BY <1>0, <1>17 DEF StatusArrives, control, signals, output, keyboard, setup, Flags
<1>18. CASE StopSignal
  BY <1>0, <1>18 DEF StopSignal, control, sandbox, output, keyboard, setup, Flags
<1>19. CASE HostResizes
  BY <1>0, <1>19 DEF HostResizes, control, sandbox, output, keyboard, setup, Flags
<1>20. CASE HangUp
  BY <1>0, <1>20 DEF HangUp, control, sandbox, signals, output, setup, Flags
<1>21. CASE WindowPasses
  BY <1>0, <1>21 DEF WindowPasses, control, sandbox, signals, output, setup, Flags
<1>22. ASSUME NEW b \in {"x", "esc"}, TypeKey(b)
      PROVE  Flags'
  BY <1>0, <1>22 DEF TypeKey, control, sandbox, signals, output, setup, Flags
<1>23. CASE UNCHANGED vars
  BY <1>0, <1>23 DEF vars, Flags
<1> QED
  BY <1>1, <1>2, <1>3, <1>4, <1>5, <1>6, <1>7, <1>8, <1>9, <1>10, <1>11, <1>12, <1>13, <1>14,
     <1>15, <1>16, <1>17, <1>18, <1>19, <1>20, <1>21, <1>22, <1>23
           DEF Next, Relay, Ending, Outside, Ended

LEMMA CountsStep ==
  ASSUME TypeOK, [Next]_vars
  PROVE  Counts'
<1> USE RelayAssumption
<1>0. TypeOK /\ Counts
  BY TypeParts
<1>1. CASE Until
  BY <1>0, <1>1 DEF Until, sandbox, keyboard, setup, Counts, Locations
<1>2. CASE TakeWinch
  BY <1>0, <1>2 DEF TakeWinch, sandbox, output, keyboard, setup, Counts, Locations
<1>3. CASE GetSize
  BY <1>0, <1>3 DEF GetSize, sandbox, output, keyboard, setup, Counts, Locations
<1>4. CASE SetSize
  BY <1>0, <1>4 DEF SetSize, sandbox, output, keyboard, setup, Counts, Locations
<1>5. CASE ServeOut
  <2>1. pending' \in Nat /\ taken' \in Nat /\ dest' \in {"host", "sink", "none"}
    BY <1>0, <1>5, FlushKeeps DEF ServeOut, Counts
  <2>2. held' \in 0..(DetachRun - 1) /\ polled' \subseteq {"in", "out"}
    BY <1>0, <1>5 DEF ServeOut, Counts
  <2> QED BY <1>0, <1>5, <2>1, <2>2 DEF ServeOut, setup, sandbox, signals, Counts, Locations
<1>6. CASE ServeTyped
  BY <1>0, <1>6 DEF ServeTyped, sandbox, signals, output, setup, Counts, Locations
<1>7. CASE ServeStdin
  BY <1>0, <1>7 DEF ServeStdin, sandbox, signals, output, setup, Counts, Locations
<1>8. CASE Feed
  <2>1. held' \in 0..(DetachRun - 1)
    <3>1. held \in 0..(DetachRun - 1)
      BY <1>0 DEF Counts
    <3>2. Run # DetachRun => Run \in 0..(DetachRun - 1)
      BY <3>1 DEF Run
    <3> QED BY <1>8, <3>1, <3>2 DEF Feed
  <2>2. pc' \in Locations /\ result' \in {"none", "exited", "signalled", "detached"} /\ limit' \in {PendingMax, DrainMax}
    BY <1>0, <1>8 DEF Feed, Counts, Locations
  <2> QED BY <1>0, <1>8, <2>1, <2>2 DEF Feed, setup, sandbox, signals, Counts
<1>9. CASE ServePty
  <2>1. pty' \in 0..PtyMax
    BY <1>0, <1>9 DEF ServePty, ReadPty, ChunkRead, Least, Counts
  <2>2. pending' \in Nat /\ taken' \in Nat /\ dest' \in {"host", "sink", "none"}
    <3>1. pending + ChunkRead \in Nat
      BY <1>0 DEF ChunkRead, Least, Counts
    <3>2. CASE Flush(pending + ChunkRead)
      BY <1>0, <3>1, <3>2, FlushKeeps
    <3>3. CASE UNCHANGED <<pending, dest, taken>>
      BY <1>0, <3>3 DEF Counts
    <3> QED BY <1>9, <3>2, <3>3 DEF ServePty, ReadPty
  <2> QED BY <1>0, <1>9, <2>1, <2>2 DEF ServePty, setup, signals, keyboard, Counts, Locations
<1>10. CASE DrainFlush
  <2>1. pending' \in Nat /\ taken' \in Nat /\ dest' \in {"host", "sink", "none"}
    BY <1>0, <1>10, FlushKeeps DEF DrainFlush, Counts
  <2> QED BY <1>0, <1>10, <2>1 DEF DrainFlush, control, sandbox, signals, keyboard, setup, Counts,
        Locations
<1>11. CASE DrainRead
  <2>1. pty' \in 0..PtyMax /\ pending' \in Nat
    <3>1. pty \in 0..PtyMax /\ pending \in Nat /\ Chunk \in Nat \ {0}
      BY <1>0 DEF Counts
    <3>2. CASE pty > 0 /\ pty' = pty - ChunkRead /\ pending' = pending + ChunkRead
      BY <3>1, <3>2 DEF ChunkRead, Least
    <3>3. CASE UNCHANGED <<pty, pending>>
      BY <3>1, <3>3
    <3> QED BY <1>11, <3>2, <3>3 DEF DrainRead, ReadPty
  <2> QED BY <1>0, <1>11, <2>1 DEF DrainRead, control, setup, signals, keyboard, Counts
<1>12. CASE DrainOver
  BY <1>0, <1>12 DEF DrainOver, sandbox, signals, output, keyboard, setup, Counts, Locations
<1>13. CASE Finish
  <2>1. pending' \in Nat /\ taken' \in Nat /\ dest' \in {"host", "sink", "none"}
    BY <1>0, <1>13, FlushKeeps DEF Finish, Counts
  <2> QED BY <1>0, <1>13, <2>1 DEF Finish, setup, sandbox, signals, keyboard, Counts, Locations
<1>14. CASE GiveUp
  BY <1>0, <1>14 DEF GiveUp, sandbox, signals, keyboard, setup, Counts, Locations
<1>15. ASSUME NEW n \in 1..PtyMax, Write(n)
      PROVE  Counts'
  BY <1>0, <1>15 DEF Write, control, signals, output, keyboard, setup, Counts, Locations
<1>16. CASE CloseSlave
  BY <1>0, <1>16 DEF CloseSlave, control, signals, output, keyboard, setup, Counts, Locations
<1>17. CASE StatusArrives
  BY <1>0, <1>17 DEF StatusArrives, control, signals, output, keyboard, setup, Counts, Locations
<1>18. CASE StopSignal
  BY <1>0, <1>18 DEF StopSignal, control, sandbox, output, keyboard, setup, Counts, Locations
<1>19. CASE HostResizes
  BY <1>0, <1>19 DEF HostResizes, control, sandbox, output, keyboard, setup, Counts, Locations
<1>20. CASE HangUp
  BY <1>0, <1>20 DEF HangUp, control, sandbox, signals, output, setup, Counts, Locations
<1>21. CASE WindowPasses
  BY <1>0, <1>21 DEF WindowPasses, control, sandbox, signals, output, setup, Counts, Locations
<1>22. ASSUME NEW b \in {"x", "esc"}, TypeKey(b)
      PROVE  Counts'
  BY <1>0, <1>22 DEF TypeKey, control, sandbox, signals, output, setup, Counts, Locations
<1>23. CASE UNCHANGED vars
  BY <1>0, <1>23 DEF vars, Counts, Locations
<1> QED
  BY <1>1, <1>2, <1>3, <1>4, <1>5, <1>6, <1>7, <1>8, <1>9, <1>10, <1>11, <1>12, <1>13, <1>14,
     <1>15, <1>16, <1>17, <1>18, <1>19, <1>20, <1>21, <1>22, <1>23
           DEF Next, Relay, Ending, Outside, Ended

LEMMA TextsStep ==
  ASSUME TypeOK, [Next]_vars
  PROVE  Texts'
<1>0. Texts /\ Counts /\ DetachRun \in Nat
  BY TypeParts, RelayAssumption
<1>e. Escapes(held) \in Seq({"x", "esc", "eof"}) /\ Escapes(held) \in Seq({"x", "esc"})
  <2>1. held \in Nat
    BY <1>0 DEF Counts
  <2> QED BY <2>1, EscapesAre DEF Chars
<1>1. CASE Until
  BY <1>0, <1>1 DEF Until, sandbox, keyboard, setup, Texts
<1>2. CASE TakeWinch
  BY <1>0, <1>2 DEF TakeWinch, sandbox, output, keyboard, setup, Texts
<1>3. CASE GetSize
  BY <1>0, <1>3 DEF GetSize, sandbox, output, keyboard, setup, Texts
<1>4. CASE SetSize
  BY <1>0, <1>4 DEF SetSize, sandbox, output, keyboard, setup, Texts
<1>5. CASE ServeOut
  <2>1. typed' = typed \/ typed' = typed \o Escapes(held)
    BY <1>5 DEF ServeOut
  <2>2. typed \o Escapes(held) \in Seq({"x", "esc", "eof"})
    BY <1>0, <1>e DEF Texts
  <2> QED BY <1>0, <1>5, <2>1, <2>2 DEF ServeOut, Texts
<1>6. CASE ServeTyped
  <2>1. typed' \in Seq({"x", "esc", "eof"}) /\ got' \in Seq({"x", "esc", "eof"})
    <3>1. CASE typed' = <<>> /\ UNCHANGED got
      BY <1>0, <3>1 DEF Texts
    <3>2. ASSUME NEW k \in 0..Len(typed), got' = got \o SubSeq(typed, 1, k),
                 typed' = SubSeq(typed, k + 1, Len(typed))
          PROVE  typed' \in Seq({"x", "esc", "eof"}) /\ got' \in Seq({"x", "esc", "eof"})
      <4>1. typed \in Seq({"x", "esc", "eof"}) /\ got \in Seq({"x", "esc", "eof"})
        BY <1>0 DEF Texts
      <4>2. Len(typed) \in Nat /\ \A i \in 1..Len(typed) : typed[i] \in {"x", "esc", "eof"}
        BY <4>1, LenProperties, ElementOfSeq
      <4>3. SubSeq(typed, 1, k) \in Seq({"x", "esc", "eof"})
        BY <4>1, <4>2, SubSeqProperties
      <4>4. SubSeq(typed, k + 1, Len(typed)) \in Seq({"x", "esc", "eof"})
        BY <4>1, <4>2, SubSeqProperties
      <4> QED BY <3>2, <4>1, <4>3, <4>4
    <3> QED BY <1>6, <3>1, <3>2 DEF ServeTyped
  <2> QED BY <1>0, <1>6, <2>1 DEF ServeTyped, Texts
<1>7. CASE ServeStdin
  <2>1. typed' = typed \/ typed' = <<>> \/ typed' = <<"eof">>
    BY <1>7 DEF ServeStdin
  <2>2. (chunk' = chunk \/ chunk' = keys) /\ (keys' = keys \/ keys' = <<>>)
    BY <1>7 DEF ServeStdin
  <2>3. typed' \in Seq({"x", "esc", "eof"})
    <3>1. <<>> \in Seq({"x", "esc", "eof"}) /\ <<"eof">> \in Seq({"x", "esc", "eof"})
      OBVIOUS
    <3> QED BY <1>0, <2>1, <3>1 DEF Texts
  <2>4. chunk' \in Seq({"x", "esc"}) /\ keys' \in Seq({"x", "esc"})
    <3>1. <<>> \in Seq({"x", "esc"}) /\ chunk \in Seq({"x", "esc"}) /\ keys \in Seq({"x", "esc"})
      BY <1>0 DEF Texts
    <3> QED BY <2>2, <3>1
  <2> QED BY <1>0, <1>7, <2>3, <2>4 DEF ServeStdin, Texts
<1>8. CASE Feed
  <2>1. chunk \in Seq({"x", "esc"}) /\ typed \in Seq({"x", "esc", "eof"})
    BY <1>0 DEF Texts
  <2>2. chunk # <<>> => Head(chunk) \in {"x", "esc"} /\ Tail(chunk) \in Seq({"x", "esc"})
    BY <2>1
  <2>3. chunk' \in Seq({"x", "esc"})
    BY <1>8, <2>1, <2>2 DEF Feed
  <2>4. typed' \in Seq({"x", "esc", "eof"})
    <3>1. typed \o Before \in Seq({"x", "esc", "eof"})
      BY <1>e, <2>1 DEF Before
    <3>2. chunk # <<>> => typed \o Escapes(held) \o <<Head(chunk)>> \in Seq({"x", "esc", "eof"})
      BY <1>e, <2>1, <2>2
    <3> QED BY <1>8, <2>1, <3>1, <3>2 DEF Feed
  <2> QED BY <1>0, <1>8, <2>3, <2>4 DEF Feed, Texts
<1>9. CASE ServePty
  BY <1>0, <1>9 DEF ServePty, signals, keyboard, setup, Texts
<1>10. CASE DrainFlush
  BY <1>0, <1>10 DEF DrainFlush, control, sandbox, signals, keyboard, setup, Texts
<1>11. CASE DrainRead
  BY <1>0, <1>11 DEF DrainRead, control, signals, keyboard, setup, Texts
<1>12. CASE DrainOver
  BY <1>0, <1>12 DEF DrainOver, sandbox, signals, output, keyboard, setup, Texts
<1>13. CASE Finish
  BY <1>0, <1>13 DEF Finish, sandbox, signals, keyboard, setup, Texts
<1>14. CASE GiveUp
  BY <1>0, <1>14 DEF GiveUp, sandbox, signals, keyboard, setup, Texts
<1>15. ASSUME NEW n \in 1..PtyMax, Write(n)
      PROVE  Texts'
  BY <1>0, <1>15 DEF Write, control, signals, output, keyboard, setup, Texts
<1>16. CASE CloseSlave
  BY <1>0, <1>16 DEF CloseSlave, control, signals, output, keyboard, setup, Texts
<1>17. CASE StatusArrives
  BY <1>0, <1>17 DEF StatusArrives, control, signals, output, keyboard, setup, Texts
<1>18. CASE StopSignal
  BY <1>0, <1>18 DEF StopSignal, control, sandbox, output, keyboard, setup, Texts
<1>19. CASE HostResizes
  BY <1>0, <1>19 DEF HostResizes, control, sandbox, output, keyboard, setup, Texts
<1>20. CASE HangUp
  BY <1>0, <1>20 DEF HangUp, control, sandbox, signals, output, setup, Texts
<1>21. CASE WindowPasses
  BY <1>0, <1>21 DEF WindowPasses, control, sandbox, signals, output, setup, Texts
<1>22. ASSUME NEW b \in {"x", "esc"}, TypeKey(b)
      PROVE  Texts'
  BY <1>0, <1>22 DEF TypeKey, control, sandbox, signals, output, setup, Texts
<1>23. CASE UNCHANGED vars
  BY <1>0, <1>23 DEF vars, Texts
<1> QED
  BY <1>1, <1>2, <1>3, <1>4, <1>5, <1>6, <1>7, <1>8, <1>9, <1>10, <1>11, <1>12, <1>13, <1>14,
     <1>15, <1>16, <1>17, <1>18, <1>19, <1>20, <1>21, <1>22, <1>23
           DEF Next, Relay, Ending, Outside, Ended

LEMMA TypeStep ==
  ASSUME TypeOK, [Next]_vars
  PROVE  TypeOK'
  BY FlagsStep, CountsStep, TextsStep, TypePartsNext

(* ------------------------ where the relay stands ------------------------ *)

(* The parts of Control: the result and the limit, the keys in hand, the   *)
(* room poll() was asked for.                                              *)
Verdict == /\ result = "none" <=> pc \notin Over
           /\ limit = IF result = "none" THEN PendingMax ELSE DrainMax
           /\ quiet => ~slave
InHand == /\ result # "detached" /\ pc # "feed" => chunk = <<>>
          /\ pc \in {"type", "stdin"} /\ "out" \notin polled => typed = <<>>
Asked == pc \in {"type", "stdin", "feed", "pty"} /\ "in" \in polled => pending < PendingMax
LEMMA ControlParts == Control <=> Verdict /\ InHand /\ Asked
  BY DEF Control, Verdict, InHand, Asked
LEMMA ControlPartsNext == Control' <=> Verdict' /\ InHand' /\ Asked'
  BY DEF Control, Verdict, InHand, Asked

LEMMA VerdictStep ==
  ASSUME TypeOK, Control, [Next]_vars
  PROVE  Verdict'
<1>0. Verdict /\ pc \in Locations /\ result \in {"none", "exited", "signalled", "detached"} /\ slave \in BOOLEAN
  BY ControlParts DEF TypeOK
<1>1. CASE Until
  <2>1. CASE result' = "none"
    BY <1>0, <1>1, <2>1 DEF Until, sandbox, Verdict, Over
  <2>2. CASE result' # "none"
    BY <1>0, <1>1, <2>2 DEF Until, sandbox, Verdict, Over
  <2> QED BY <2>1, <2>2
<1>2. CASE TakeWinch
  BY <1>0, <1>2 DEF TakeWinch, sandbox, output, keyboard, setup, Verdict, Over
<1>3. CASE GetSize
  BY <1>0, <1>3 DEF GetSize, sandbox, output, keyboard, setup, Verdict, Over
<1>4. CASE SetSize
  BY <1>0, <1>4 DEF SetSize, sandbox, output, keyboard, setup, Verdict, Over
<1>5. CASE ServeOut
  BY <1>0, <1>5 DEF ServeOut, sandbox, signals, setup, Verdict, Over
<1>6. CASE ServeTyped
  BY <1>0, <1>6 DEF ServeTyped, sandbox, signals, output, setup, Verdict, Over
<1>7. CASE ServeStdin
  BY <1>0, <1>7 DEF ServeStdin, sandbox, signals, output, setup, Verdict, Over
<1>8. CASE Feed
  <2>1. UNCHANGED <<slave, quiet>>
    BY <1>8 DEF Feed, sandbox
  <2>2. \/ pc' \in {"feed", "pty"} /\ UNCHANGED <<limit, result>>
        \/ pc' = "finish" /\ result' = "detached" /\ limit' = DrainMax
    BY <1>8 DEF Feed
  <2>3. pc = "feed"
    BY <1>8 DEF Feed
  <2> QED BY <1>0, <2>1, <2>2, <2>3 DEF Verdict, Over
<1>9. CASE ServePty
  BY <1>0, <1>9 DEF ServePty, signals, keyboard, setup, Verdict, Over
<1>10. CASE DrainFlush
  BY <1>0, <1>10 DEF DrainFlush, control, sandbox, signals, keyboard, setup, Verdict, Over
<1>11. CASE DrainRead
  BY <1>0, <1>11 DEF DrainRead, control, signals, keyboard, setup, Verdict, Over
<1>12. CASE DrainOver
  BY <1>0, <1>12 DEF DrainOver, sandbox, signals, output, keyboard, setup, Verdict, Over
<1>13. CASE Finish
  BY <1>0, <1>13 DEF Finish, sandbox, signals, keyboard, setup, Verdict, Over
<1>14. CASE GiveUp
  BY <1>0, <1>14 DEF GiveUp, sandbox, signals, keyboard, setup, Verdict, Over
<1>15. ASSUME NEW n \in 1..PtyMax, Write(n)
      PROVE  Verdict'
  BY <1>0, <1>15 DEF Write, control, signals, output, keyboard, setup, Verdict, Over
<1>16. CASE CloseSlave
  BY <1>0, <1>16 DEF CloseSlave, control, signals, output, keyboard, setup, Verdict, Over
<1>17. CASE StatusArrives
  BY <1>0, <1>17 DEF StatusArrives, control, signals, output, keyboard, setup, Verdict, Over
<1>18. CASE StopSignal
  BY <1>0, <1>18 DEF StopSignal, control, sandbox, output, keyboard, setup, Verdict, Over
<1>19. CASE HostResizes
  BY <1>0, <1>19 DEF HostResizes, control, sandbox, output, keyboard, setup, Verdict, Over
<1>20. CASE HangUp
  BY <1>0, <1>20 DEF HangUp, control, sandbox, signals, output, setup, Verdict, Over
<1>21. CASE WindowPasses
  BY <1>0, <1>21 DEF WindowPasses, control, sandbox, signals, output, setup, Verdict, Over
<1>22. ASSUME NEW b \in {"x", "esc"}, TypeKey(b)
      PROVE  Verdict'
  BY <1>0, <1>22 DEF TypeKey, control, sandbox, signals, output, setup, Verdict, Over
<1>23. CASE UNCHANGED vars
  BY <1>0, <1>23 DEF vars, Verdict, Over
<1> QED
  BY <1>1, <1>2, <1>3, <1>4, <1>5, <1>6, <1>7, <1>8, <1>9, <1>10, <1>11, <1>12, <1>13, <1>14,
     <1>15, <1>16, <1>17, <1>18, <1>19, <1>20, <1>21, <1>22, <1>23
           DEF Next, Relay, Ending, Outside, Ended

LEMMA InHandStep ==
  ASSUME TypeOK, Control, [Next]_vars
  PROVE  InHand'
<1>0. InHand /\ Verdict /\ pc \in Locations
  BY ControlParts DEF TypeOK
<1>1. CASE Until
  <2>1. pc = "until" /\ pc' \in {"winch", "drain"} /\ UNCHANGED chunk
    BY <1>1 DEF Until, keyboard
  <2>2. result = "none"
    BY <1>0, <2>1 DEF Verdict, Over
  <2> QED BY <1>0, <2>1, <2>2 DEF InHand
<1>2. CASE TakeWinch
  BY <1>0, <1>2 DEF TakeWinch, sandbox, output, keyboard, setup, InHand
<1>3. CASE GetSize
  BY <1>0, <1>3 DEF GetSize, sandbox, output, keyboard, setup, InHand
<1>4. CASE SetSize
  BY <1>0, <1>4 DEF SetSize, sandbox, output, keyboard, setup, InHand
<1>5. CASE ServeOut
  BY <1>0, <1>5 DEF ServeOut, sandbox, signals, setup, InHand
<1>6. CASE ServeTyped
  <2>1. typed = <<>> => typed' = <<>>
    <3>1. ASSUME typed = <<>>, NEW k \in 0..Len(typed), typed' = SubSeq(typed, k + 1, Len(typed))
          PROVE  typed' = <<>>
      <4>1. Len(typed) = 0 /\ k = 0
        BY <3>1
      <4> QED BY <3>1, <4>1
    <3> QED BY <1>6, <3>1 DEF ServeTyped
  <2> QED BY <1>0, <1>6, <2>1 DEF ServeTyped, output, InHand
<1>7. CASE ServeStdin
  BY <1>0, <1>7 DEF ServeStdin, sandbox, signals, output, setup, InHand
<1>8. CASE Feed
  <2>1. pc' # "type" /\ pc' # "stdin" /\ pc = "feed"
    BY <1>8 DEF Feed
  <2>2. result' = "detached" \/ pc' = "feed" \/ (chunk = <<>> /\ chunk' = <<>>)
    BY <1>8 DEF Feed
  <2> QED BY <2>1, <2>2 DEF InHand
<1>9. CASE ServePty
  BY <1>0, <1>9 DEF ServePty, signals, keyboard, setup, InHand
<1>10. CASE DrainFlush
  BY <1>0, <1>10 DEF DrainFlush, control, sandbox, signals, keyboard, setup, InHand
<1>11. CASE DrainRead
  BY <1>0, <1>11 DEF DrainRead, control, signals, keyboard, setup, InHand
<1>12. CASE DrainOver
  BY <1>0, <1>12 DEF DrainOver, sandbox, signals, output, keyboard, setup, InHand
<1>13. CASE Finish
  <2>1. pc' \in {"done", "finish"} /\ pc = "finish" /\ UNCHANGED <<result, chunk>>
    BY <1>13 DEF Finish, keyboard
  <2> QED BY <1>0, <2>1 DEF InHand
<1>14. CASE GiveUp
  BY <1>0, <1>14 DEF GiveUp, sandbox, signals, keyboard, setup, InHand
<1>15. ASSUME NEW n \in 1..PtyMax, Write(n)
      PROVE  InHand'
  BY <1>0, <1>15 DEF Write, control, signals, output, keyboard, setup, InHand
<1>16. CASE CloseSlave
  BY <1>0, <1>16 DEF CloseSlave, control, signals, output, keyboard, setup, InHand
<1>17. CASE StatusArrives
  BY <1>0, <1>17 DEF StatusArrives, control, signals, output, keyboard, setup, InHand
<1>18. CASE StopSignal
  BY <1>0, <1>18 DEF StopSignal, control, sandbox, output, keyboard, setup, InHand
<1>19. CASE HostResizes
  BY <1>0, <1>19 DEF HostResizes, control, sandbox, output, keyboard, setup, InHand
<1>20. CASE HangUp
  BY <1>0, <1>20 DEF HangUp, control, sandbox, signals, output, setup, InHand
<1>21. CASE WindowPasses
  BY <1>0, <1>21 DEF WindowPasses, control, sandbox, signals, output, setup, InHand
<1>22. ASSUME NEW b \in {"x", "esc"}, TypeKey(b)
      PROVE  InHand'
  BY <1>0, <1>22 DEF TypeKey, control, sandbox, signals, output, setup, InHand
<1>23. CASE UNCHANGED vars
  BY <1>0, <1>23 DEF vars, InHand
<1> QED
  BY <1>1, <1>2, <1>3, <1>4, <1>5, <1>6, <1>7, <1>8, <1>9, <1>10, <1>11, <1>12, <1>13, <1>14,
     <1>15, <1>16, <1>17, <1>18, <1>19, <1>20, <1>21, <1>22, <1>23
           DEF Next, Relay, Ending, Outside, Ended

LEMMA AskedStep ==
  ASSUME TypeOK, Control, [Next]_vars
  PROVE  Asked'
<1>0. Asked /\ Verdict /\ TypeOK /\ pc \in Locations /\ pending \in Nat /\ PendingMax \in Nat
  BY ControlParts, RelayAssumption DEF TypeOK
<1>1. CASE Until
  BY <1>0, <1>1 DEF Until, sandbox, keyboard, setup, Asked
<1>2. CASE TakeWinch
  BY <1>0, <1>2 DEF TakeWinch, sandbox, output, keyboard, setup, Asked
<1>3. CASE GetSize
  BY <1>0, <1>3 DEF GetSize, sandbox, output, keyboard, setup, Asked
<1>4. CASE SetSize
  BY <1>0, <1>4 DEF SetSize, sandbox, output, keyboard, setup, Asked
<1>5. CASE ServeOut
  <2>1. "in" \in polled' => ~Full
    BY <1>5 DEF ServeOut
  <2>2. limit = PendingMax
    BY <1>0, <1>5 DEF ServeOut, Verdict, Over
  <2>3. pending' \in 0..pending
    BY <1>0, <1>5, FlushKeeps DEF ServeOut
  <2> QED BY <1>0, <2>1, <2>2, <2>3 DEF Asked, Full
<1>6. CASE ServeTyped
  BY <1>0, <1>6 DEF ServeTyped, sandbox, signals, output, setup, Asked
<1>7. CASE ServeStdin
  BY <1>0, <1>7 DEF ServeStdin, sandbox, signals, output, setup, Asked
<1>8. CASE Feed
  <2>1. pc = "feed" /\ UNCHANGED <<pending, polled>>
    BY <1>8 DEF Feed
  <2> QED BY <1>0, <2>1 DEF Asked
<1>9. CASE ServePty
  BY <1>0, <1>9 DEF ServePty, signals, keyboard, setup, Asked
<1>10. CASE DrainFlush
  <2>1. pc' = "drain"
    BY <1>10 DEF DrainFlush, control
  <2> QED BY <2>1 DEF Asked
<1>11. CASE DrainRead
  <2>1. pc' = "drain"
    BY <1>11 DEF DrainRead, control
  <2> QED BY <2>1 DEF Asked
<1>12. CASE DrainOver
  BY <1>0, <1>12 DEF DrainOver, sandbox, signals, output, keyboard, setup, Asked
<1>13. CASE Finish
  <2>1. pc' \in {"finish", "done"}
    BY <1>13 DEF Finish
  <2> QED BY <2>1 DEF Asked
<1>14. CASE GiveUp
  <2>1. pc' = "done"
    BY <1>14 DEF GiveUp
  <2> QED BY <2>1 DEF Asked
<1>15. ASSUME NEW n \in 1..PtyMax, Write(n)
      PROVE  Asked'
  BY <1>0, <1>15 DEF Write, control, signals, output, keyboard, setup, Asked
<1>16. CASE CloseSlave
  BY <1>0, <1>16 DEF CloseSlave, control, signals, output, keyboard, setup, Asked
<1>17. CASE StatusArrives
  BY <1>0, <1>17 DEF StatusArrives, control, signals, output, keyboard, setup, Asked
<1>18. CASE StopSignal
  BY <1>0, <1>18 DEF StopSignal, control, sandbox, output, keyboard, setup, Asked
<1>19. CASE HostResizes
  BY <1>0, <1>19 DEF HostResizes, control, sandbox, output, keyboard, setup, Asked
<1>20. CASE HangUp
  BY <1>0, <1>20 DEF HangUp, control, sandbox, signals, output, setup, Asked
<1>21. CASE WindowPasses
  BY <1>0, <1>21 DEF WindowPasses, control, sandbox, signals, output, setup, Asked
<1>22. ASSUME NEW b \in {"x", "esc"}, TypeKey(b)
      PROVE  Asked'
  BY <1>0, <1>22 DEF TypeKey, control, sandbox, signals, output, setup, Asked
<1>23. CASE UNCHANGED vars
  BY <1>0, <1>23 DEF vars, Asked
<1> QED
  BY <1>1, <1>2, <1>3, <1>4, <1>5, <1>6, <1>7, <1>8, <1>9, <1>10, <1>11, <1>12, <1>13, <1>14,
     <1>15, <1>16, <1>17, <1>18, <1>19, <1>20, <1>21, <1>22, <1>23
           DEF Next, Relay, Ending, Outside, Ended

LEMMA ControlStep ==
  ASSUME TypeOK, Control, [Next]_vars
  PROVE  Control'
  BY VerdictStep, InHandStep, AskedStep, ControlPartsNext

(* -------------------------- the output is kept -------------------------- *)

Numbers == /\ pty \in Nat /\ made \in Nat /\ pending \in Nat /\ taken \in Nat /\ dropped \in Nat
           /\ Chunk \in Nat \ {0} /\ PendingMax \in Nat /\ PtyMax \in Nat
LEMMA NumbersAre ==
  ASSUME TypeOK
  PROVE  Numbers
  BY RelayAssumption DEF TypeOK, Numbers

LEMMA AccountedStep ==
  ASSUME TypeOK, Control, Accounted, [Next]_vars
  PROVE  Accounted'
<1>0. Accounted /\ TypeOK /\ Numbers /\ pc \in Locations
  BY NumbersAre DEF TypeOK
<1> USE DEF Numbers
<1>1. CASE Until
  BY <1>0, <1>1 DEF Until, sandbox, keyboard, setup, Accounted
<1>2. CASE TakeWinch
  BY <1>0, <1>2 DEF TakeWinch, sandbox, output, keyboard, setup, Accounted
<1>3. CASE GetSize
  BY <1>0, <1>3 DEF GetSize, sandbox, output, keyboard, setup, Accounted
<1>4. CASE SetSize
  BY <1>0, <1>4 DEF SetSize, sandbox, output, keyboard, setup, Accounted
<1>5. CASE ServeOut
  <2>1. pending' + taken' = pending + taken /\ pending' \in Nat /\ taken' \in Nat
    BY <1>0, <1>5, FlushKeeps DEF ServeOut
  <2>2. UNCHANGED <<pty, made, dropped>> /\ pc' = "type"
    BY <1>5 DEF ServeOut, control, sandbox
  <2>3. made = pty + (pending + taken) + dropped
    BY <1>0 DEF Accounted
  <2>4. made' = pty' + (pending' + taken') + dropped'
    BY <2>1, <2>2, <2>3
  <2>5. made' = pty' + pending' + taken' + dropped'
    BY <1>0, <2>1, <2>2, <2>4
  <2> QED BY <2>2, <2>5 DEF Accounted
<1>6. CASE ServeTyped
  BY <1>0, <1>6 DEF ServeTyped, sandbox, signals, output, setup, Accounted
<1>7. CASE ServeStdin
  BY <1>0, <1>7 DEF ServeStdin, sandbox, signals, output, setup, Accounted
<1>8. CASE Feed
  <2>1. UNCHANGED <<pty, made, dropped, taken, pending>> /\ pc' # "done"
    BY <1>8 DEF Feed, sandbox
  <2> QED BY <1>0, <2>1 DEF Accounted
<1>9. CASE ServePty
  <2>1. UNCHANGED <<made, dropped>> /\ pc' = "until"
    BY <1>9 DEF ServePty
  <2>2. ChunkRead \in Nat /\ ChunkRead <= pty
    BY <1>0 DEF ChunkRead, Least
  <2>3. CASE pty' = pty - ChunkRead /\ Flush(pending + ChunkRead)
    <3>1. pending + ChunkRead \in Nat
      BY <1>0, <2>2
    <3>2. pending' + taken' = (pending + ChunkRead) + taken /\ pending' \in Nat /\ taken' \in Nat
      BY <1>0, <2>3, <3>1, FlushKeeps
    <3>3. made = (pty - ChunkRead) + ((pending + ChunkRead) + taken) + dropped
      BY <1>0, <2>2 DEF Accounted
    <3>4. made' = pty' + (pending' + taken') + dropped'
      BY <2>1, <2>3, <3>2, <3>3
    <3>5. made' = pty' + pending' + taken' + dropped'
      BY <1>0, <2>1, <2>2, <2>3, <3>2, <3>4
    <3> QED BY <2>1, <3>5 DEF Accounted
  <2>4. CASE UNCHANGED <<pty, pending, taken>>
    BY <1>0, <2>1, <2>4 DEF Accounted
  <2> QED BY <1>9, <2>3, <2>4 DEF ServePty, ReadPty
<1>10. CASE DrainFlush
  <2>1. pending' + taken' = pending + taken /\ pending' \in Nat /\ taken' \in Nat
    BY <1>0, <1>10, FlushKeeps DEF DrainFlush
  <2>2. UNCHANGED <<pty, made, dropped>> /\ pc' = "drain"
    BY <1>10 DEF DrainFlush, control, sandbox
  <2>3. made = pty + (pending + taken) + dropped
    BY <1>0 DEF Accounted
  <2>4. made' = pty' + (pending' + taken') + dropped'
    BY <2>1, <2>2, <2>3
  <2>5. made' = pty' + pending' + taken' + dropped'
    BY <1>0, <2>1, <2>2, <2>4
  <2> QED BY <2>2, <2>5 DEF Accounted
<1>11. CASE DrainRead
  <2>1. UNCHANGED <<made, dropped, taken>> /\ pc' = "drain"
    BY <1>11 DEF DrainRead, control
  <2>2. ChunkRead \in Nat /\ ChunkRead <= pty
    BY <1>0 DEF ChunkRead, Least
  <2>3. CASE pty' = pty - ChunkRead /\ pending' = pending + ChunkRead
    BY <1>0, <2>1, <2>2, <2>3 DEF Accounted
  <2>4. CASE UNCHANGED <<pty, pending>>
    BY <1>0, <2>1, <2>4 DEF Accounted
  <2> QED BY <1>11, <2>3, <2>4 DEF DrainRead, ReadPty
<1>12. CASE DrainOver
  BY <1>0, <1>12 DEF DrainOver, sandbox, signals, output, keyboard, setup, Accounted
<1>13. CASE Finish
  <2>1. pending' + taken' = pending + taken /\ pending' \in Nat /\ taken' \in Nat
    BY <1>0, <1>13, FlushKeeps DEF Finish
  <2>2. UNCHANGED <<pty, made, dropped>> /\ (pc' = "done" /\ dest' # "none" => pending' = 0)
    BY <1>13 DEF Finish, control, sandbox
  <2>3. made = pty + (pending + taken) + dropped
    BY <1>0 DEF Accounted
  <2>4. made' = pty' + (pending' + taken') + dropped'
    BY <2>1, <2>2, <2>3
  <2>5. made' = pty' + pending' + taken' + dropped'
    BY <1>0, <2>1, <2>2, <2>4
  <2> QED BY <2>2, <2>5 DEF Accounted
<1>14. CASE GiveUp
  BY <1>0, <1>14 DEF GiveUp, sandbox, signals, keyboard, setup, Accounted
<1>15. ASSUME NEW n \in 1..PtyMax, Write(n)
      PROVE  Accounted'
  BY <1>0, <1>15 DEF Write, control, signals, output, keyboard, setup, Accounted
<1>16. CASE CloseSlave
  BY <1>0, <1>16 DEF CloseSlave, control, signals, output, keyboard, setup, Accounted
<1>17. CASE StatusArrives
  BY <1>0, <1>17 DEF StatusArrives, control, signals, output, keyboard, setup, Accounted
<1>18. CASE StopSignal
  BY <1>0, <1>18 DEF StopSignal, control, sandbox, output, keyboard, setup, Accounted
<1>19. CASE HostResizes
  BY <1>0, <1>19 DEF HostResizes, control, sandbox, output, keyboard, setup, Accounted
<1>20. CASE HangUp
  BY <1>0, <1>20 DEF HangUp, control, sandbox, signals, output, setup, Accounted
<1>21. CASE WindowPasses
  BY <1>0, <1>21 DEF WindowPasses, control, sandbox, signals, output, setup, Accounted
<1>22. ASSUME NEW b \in {"x", "esc"}, TypeKey(b)
      PROVE  Accounted'
  BY <1>0, <1>22 DEF TypeKey, control, sandbox, signals, output, setup, Accounted
<1>23. CASE UNCHANGED vars
  BY <1>0, <1>23 DEF vars, Accounted
<1> QED
  BY <1>1, <1>2, <1>3, <1>4, <1>5, <1>6, <1>7, <1>8, <1>9, <1>10, <1>11, <1>12, <1>13, <1>14,
     <1>15, <1>16, <1>17, <1>18, <1>19, <1>20, <1>21, <1>22, <1>23
           DEF Next, Relay, Ending, Outside, Ended

LEMMA ChunksAre ==
  ASSUME Chunk \in Nat \ {0}
  PROVE  /\ Chunks \subseteq Nat /\ 0 \in Chunks
         /\ \A m \in Chunks : m + Chunk \in Chunks
         /\ \A m \in Chunks, k \in Nat : m < k * Chunk => m + Chunk <= k * Chunk
<1>1. Chunks \subseteq Nat /\ 0 \in Chunks
  BY DEF Chunks
<1>2. ASSUME NEW m \in Chunks
      PROVE  m + Chunk \in Chunks
  <2>1. PICK j \in Nat : m = j * Chunk
    BY DEF Chunks
  <2>2. m + Chunk = (j + 1) * Chunk /\ j + 1 \in Nat /\ m + Chunk \in Nat
    BY <2>1
  <2> QED BY <2>2 DEF Chunks
<1>3. ASSUME NEW m \in Chunks, NEW k \in Nat, m < k * Chunk
      PROVE  m + Chunk <= k * Chunk
  <2>1. PICK j \in Nat : m = j * Chunk
    BY DEF Chunks
  <2>2. j < k
    <3>1. SUFFICES ASSUME k <= j PROVE k * Chunk <= j * Chunk
      BY <1>3, <2>1
    <3> QED BY <3>1
  <2>3. (j + 1) * Chunk <= k * Chunk
    BY <2>2
  <2> QED BY <2>1, <2>3
<1> QED BY <1>1, <1>2, <1>3

(* What is held is bounded while the relay runs, and in drain() when the   *)
(* sandbox was gone by then.                                               *)
Loose == result = "none" \/ (pc = "drain" /\ quiet /\ result = "exited")

LEMMA Moved ==
  ASSUME NEW a \in Nat, NEW b \in Nat, NEW c \in Nat, NEW d \in Nat, NEW r \in Nat, NEW t \in Nat,
         a <= c + r, b + r = d, c + d < t
  PROVE  a + b < t
  OBVIOUS

LEMMA RoomFewer ==
  ASSUME TypeOK, Room, pending' \in 0..pending, UNCHANGED <<slave, pty>>,
         result' = "none" => result = "none", Loose' => Loose
  PROVE  Room'
<1>0. Numbers
  BY NumbersAre
<1>1. Room /\ pending' \in Nat /\ pending' <= pending /\ pty' = pty /\ slave' = slave
  BY <1>0 DEF Numbers
<1>2. result' = "none" /\ slave' => pending' < PendingMax + Chunk
  BY <1>0, <1>1 DEF Room, Numbers
<1>3. result' = "none" /\ ~slave' => pending' + pty' < PendingMax + Chunk + PtyMax
  <2>1. result' = "none" /\ ~slave' => pending + pty < PendingMax + Chunk + PtyMax
    BY <1>1 DEF Room
  <2>2. pending' <= pending + 0 /\ pty' + 0 = pty /\ pty' \in Nat
    BY <1>0, <1>1 DEF Numbers
  <2>3. PendingMax + Chunk + PtyMax \in Nat
    BY <1>0 DEF Numbers
  <2> QED BY <1>0, <1>1, <2>1, <2>2, <2>3, Moved DEF Numbers
<1>4. ASSUME ~slave', Loose'
      PROVE  \E m \in Chunks : pending' < PendingMax + m + Chunk /\ (pty' > 0 => pty' + m <= PtyMax)
  <2>1. PICK m \in Chunks : Spare(m)
    BY <1>1, <1>4 DEF Room, Loose
  <2>2. m \in Nat
    BY DEF Chunks
  <2> QED BY <1>0, <1>1, <2>1, <2>2 DEF Spare, Numbers
<1> QED BY <1>2, <1>3, <1>4 DEF Room, Loose, Spare

LEMMA RoomStep ==
  ASSUME TypeOK, Control, Room, [Next]_vars
  PROVE  Room'
<1>0. TypeOK /\ Room /\ Verdict /\ Asked /\ Numbers /\ pc \in Locations /\ slave \in BOOLEAN
  BY NumbersAre, ControlParts DEF TypeOK
<1>c. Chunk \in Nat \ {0}
  BY RelayAssumption
<1>k. pending \in 0..pending
  BY <1>0 DEF Numbers
<1>1. CASE Until
  <2>1. UNCHANGED <<slave, pty, pending>> /\ pc = "until"
    BY <1>1 DEF Until, sandbox
  <2>2. result = "none"
    BY <1>0, <2>1 DEF Verdict, Over
  <2> QED BY <1>0, <1>k, <2>1, <2>2, RoomFewer DEF Loose
<1>2. CASE TakeWinch
  <2>1. UNCHANGED <<slave, pty>> /\ pending' \in 0..pending
    BY <1>0, <1>k, <1>2 DEF TakeWinch, sandbox, output
  <2>2. (result' = "none" => result = "none") /\ (Loose' => Loose)
    BY <1>0, <1>2 DEF TakeWinch, output, Loose, Verdict, Over
  <2> QED BY <1>0, <2>1, <2>2, RoomFewer
<1>3. CASE GetSize
  <2>1. UNCHANGED <<slave, pty>> /\ pending' \in 0..pending
    BY <1>0, <1>k, <1>3 DEF GetSize, sandbox, output
  <2>2. (result' = "none" => result = "none") /\ (Loose' => Loose)
    BY <1>0, <1>3 DEF GetSize, output, Loose, Verdict, Over
  <2> QED BY <1>0, <2>1, <2>2, RoomFewer
<1>4. CASE SetSize
  <2>1. UNCHANGED <<slave, pty>> /\ pending' \in 0..pending
    BY <1>0, <1>k, <1>4 DEF SetSize, sandbox, output
  <2>2. (result' = "none" => result = "none") /\ (Loose' => Loose)
    BY <1>0, <1>4 DEF SetSize, output, Loose, Verdict, Over
  <2> QED BY <1>0, <2>1, <2>2, RoomFewer
<1>5. CASE ServeOut
  <2>1. UNCHANGED <<slave, pty>> /\ pending' \in 0..pending
    BY <1>0, <1>k, <1>5, FlushKeeps DEF ServeOut, sandbox
  <2>2. (result' = "none" => result = "none") /\ (Loose' => Loose)
    BY <1>0, <1>5 DEF ServeOut, Loose, Verdict, Over
  <2> QED BY <1>0, <2>1, <2>2, RoomFewer
<1>6. CASE ServeTyped
  <2>1. UNCHANGED <<slave, pty>> /\ pending' \in 0..pending
    BY <1>0, <1>k, <1>6 DEF ServeTyped, sandbox, output
  <2>2. (result' = "none" => result = "none") /\ (Loose' => Loose)
    BY <1>0, <1>6 DEF ServeTyped, output, Loose, Verdict, Over
  <2> QED BY <1>0, <2>1, <2>2, RoomFewer
<1>7. CASE ServeStdin
  <2>1. UNCHANGED <<slave, pty>> /\ pending' \in 0..pending
    BY <1>0, <1>k, <1>7 DEF ServeStdin, sandbox, output
  <2>2. (result' = "none" => result = "none") /\ (Loose' => Loose)
    BY <1>0, <1>7 DEF ServeStdin, output, Loose, Verdict, Over
  <2> QED BY <1>0, <2>1, <2>2, RoomFewer
<1>8. CASE Feed
  <2>1. UNCHANGED <<slave, pty, pending>> /\ pc = "feed"
    BY <1>8 DEF Feed, sandbox
  <2>2. result = "none"
    BY <1>0, <2>1 DEF Verdict, Over
  <2> QED BY <1>0, <1>k, <2>1, <2>2, RoomFewer DEF Loose
<1>9. CASE ServePty
  <2>1. UNCHANGED <<result, slave>> /\ pc = "pty" /\ pc' = "until"
    BY <1>9 DEF ServePty
  <2>2. result = "none"
    BY <1>0, <2>1 DEF Verdict, Over
  <2>3. CASE Readable /\ pty > 0 /\ pty' = pty - ChunkRead /\ Flush(pending + ChunkRead)
    <3>1. /\ ChunkRead \in Nat /\ ChunkRead <= Chunk /\ ChunkRead <= pty
          /\ pty - ChunkRead > 0 => ChunkRead = Chunk
      BY <1>0, <2>3 DEF ChunkRead, Least, Numbers
    <3>2. pending + ChunkRead \in Nat
      BY <1>0, <3>1 DEF Numbers
    <3>3. pending' \in 0..(pending + ChunkRead)
      BY <1>0, <2>3, <3>2, FlushKeeps
    <3>4. CASE slave
      <4>1. pending < PendingMax
        BY <1>0, <2>1, <2>3, <3>4 DEF Readable, Asked
      <4>2. pending' < PendingMax + Chunk
        BY <1>0, <3>1, <3>3, <4>1 DEF Numbers
      <4> QED BY <2>1, <3>4, <4>2 DEF Room
    <3>5. CASE ~slave
      <4>1. pending + pty < PendingMax + Chunk + PtyMax
        BY <1>0, <2>2, <3>5 DEF Room
      <4>2. pending' + pty' < PendingMax + Chunk + PtyMax
        <5>1. pty' \in Nat /\ pty' + ChunkRead = pty /\ pending' \in Nat /\ pending' <= pending + ChunkRead
          BY <1>0, <2>3, <3>1, <3>2, <3>3 DEF Numbers
        <5>2. PendingMax + Chunk + PtyMax \in Nat
          BY <1>0 DEF Numbers
        <5> QED BY <1>0, <3>1, <4>1, <5>1, <5>2, Moved DEF Numbers
      <4>3. PICK m \in Chunks : Spare(m)
        BY <1>0, <2>2, <3>5 DEF Room
      <4>4. m \in Nat /\ m + Chunk \in Chunks
        BY <1>c, <4>3, ChunksAre
      <4>5. pending' < PendingMax + (m + Chunk) + Chunk
        BY <1>0, <3>1, <3>3, <4>3, <4>4 DEF Spare, Numbers
      <4>6. pty' > 0 => pty' + (m + Chunk) <= PtyMax
        BY <1>0, <2>3, <3>1, <4>3, <4>4 DEF Spare, Numbers
      <4> QED BY <2>1, <3>5, <4>2, <4>4, <4>5, <4>6 DEF Room, Spare
    <3> QED BY <3>4, <3>5
  <2>4. CASE UNCHANGED <<pty, pending>>
    <3>1. Loose
      BY <2>2 DEF Loose
    <3> QED BY <1>0, <1>k, <2>1, <2>2, <2>4, <3>1, RoomFewer
  <2> QED BY <1>9, <2>3, <2>4 DEF ServePty, ReadPty
<1>10. CASE DrainFlush
  <2>1. UNCHANGED <<slave, pty>> /\ pending' \in 0..pending
    BY <1>0, <1>k, <1>10, FlushKeeps DEF DrainFlush, sandbox
  <2>2. (result' = "none" => result = "none") /\ (Loose' => Loose)
    BY <1>0, <1>10 DEF DrainFlush, control, Loose, Verdict, Over
  <2> QED BY <1>0, <2>1, <2>2, RoomFewer
<1>11. CASE DrainRead
  <2>1. UNCHANGED <<pc, result, slave, quiet>> /\ pc = "drain"
    BY <1>11 DEF DrainRead, control
  <2>2. result # "none"
    BY <1>0, <2>1 DEF Verdict, Over
  <2>3. CASE pty > 0 /\ pty' = pty - ChunkRead /\ pending' = pending + ChunkRead
    <3>1. /\ ChunkRead \in Nat /\ ChunkRead <= Chunk /\ ChunkRead <= pty
          /\ pty - ChunkRead > 0 => ChunkRead = Chunk
      BY <1>0, <2>3 DEF ChunkRead, Least, Numbers
    <3>2. ASSUME ~slave, pc = "drain" /\ quiet /\ result = "exited"
          PROVE  \E m \in Chunks : pending' < PendingMax + m + Chunk /\ (pty' > 0 => pty' + m <= PtyMax)
      <4>3. PICK m \in Chunks : Spare(m)
        BY <1>0, <3>2 DEF Room
      <4>4. m \in Nat /\ m + Chunk \in Chunks
        BY <1>c, <4>3, ChunksAre
      <4>5. pending' < PendingMax + (m + Chunk) + Chunk
        BY <1>0, <2>3, <3>1, <4>3, <4>4 DEF Spare, Numbers
      <4>6. pty' > 0 => pty' + (m + Chunk) <= PtyMax
        BY <1>0, <2>3, <3>1, <4>3, <4>4 DEF Spare, Numbers
      <4> QED BY <4>4, <4>5, <4>6
    <3> QED BY <2>1, <2>2, <3>2 DEF Room, Spare
  <2>4. CASE UNCHANGED <<pty, pending>>
    BY <1>0, <1>k, <2>1, <2>4, RoomFewer DEF Loose
  <2> QED BY <1>11, <2>3, <2>4 DEF DrainRead, ReadPty
<1>12. CASE DrainOver
  <2>1. UNCHANGED <<slave, pty>> /\ pending' \in 0..pending
    BY <1>0, <1>k, <1>12 DEF DrainOver, sandbox, output
  <2>2. (result' = "none" => result = "none") /\ (Loose' => Loose)
    BY <1>0, <1>12 DEF DrainOver, output, Loose, Verdict, Over
  <2> QED BY <1>0, <2>1, <2>2, RoomFewer
<1>13. CASE Finish
  <2>1. UNCHANGED <<slave, pty>> /\ pending' \in 0..pending
    BY <1>0, <1>k, <1>13, FlushKeeps DEF Finish, sandbox
  <2>2. (result' = "none" => result = "none") /\ (Loose' => Loose)
    BY <1>0, <1>13 DEF Finish, Loose, Verdict, Over
  <2> QED BY <1>0, <2>1, <2>2, RoomFewer
<1>14. CASE GiveUp
  <2>1. pc' = "done" /\ UNCHANGED <<result, slave, pty>> /\ pending' = 0
    BY <1>14 DEF GiveUp, sandbox
  <2>2. pending' \in 0..pending
    BY <1>0, <2>1 DEF Numbers
  <2>3. (result' = "none" => result = "none") /\ (Loose' => Loose)
    BY <2>1 DEF Loose
  <2> QED BY <1>0, <2>1, <2>2, <2>3, RoomFewer
<1>15. ASSUME NEW n \in 1..PtyMax, Write(n)
      PROVE  Room'
  <2>1. slave /\ slave' /\ UNCHANGED <<pending, result>>
    BY <1>0, <1>15 DEF Write, control, output
  <2> QED BY <1>0, <2>1 DEF Room
<1>16. CASE CloseSlave
  <2>1. slave /\ ~slave' /\ UNCHANGED <<pending, result, pty, pc, quiet>> /\ ~quiet
    BY <1>0, <1>16 DEF CloseSlave, control, output, Verdict
  <2>2. pty <= PtyMax
    BY <1>0 DEF TypeOK, Numbers
  <2>3. result = "none" => pending < PendingMax + Chunk
    BY <1>0, <2>1 DEF Room
  <2>4. result' = "none" => pending' + pty' < PendingMax + Chunk + PtyMax
    BY <1>0, <2>1, <2>2, <2>3 DEF Numbers
  <2>5. result' = "none" => pending' < PendingMax + 0 + Chunk /\ (pty' > 0 => pty' + 0 <= PtyMax)
    BY <1>0, <2>1, <2>2, <2>3 DEF Numbers
  <2>6. 0 \in Chunks
    BY <1>c, ChunksAre
  <2> QED BY <2>1, <2>4, <2>5, <2>6 DEF Room, Spare
<1>17. CASE StatusArrives
  <2>1. UNCHANGED <<slave, pty>> /\ pending' \in 0..pending
    BY <1>0, <1>k, <1>17 DEF StatusArrives, output
  <2>2. (result' = "none" => result = "none") /\ (Loose' => Loose)
    BY <1>0, <1>17 DEF StatusArrives, control, output, Loose, Verdict, Over
  <2> QED BY <1>0, <2>1, <2>2, RoomFewer
<1>18. CASE StopSignal
  <2>1. UNCHANGED <<slave, pty>> /\ pending' \in 0..pending
    BY <1>0, <1>k, <1>18 DEF StopSignal, sandbox, output
  <2>2. (result' = "none" => result = "none") /\ (Loose' => Loose)
    BY <1>0, <1>18 DEF StopSignal, control, output, Loose, Verdict, Over
  <2> QED BY <1>0, <2>1, <2>2, RoomFewer
<1>19. CASE HostResizes
  <2>1. UNCHANGED <<slave, pty>> /\ pending' \in 0..pending
    BY <1>0, <1>k, <1>19 DEF HostResizes, sandbox, output
  <2>2. (result' = "none" => result = "none") /\ (Loose' => Loose)
    BY <1>0, <1>19 DEF HostResizes, control, output, Loose, Verdict, Over
  <2> QED BY <1>0, <2>1, <2>2, RoomFewer
<1>20. CASE HangUp
  <2>1. UNCHANGED <<slave, pty>> /\ pending' \in 0..pending
    BY <1>0, <1>k, <1>20 DEF HangUp, sandbox, output
  <2>2. (result' = "none" => result = "none") /\ (Loose' => Loose)
    BY <1>0, <1>20 DEF HangUp, control, output, Loose, Verdict, Over
  <2> QED BY <1>0, <2>1, <2>2, RoomFewer
<1>21. CASE WindowPasses
  <2>1. UNCHANGED <<slave, pty>> /\ pending' \in 0..pending
    BY <1>0, <1>k, <1>21 DEF WindowPasses, sandbox, output
  <2>2. (result' = "none" => result = "none") /\ (Loose' => Loose)
    BY <1>0, <1>21 DEF WindowPasses, control, output, Loose, Verdict, Over
  <2> QED BY <1>0, <2>1, <2>2, RoomFewer
<1>22. ASSUME NEW b \in {"x", "esc"}, TypeKey(b)
      PROVE  Room'
  <2>1. UNCHANGED <<slave, pty>> /\ pending' \in 0..pending
    BY <1>0, <1>k, <1>22 DEF TypeKey, sandbox, output
  <2>2. (result' = "none" => result = "none") /\ (Loose' => Loose)
    BY <1>0, <1>22 DEF TypeKey, control, output, Loose, Verdict, Over
  <2> QED BY <1>0, <2>1, <2>2, RoomFewer
<1>23. CASE UNCHANGED vars
  BY <1>0, <1>k, <1>23, RoomFewer DEF vars, Loose
<1> QED
  BY <1>1, <1>2, <1>3, <1>4, <1>5, <1>6, <1>7, <1>8, <1>9, <1>10, <1>11, <1>12, <1>13, <1>14,
     <1>15, <1>16, <1>17, <1>18, <1>19, <1>20, <1>21, <1>22, <1>23
           DEF Next, Relay, Ending, Outside, Ended

(* ------------------------- the keys arrive in order --------------------- *)

(* Concatenation of texts, as an operation of its own to the provers.      *)
Cat(a, b) == a \o b
LEMMA Texting ==
  /\ <<>> \in Seq(Chars) /\ <<"eof">> \in Seq(Chars) /\ <<"esc">> \in Seq(Chars)
  /\ \A a, b \in Seq(Chars) : Cat(a, b) \in Seq(Chars)
  /\ \A a \in Seq(Chars) : Cat(a, <<>>) = a /\ Cat(<<>>, a) = a
  /\ \A a, b, c \in Seq(Chars) : Cat(Cat(a, b), c) = Cat(a, Cat(b, c))
<1>1. <<>> \in Seq(Chars) /\ <<"eof">> \in Seq(Chars) /\ <<"esc">> \in Seq(Chars)
  BY DEF Chars
<1>2. \A a, b \in Seq(Chars) : Cat(a, b) \in Seq(Chars)
  BY ConcatProperties DEF Cat
<1>3. \A a \in Seq(Chars) : Cat(a, <<>>) = a /\ Cat(<<>>, a) = a
  BY ConcatEmptySeq DEF Cat
<1>4. \A a, b, c \in Seq(Chars) : Cat(Cat(a, b), c) = Cat(a, Cat(b, c))
  BY ConcatAssociative DEF Cat
<1> QED BY <1>1, <1>2, <1>3, <1>4

(* k follows s, around an end-of-file character or without one.            *)
Whole(s, k, w) == Cat(s, k) = w
Around(s, k, w) == \E a, b \in Seq(Chars) : s = Cat(Cat(a, <<"eof">>), b) /\ Cat(Cat(a, b), k) = w

(* What leaves the keys kept back for the sandbox changes no order ...     *)
LEMMA Passed ==
  ASSUME NEW s \in Seq(Chars), NEW x \in Seq(Chars), NEW k \in Seq(Chars), NEW w
  PROVE  /\ Whole(s, Cat(x, k), w) => Whole(Cat(s, x), k, w)
         /\ Around(s, Cat(x, k), w) => Around(Cat(s, x), k, w)
<1>1. Whole(s, Cat(x, k), w) => Whole(Cat(s, x), k, w)
  BY Texting DEF Whole
<1>2. ASSUME NEW a \in Seq(Chars), NEW b \in Seq(Chars), s = Cat(Cat(a, <<"eof">>), b), Cat(Cat(a, b), Cat(x, k)) = w
      PROVE  Around(Cat(s, x), k, w)
  <2>1. Cat(a, <<"eof">>) \in Seq(Chars) /\ Cat(b, x) \in Seq(Chars) /\ Cat(a, b) \in Seq(Chars)
    BY Texting
  <2>2. Cat(Cat(Cat(a, <<"eof">>), b), x) = Cat(Cat(a, <<"eof">>), Cat(b, x))
    BY <2>1, Texting
  <2>3. Cat(Cat(a, b), Cat(x, k)) = Cat(Cat(Cat(a, b), x), k)
    BY <2>1, Texting
  <2>4. Cat(Cat(a, b), x) = Cat(a, Cat(b, x))
    BY Texting
  <2> QED BY <1>2, <2>1, <2>2, <2>3, <2>4 DEF Around
<1> QED BY <1>1, <1>2 DEF Around

(* ... and neither does one key more behind all of them.                   *)
LEMMA OneMore ==
  ASSUME NEW s \in Seq(Chars), NEW x \in Seq(Chars), NEW k \in Seq(Chars), NEW w
  PROVE  /\ Whole(s, k, w) => Whole(s, Cat(k, x), Cat(w, x))
         /\ Around(s, k, w) => Around(s, Cat(k, x), Cat(w, x))
<1>1. Whole(s, k, w) => Whole(s, Cat(k, x), Cat(w, x))
  BY Texting DEF Whole
<1>2. ASSUME NEW a \in Seq(Chars), NEW b \in Seq(Chars), Cat(Cat(a, b), k) = w
      PROVE  Cat(Cat(a, b), Cat(k, x)) = Cat(w, x)
  <2>1. Cat(a, b) \in Seq(Chars)
    BY Texting
  <2>2. Cat(Cat(Cat(a, b), k), x) = Cat(Cat(a, b), Cat(k, x))
    BY <2>1, Texting
  <2> QED BY <1>2, <2>2
<1> QED BY <1>1, <1>2 DEF Around

LEMMA Words ==
  /\ Plain <=> Whole(Sent, Kept, all)
  /\ Split <=> Around(Sent, Kept, all)
  BY DEF Plain, Split, Whole, Around, Cat
LEMMA WordsNext ==
  /\ Plain' <=> Whole(Sent', Kept', all')
  /\ Split' <=> Around(Sent', Kept', all')
  BY DEF Plain, Split, Whole, Around, Cat

LEMMA TextsAre ==
  ASSUME TypeOK
  PROVE  /\ got \in Seq(Chars) /\ typed \in Seq(Chars) /\ chunk \in Seq(Chars) /\ keys \in Seq(Chars)
         /\ Sent \in Seq(Chars) /\ Kept \in Seq(Chars) /\ Escapes(held) \in Seq(Chars) /\ held \in Nat
         /\ Kept = Cat(Escapes(held), Cat(chunk, keys))
<1>1. /\ got \in Seq(Chars) /\ typed \in Seq(Chars)
      /\ chunk \in Seq({"x", "esc"}) /\ keys \in Seq({"x", "esc"}) /\ held \in Nat
  BY RelayAssumption DEF TypeOK, Chars
<1>2. chunk \in Seq(Chars) /\ keys \in Seq(Chars)
  BY <1>1, SeqMonotonic DEF Chars
<1>3. Escapes(held) \in Seq(Chars)
  BY <1>1, EscapesAre
<1>4. Sent \in Seq(Chars)
  BY <1>1, Texting DEF Sent, Cat
<1>5. Cat(Escapes(held), chunk) \in Seq(Chars)
  BY <1>2, <1>3, Texting
<1>6. Kept \in Seq(Chars)
  BY <1>2, <1>5, Texting DEF Kept, Cat
<1>7. Kept = Cat(Escapes(held), Cat(chunk, keys))
  <2>1. Kept = Cat(Cat(Escapes(held), chunk), keys)
    BY DEF Kept, Cat
  <2> QED BY <1>2, <1>3, <2>1, Texting
<1> QED BY <1>1, <1>2, <1>3, <1>4, <1>6, <1>7

LEMMA KeptNext ==
  ASSUME TypeOK'
  PROVE  /\ Kept' \in Seq(Chars) /\ Kept' = Cat(Escapes(held'), Cat(chunk', keys'))
         /\ chunk' \in Seq(Chars) /\ keys' \in Seq(Chars)
<1>1. /\ chunk' \in Seq({"x", "esc"}) /\ keys' \in Seq({"x", "esc"}) /\ held' \in Nat
  BY RelayAssumption DEF TypeOK, Chars
<1>2. chunk' \in Seq(Chars) /\ keys' \in Seq(Chars)
  BY <1>1, SeqMonotonic DEF Chars
<1>3. Escapes(held') \in Seq(Chars)
  BY <1>1, EscapesAre
<1>5. Cat(Escapes(held'), chunk') \in Seq(Chars)
  BY <1>2, <1>3, Texting
<1>6. Kept' \in Seq(Chars)
  BY <1>2, <1>5, Texting DEF Kept, Cat
<1>7. Kept' = Cat(Escapes(held'), Cat(chunk', keys'))
  <2>1. Kept' = Cat(Cat(Escapes(held'), chunk'), keys')
    BY DEF Kept, Cat
  <2> QED BY <1>2, <1>3, <2>1, Texting
<1> QED BY <1>2, <1>6, <1>7

(* A step that hands x on and keeps the rest preserves the order.          *)
LEMMA KeysPassed ==
  ASSUME TypeOK, TypeOK', Keys, NEW x \in Seq(Chars), Sent' = Cat(Sent, x),
         Kept = Cat(x, Kept'), UNCHANGED all,
         slave' => slave, result' # "detached" => result # "detached", stdin' => stdin
  PROVE  Keys'
<1>1. Sent \in Seq(Chars) /\ Kept' \in Seq(Chars)
  BY TextsAre, KeptNext
<1>2. Plain => Plain'
  BY <1>1, Passed, Words, WordsNext
<1>3. Split => Split'
  BY <1>1, Passed, Words, WordsNext
<1> QED BY <1>2, <1>3 DEF Keys
LEMMA KeysSame ==
  ASSUME Keys, Sent' = Sent, Kept' = Kept, UNCHANGED all,
         slave' => slave, result' # "detached" => result # "detached", stdin' => stdin
  PROVE  Keys'
  BY DEF Keys, Plain, Split

LEMMA KeysStep ==
  ASSUME TypeOK, Control, Keys, [Next]_vars
  PROVE  Keys'
<1>0. TypeOK /\ TypeOK' /\ Keys /\ Verdict /\ InHand /\ DetachRun \in Nat
  BY TypeStep, ControlParts, RelayAssumption
<1>t. /\ got \in Seq(Chars) /\ typed \in Seq(Chars) /\ chunk \in Seq(Chars) /\ keys \in Seq(Chars)
      /\ Sent \in Seq(Chars) /\ Kept \in Seq(Chars) /\ Escapes(held) \in Seq(Chars) /\ held \in Nat
      /\ Kept = Cat(Escapes(held), Cat(chunk, keys))
  BY <1>0, TextsAre
<1>n. Kept' \in Seq(Chars) /\ Kept' = Cat(Escapes(held'), Cat(chunk', keys'))
  BY <1>0, KeptNext
<1>s. Sent = Cat(got, typed) /\ Sent' = Cat(got', typed')
  BY DEF Sent, Cat
<1>z. Escapes(0) = <<>>
  BY EscapesAre, EmptySeq
<1>1. CASE Until
  <2>1. UNCHANGED <<all, keys, chunk, held, typed, got, stdin>> /\ (slave' => slave)
    BY <1>1 DEF Until, sandbox, keyboard
  <2>2. result' # "detached" => result # "detached"
    BY <1>1, <1>0 DEF Until, Verdict, Over
  <2> QED BY <1>0, <1>t, <1>n, <1>s, <2>1, <2>2, KeysSame
<1>2. CASE TakeWinch
  <2>1. UNCHANGED <<all, keys, chunk, held, typed, got, stdin>> /\ (slave' => slave)
    BY <1>2 DEF TakeWinch, sandbox, keyboard
  <2>2. result' # "detached" => result # "detached"
    BY <1>2 DEF TakeWinch
  <2> QED BY <1>0, <1>t, <1>n, <1>s, <2>1, <2>2, KeysSame
<1>3. CASE GetSize
  <2>1. UNCHANGED <<all, keys, chunk, held, typed, got, stdin>> /\ (slave' => slave)
    BY <1>3 DEF GetSize, sandbox, keyboard
  <2>2. result' # "detached" => result # "detached"
    BY <1>3 DEF GetSize
  <2> QED BY <1>0, <1>t, <1>n, <1>s, <2>1, <2>2, KeysSame
<1>4. CASE SetSize
  <2>1. UNCHANGED <<all, keys, chunk, held, typed, got, stdin>> /\ (slave' => slave)
    BY <1>4 DEF SetSize, sandbox, keyboard
  <2>2. result' # "detached" => result # "detached"
    BY <1>4 DEF SetSize
  <2> QED BY <1>0, <1>t, <1>n, <1>s, <2>1, <2>2, KeysSame
<1>5. CASE ServeOut
  <2>1. UNCHANGED <<all, keys, chunk, got, slave, result, stdin>>
    BY <1>5 DEF ServeOut, sandbox
  <2>2. CASE typed' = typed \o Escapes(held) /\ held' = 0
    <3>1. Sent' = Cat(Sent, Escapes(held))
      <4>1. typed' = Cat(typed, Escapes(held))
        BY <2>2 DEF Cat
      <4> QED BY <1>t, <1>s, <2>1, <4>1, Texting
    <3>2. Cat(chunk, keys) \in Seq(Chars)
      BY <1>t, Texting
    <3>3. Kept' = Cat(chunk, keys)
      BY <1>n, <1>z, <2>1, <2>2, <3>2, Texting
    <3> QED BY <1>0, <1>t, <2>1, <3>1, <3>3, KeysPassed
  <2>3. CASE UNCHANGED <<typed, held>>
    BY <1>0, <1>t, <1>n, <1>s, <2>1, <2>3, KeysSame
  <2> QED BY <1>5, <2>2, <2>3 DEF ServeOut
<1>6. CASE ServeTyped
  <2>1. UNCHANGED <<all, keys, chunk, held, slave, result>>
    BY <1>6 DEF ServeTyped, sandbox
  <2>2. ASSUME NEW n \in 0..Len(typed), got' = got \o SubSeq(typed, 1, n),
               typed' = SubSeq(typed, n + 1, Len(typed)), UNCHANGED stdin
        PROVE  Keys'
    <3>1. Len(typed) \in Nat /\ \A i \in 1..Len(typed) : typed[i] \in Chars
      BY <1>t, LenProperties, ElementOfSeq
    <3>2. SubSeq(typed, 1, n) \in Seq(Chars)
      BY <3>1, SubSeqProperties
    <3>3. SubSeq(typed, n + 1, Len(typed)) \in Seq(Chars)
      BY <3>1, SubSeqProperties
    <3>4. SubSeq(typed, 1, n) \o SubSeq(typed, n + 1, Len(typed)) = SubSeq(typed, 1, Len(typed))
      <4>1. 1 \in 1..(Len(typed) + 1) /\ n \in (1 - 1)..Len(typed) /\ Len(typed) \in n..Len(typed)
        BY <3>1
      <4> QED BY <1>t, <4>1, ConcatAdjacentSubSeq
    <3>5. Cat(SubSeq(typed, 1, n), SubSeq(typed, n + 1, Len(typed))) = typed
      BY <1>t, <3>4, SubSeqFull DEF Cat
    <3>6. got' = Cat(got, SubSeq(typed, 1, n))
      BY <2>2 DEF Cat
    <3>7. Sent' = Sent
      <4> DEFINE p == SubSeq(typed, 1, n)
                 q == SubSeq(typed, n + 1, Len(typed))
      <4>1. p \in Seq(Chars) /\ q \in Seq(Chars) /\ Cat(p, q) = typed /\ got' = Cat(got, p) /\ typed' = q
        BY <2>2, <3>2, <3>3, <3>5, <3>6
      <4> HIDE DEF p, q
      <4> QED BY <1>t, <1>s, <4>1, Texting
    <3> QED BY <1>0, <1>t, <1>n, <2>1, <2>2, <3>7, KeysSame
  <2>3. CASE ~slave
    BY <2>1, <2>3 DEF Keys
  <2> QED BY <1>6, <2>2, <2>3 DEF ServeTyped
<1>7. CASE ServeStdin
  <2>1. UNCHANGED <<all, held, got, slave, result, polled>> /\ pc = "stdin"
    BY <1>7 DEF ServeStdin, sandbox, output
  <2>2. result = "none" /\ chunk = <<>>
    BY <1>0, <2>1 DEF Verdict, InHand, Over
  <2>3. CASE chunk' = keys /\ keys' = <<>> /\ UNCHANGED <<stdin, typed>>
    <3>1. Cat(chunk', keys') = Cat(chunk, keys)
      BY <1>t, <2>2, <2>3, Texting
    <3> QED BY <1>0, <1>t, <1>n, <1>s, <2>1, <2>3, <3>1, KeysSame
  <2>4. CASE stdin /\ "out" \notin polled /\ ~stdin' /\ typed' \in {<<>>, <<"eof">>} /\ UNCHANGED <<chunk, keys>>
    <3>1. typed = <<>> /\ Kept' = Kept
      BY <1>0, <1>t, <1>n, <2>1, <2>4 DEF InHand
    <3>2. CASE typed' = <<>>
      BY <1>0, <1>s, <2>1, <2>4, <3>1, <3>2, KeysSame
    <3>3. CASE typed' = <<"eof">>
      <4>1. SUFFICES ASSUME slave, result # "detached" PROVE Split'
        BY <2>1, <2>4 DEF Keys
      <4>2. Whole(Sent, Kept, all) /\ Sent = got
        BY <1>0, <1>s, <1>t, <2>4, <3>1, <4>1, Words, Texting DEF Keys
      <4>3. Sent' = Cat(Cat(got, <<"eof">>), <<>>) /\ Cat(got, <<>>) = got
        <5> DEFINE e == <<"eof">>
        <5>1. e \in Seq(Chars) /\ Sent' = Cat(got, e)
          BY <1>s, <2>1, <3>3, Texting
        <5> HIDE DEF e
        <5>2. Cat(got, e) \in Seq(Chars)
          BY <1>t, <5>1, Texting
        <5>3. Sent' = Cat(Cat(got, e), <<>>) /\ Cat(got, <<>>) = got
          BY <1>t, <5>1, <5>2, Texting
        <5> QED BY <5>3 DEF e
      <4>4. Around(Sent', Kept', all')
        BY <1>t, <2>1, <3>1, <4>2, <4>3, Texting DEF Around, Whole
      <4> QED BY <4>4, WordsNext
    <3> QED BY <2>4, <3>2, <3>3
  <2>5. CASE UNCHANGED <<stdin, chunk, keys, typed>>
    BY <1>0, <1>t, <1>n, <1>s, <2>1, <2>5, KeysSame
  <2> QED
    <3>1. \/ chunk' = keys /\ keys' = <<>> /\ UNCHANGED <<stdin, typed>>
          \/ stdin /\ "out" \notin polled /\ stdin' = FALSE /\ typed' \in {<<>>, <<"eof">>} /\ UNCHANGED <<chunk, keys>>
          \/ UNCHANGED <<stdin, chunk, keys, typed>>
      BY <1>7 DEF ServeStdin
    <3> QED BY <2>3, <2>4, <2>5, <3>1
<1>8. CASE Feed
  <2>1. UNCHANGED <<all, keys, got, slave, stdin>> /\ pc = "feed"
    BY <1>8 DEF Feed, sandbox
  <2>2. result = "none"
    BY <1>0, <2>1 DEF Verdict, Over
  <2> DEFINE h == <<Head(chunk)>>
             t == Tail(chunk)
             e == <<"esc">>
  <2>3. chunk # <<>> => h \in Seq(Chars) /\ t \in Seq(Chars) /\ chunk = Cat(h, t)
    BY <1>t, HeadTailProperties DEF Cat
  <2>e. e \in Seq(Chars)
    BY Texting
  <2>a. /\ chunk # <<>> /\ typed' = typed \o Escapes(held) \o <<Head(chunk)>> =>
             typed' = Cat(Cat(typed, Escapes(held)), h)
        /\ chunk # <<>> /\ Head(chunk) = "esc" => h = e
        /\ chunk' = Tail(chunk) <=> chunk' = t
    BY DEF Cat
  <2> HIDE DEF h, t, e
  <2>4. CASE chunk = <<>> /\ UNCHANGED <<chunk, held, aged, typed, limit, result>>
    BY <1>0, <1>t, <1>n, <1>s, <2>1, <2>4, KeysSame
  <2>5. CASE /\ chunk # <<>> /\ typed' = typed \o Escapes(held) \o <<Head(chunk)>>
             /\ held' = 0 /\ chunk' = Tail(chunk) /\ UNCHANGED result
    <3> DEFINE x == Cat(Escapes(held), h)
    <3>1. /\ h \in Seq(Chars) /\ t \in Seq(Chars) /\ chunk = Cat(h, t) /\ chunk' = t /\ held' = 0
          /\ typed' = Cat(Cat(typed, Escapes(held)), h)
      BY <2>3, <2>5, <2>a
    <3>2. x \in Seq(Chars) /\ typed' = Cat(typed, x)
      BY <1>t, <3>1, Texting
    <3>3. Cat(t, keys) \in Seq(Chars) /\ Kept' = Cat(t, keys)
      BY <1>t, <1>n, <1>z, <2>1, <3>1, Texting
    <3>4. Cat(chunk, keys) = Cat(h, Cat(t, keys))
      BY <1>t, <3>1, Texting
    <3>5. Kept = Cat(x, Kept')
      BY <1>t, <3>1, <3>3, <3>4, Texting
    <3> HIDE DEF x
    <3>6. Sent' = Cat(Sent, x)
      BY <1>t, <1>s, <2>1, <3>2, Texting
    <3> QED BY <1>0, <2>1, <2>5, <3>2, <3>5, <3>6, KeysPassed
  <2>6. CASE /\ chunk # <<>> /\ Head(chunk) = "esc" /\ typed' = typed \o Before
             /\ chunk' = Tail(chunk) /\ held' = Run /\ UNCHANGED result
    <3>0. t \in Seq(Chars) /\ chunk = Cat(e, t) /\ chunk' = t
      BY <2>3, <2>6, <2>a
    <3>1. Cat(t, keys) \in Seq(Chars) /\ Cat(chunk, keys) = Cat(e, Cat(t, keys))
      BY <1>t, <2>e, <3>0, Texting
    <3>2. CASE aged
      <4>1. Before = Escapes(held) /\ held' = 1 /\ Escapes(1) = e
        <5>1. Escapes(0 + 1) = Escapes(0) \o <<"esc">>
          BY EscapesAre
        <5>2. Escapes(1) = Cat(<<>>, e)
          BY <1>z, <5>1 DEF Cat, e
        <5> QED BY <2>6, <2>e, <3>2, <5>2, Texting DEF Before, Run
      <4>2. typed' = Cat(typed, Escapes(held))
        BY <2>6, <4>1 DEF Cat
      <4>3. Sent' = Cat(Sent, Escapes(held))
        BY <1>t, <1>s, <2>1, <4>2, Texting
      <4>4. Kept' = Cat(e, Cat(t, keys))
        BY <1>n, <2>1, <3>0, <4>1
      <4>5. Kept = Cat(Escapes(held), Kept')
        BY <1>t, <3>1, <4>4
      <4> QED BY <1>0, <1>t, <2>1, <2>6, <4>3, <4>5, KeysPassed
    <3>3. CASE ~aged
      <4>1. Before = <<>> /\ held' = held + 1
        BY <2>6, <3>3 DEF Before, Run
      <4>2. Escapes(held + 1) = Cat(Escapes(held), e)
        BY <1>t, EscapesAre DEF Cat, e
      <4>3. typed' = typed
        BY <1>t, <2>6, <4>1, Texting DEF Cat
      <4>4. Kept' = Cat(Cat(Escapes(held), e), Cat(t, keys))
        BY <1>n, <2>1, <3>0, <4>1, <4>2
      <4>5. Kept' = Kept
        BY <1>t, <2>e, <3>1, <4>4, Texting
      <4> QED BY <1>0, <1>s, <2>1, <2>6, <4>3, <4>5, KeysSame
    <3> QED BY <3>2, <3>3
  <2>7. CASE result' = "detached"
    BY <2>7 DEF Keys
  <2> QED BY <1>8, <2>4, <2>5, <2>6, <2>7 DEF Feed
<1>9. CASE ServePty
  <2>1. UNCHANGED <<all, keys, chunk, held, typed, got, stdin>> /\ (slave' => slave)
    BY <1>9 DEF ServePty, keyboard
  <2>2. result' # "detached" => result # "detached"
    BY <1>9 DEF ServePty
  <2> QED BY <1>0, <1>t, <1>n, <1>s, <2>1, <2>2, KeysSame
<1>10. CASE DrainFlush
  <2>1. UNCHANGED <<all, keys, chunk, held, typed, got, stdin>> /\ (slave' => slave)
    BY <1>10 DEF DrainFlush, sandbox, keyboard
  <2>2. result' # "detached" => result # "detached"
    BY <1>10 DEF DrainFlush, control
  <2> QED BY <1>0, <1>t, <1>n, <1>s, <2>1, <2>2, KeysSame
<1>11. CASE DrainRead
  <2>1. UNCHANGED <<all, keys, chunk, held, typed, got, stdin>> /\ (slave' => slave)
    BY <1>11 DEF DrainRead, keyboard
  <2>2. result' # "detached" => result # "detached"
    BY <1>11 DEF DrainRead, control
  <2> QED BY <1>0, <1>t, <1>n, <1>s, <2>1, <2>2, KeysSame
<1>12. CASE DrainOver
  <2>1. UNCHANGED <<all, keys, chunk, held, typed, got, stdin>> /\ (slave' => slave)
    BY <1>12 DEF DrainOver, sandbox, keyboard
  <2>2. result' # "detached" => result # "detached"
    BY <1>12 DEF DrainOver
  <2> QED BY <1>0, <1>t, <1>n, <1>s, <2>1, <2>2, KeysSame
<1>13. CASE Finish
  <2>1. UNCHANGED <<all, keys, chunk, held, typed, got, stdin>> /\ (slave' => slave)
    BY <1>13 DEF Finish, sandbox, keyboard
  <2>2. result' # "detached" => result # "detached"
    BY <1>13 DEF Finish
  <2> QED BY <1>0, <1>t, <1>n, <1>s, <2>1, <2>2, KeysSame
<1>14. CASE GiveUp
  <2>1. UNCHANGED <<all, keys, chunk, held, typed, got, stdin>> /\ (slave' => slave)
    BY <1>14 DEF GiveUp, sandbox, keyboard
  <2>2. result' # "detached" => result # "detached"
    BY <1>14 DEF GiveUp
  <2> QED BY <1>0, <1>t, <1>n, <1>s, <2>1, <2>2, KeysSame
<1>15. ASSUME NEW n \in 1..PtyMax, Write(n)
      PROVE  Keys'
  <2>1. UNCHANGED <<all, keys, chunk, held, typed, got, stdin>> /\ (slave' => slave)
    BY <1>15 DEF Write, keyboard
  <2>2. result' # "detached" => result # "detached"
    BY <1>15 DEF Write, control
  <2> QED BY <1>0, <1>t, <1>n, <1>s, <2>1, <2>2, KeysSame
<1>16. CASE CloseSlave
  <2>1. UNCHANGED <<all, keys, chunk, held, typed, got, stdin>> /\ (slave' => slave)
    BY <1>16 DEF CloseSlave, keyboard
  <2>2. result' # "detached" => result # "detached"
    BY <1>16 DEF CloseSlave, control
  <2> QED BY <1>0, <1>t, <1>n, <1>s, <2>1, <2>2, KeysSame
<1>17. CASE StatusArrives
  <2>1. UNCHANGED <<all, keys, chunk, held, typed, got, stdin>> /\ (slave' => slave)
    BY <1>17 DEF StatusArrives, keyboard
  <2>2. result' # "detached" => result # "detached"
    BY <1>17 DEF StatusArrives, control
  <2> QED BY <1>0, <1>t, <1>n, <1>s, <2>1, <2>2, KeysSame
<1>18. CASE StopSignal
  <2>1. UNCHANGED <<all, keys, chunk, held, typed, got, stdin>> /\ (slave' => slave)
    BY <1>18 DEF StopSignal, sandbox, keyboard
  <2>2. result' # "detached" => result # "detached"
    BY <1>18 DEF StopSignal, control
  <2> QED BY <1>0, <1>t, <1>n, <1>s, <2>1, <2>2, KeysSame
<1>19. CASE HostResizes
  <2>1. UNCHANGED <<all, keys, chunk, held, typed, got, stdin>> /\ (slave' => slave)
    BY <1>19 DEF HostResizes, sandbox, keyboard
  <2>2. result' # "detached" => result # "detached"
    BY <1>19 DEF HostResizes, control
  <2> QED BY <1>0, <1>t, <1>n, <1>s, <2>1, <2>2, KeysSame
<1>20. CASE HangUp
  <2>1. UNCHANGED <<all, keys, chunk, held, typed, got, stdin>> /\ (slave' => slave)
    BY <1>20 DEF HangUp, sandbox
  <2>2. result' # "detached" => result # "detached"
    BY <1>20 DEF HangUp, control
  <2> QED BY <1>0, <1>t, <1>n, <1>s, <2>1, <2>2, KeysSame
<1>21. CASE WindowPasses
  <2>1. UNCHANGED <<all, keys, chunk, held, typed, got, stdin>> /\ (slave' => slave)
    BY <1>21 DEF WindowPasses, sandbox
  <2>2. result' # "detached" => result # "detached"
    BY <1>21 DEF WindowPasses, control
  <2> QED BY <1>0, <1>t, <1>n, <1>s, <2>1, <2>2, KeysSame
<1>22. ASSUME NEW b \in {"x", "esc"}, TypeKey(b)
      PROVE  Keys'
  <2>1. UNCHANGED <<chunk, held, typed, got, slave, result, stdin>>
    BY <1>22 DEF TypeKey, control, sandbox
  <2> DEFINE x == <<b>>
  <2>2. x \in Seq(Chars) /\ keys \in Seq({"x", "esc"}) /\ all \in Seq({"x", "esc"})
    BY <1>0 DEF TypeOK, Chars
  <2>3. keys' = Cat(keys, x) /\ all' = Cat(all, x)
    BY <1>22, <2>2, AppendIsConcat DEF TypeKey, Cat
  <2> HIDE DEF x
  <2>4. Cat(chunk, keys) \in Seq(Chars) /\ Cat(chunk, keys') = Cat(Cat(chunk, keys), x)
    BY <1>t, <2>2, <2>3, Texting
  <2>5. Kept' = Cat(Kept, x)
    BY <1>t, <1>n, <2>1, <2>2, <2>4, Texting
  <2>6. Sent' = Sent
    BY <1>s, <2>1
  <2>7. (Plain => Plain') /\ (Split => Split')
    BY <1>t, <2>2, <2>3, <2>5, <2>6, OneMore, Words, WordsNext
  <2> QED BY <1>0, <2>1, <2>7 DEF Keys
<1>23. CASE UNCHANGED vars
  BY <1>0, <1>t, <1>n, <1>s, <1>23, KeysSame DEF vars
<1> QED
  BY <1>1, <1>2, <1>3, <1>4, <1>5, <1>6, <1>7, <1>8, <1>9, <1>10, <1>11, <1>12, <1>13, <1>14,
     <1>15, <1>16, <1>17, <1>18, <1>19, <1>20, <1>21, <1>22, <1>23
           DEF Next, Relay, Ending, Outside, Ended

(* ----------------------------- the theorems ----------------------------- *)

LEMMA NextInv ==
  ASSUME IInv, [Next]_vars
  PROVE  IInv'
  BY TypeStep, ControlStep, AccountedStep, RoomStep, KeysStep DEF IInv

(* The bound on what is held, while the relay runs.                        *)
LEMMA Bounded ==
  ASSUME IInv
  PROVE  HoldBounded
<1>0. Numbers /\ Room
  BY NumbersAre DEF IInv
<1>1. SUFFICES ASSUME result = "none"
               PROVE  (slave => pending < PendingMax + Chunk) /\ pending < PendingMax + Chunk + PtyMax
  BY DEF HoldBounded
<1>2. slave => pending < PendingMax + Chunk
  BY <1>0, <1>1 DEF Room
<1>3. ~slave => pending + pty < PendingMax + Chunk + PtyMax
  BY <1>0, <1>1 DEF Room
<1> QED BY <1>0, <1>2, <1>3 DEF Numbers

(* DRAIN_MAX leaves room for what a pty buffers.                           *)
LEMMA Drains ==
  ASSUME IInv
  PROVE  DrainHasRoom
<1>0. Numbers /\ Room /\ Verdict /\ TypeOK
  BY NumbersAre, ControlParts DEF IInv
<1>1. SUFFICES ASSUME pc = "drain", quiet, result = "exited", pty # 0
               PROVE  pending < limit
  BY <1>0 DEF DrainHasRoom, Full, Numbers, Verdict
<1>2. limit = 2 * PendingMax /\ ~slave
  BY <1>0, <1>1 DEF Verdict, DrainMax
<1>3. PICK m \in Chunks : Spare(m)
  BY <1>0, <1>1, <1>2 DEF Room
<1>4. PICK k \in 1..PendingMax : PendingMax = k * Chunk
  BY RelayAssumption
<1>5. m \in Nat /\ pty + m <= PtyMax /\ PtyMax <= PendingMax /\ pty > 0
  BY <1>0, <1>1, <1>3, RelayAssumption DEF Spare, Chunks, Numbers
<1>6. k \in Nat /\ m < k * Chunk
  BY <1>0, <1>4, <1>5 DEF Numbers
<1>7. m + Chunk <= PendingMax
  BY <1>0, <1>3, <1>4, <1>6, ChunksAre DEF Numbers
<1> QED BY <1>0, <1>2, <1>3, <1>5, <1>7 DEF Spare, Numbers

(* The end-of-file character the sandbox was sent has a place of its own.  *)
LEMMA Ordered ==
  ASSUME IInv
  PROVE  KeysInOrder
<1>1. SUFFICES ASSUME slave, result # "detached", ~Plain
               PROVE  \E i \in 1..Len(Sent) :
                        /\ Sent[i] = "eof"
                        /\ SubSeq(Sent, 1, i - 1) \o SubSeq(Sent, i + 1, Len(Sent)) \o Kept = all
  BY DEF KeysInOrder, Plain
<1>2. PICK a, b \in Seq(Chars) : Sent = (a \o <<"eof">>) \o b /\ (a \o b) \o Kept = all
  BY <1>1 DEF IInv, Keys, Split
<1> DEFINE n == Len(a)
           s == a \o <<"eof">>
<1>3. n \in Nat /\ Len(b) \in Nat /\ <<"eof">> \in Seq(Chars) /\ Len(<<"eof">>) = 1
  BY LenProperties, Texting
<1>4. s \in Seq(Chars) /\ Len(s) = n + 1 /\ s[n + 1] = "eof" /\ \A i \in 1..n : s[i] = a[i]
  BY <1>3, ConcatProperties
<1> HIDE DEF s
<1>5. /\ Len(Sent) = n + 1 + Len(b)
      /\ \A i \in 1..(n + 1) : Sent[i] = s[i]
      /\ \A i \in 1..Len(b) : Sent[n + 1 + i] = b[i]
      /\ Sent \in Seq(Chars)
  <2>1. Sent = s \o b
    BY <1>2 DEF s
  <2>2. /\ Sent \in Seq(Chars) /\ Len(Sent) = Len(s) + Len(b)
        /\ \A i \in 1..Len(s) + Len(b) : Sent[i] = IF i <= Len(s) THEN s[i] ELSE b[i - Len(s)]
    BY <1>4, <2>1, ConcatProperties
  <2> HIDE DEF n
  <2>3. \A i \in 1..(n + 1) : i \in 1..Len(s) + Len(b) /\ i <= Len(s)
    BY <1>3, <1>4
  <2>5. \A i \in 1..(n + 1) : Sent[i] = s[i]
    BY <2>2, <2>3
  <2>6. \A i \in 1..Len(b) : Sent[n + 1 + i] = b[i]
    <3> TAKE i \in 1..Len(b)
    <3> DEFINE j == n + 1 + i
    <3>2. j \in 1..Len(s) + Len(b) /\ ~(j <= Len(s)) /\ j - Len(s) = i
      BY <1>3, <1>4
    <3> HIDE DEF j
    <3>3. Sent[j] = b[i]
      BY <2>2, <3>2
    <3> QED BY <3>3 DEF j
  <2>7. Len(Sent) = n + 1 + Len(b)
    BY <1>3, <1>4, <2>2
  <2> QED BY <2>2, <2>5, <2>6, <2>7
<1>6. n + 1 \in 1..Len(Sent) /\ Sent[n + 1] = "eof"
  BY <1>3, <1>4, <1>5
<1>7. \A i \in 1..Len(Sent) : Sent[i] \in Chars
  BY <1>5, ElementOfSeq
<1>8. SubSeq(Sent, 1, n) = a
  <2>1. /\ SubSeq(Sent, 1, n) \in Seq(Chars) /\ Len(SubSeq(Sent, 1, n)) = n
        /\ \A i \in 1..n : SubSeq(Sent, 1, n)[i] = Sent[i]
    <3>1. \A i \in 1..n : Sent[i] \in Chars
      BY <1>3, <1>5, <1>7
    <3>2. /\ SubSeq(Sent, 1, n) \in Seq(Chars)
          /\ Len(SubSeq(Sent, 1, n)) = IF 1 <= n THEN n - 1 + 1 ELSE 0
          /\ \A i \in 1..(n - 1 + 1) : SubSeq(Sent, 1, n)[i] = Sent[1 + i - 1]
      BY <1>3, <3>1, SubSeqProperties
    <3> QED BY <1>3, <3>2
  <2>2. \A i \in 1..n : SubSeq(Sent, 1, n)[i] = a[i]
    BY <1>3, <1>4, <1>5, <2>1
  <2> QED BY <1>3, <2>1, <2>2, SeqEqual
<1>9. SubSeq(Sent, n + 2, Len(Sent)) = b
  <2>1. /\ SubSeq(Sent, n + 2, Len(Sent)) \in Seq(Chars) /\ Len(SubSeq(Sent, n + 2, Len(Sent))) = Len(b)
        /\ \A i \in 1..Len(b) : SubSeq(Sent, n + 2, Len(Sent))[i] = Sent[n + 1 + i]
    <3>1. \A i \in (n + 2)..Len(Sent) : Sent[i] \in Chars
      BY <1>3, <1>5, <1>7
    <3>2. /\ SubSeq(Sent, n + 2, Len(Sent)) \in Seq(Chars)
          /\ Len(SubSeq(Sent, n + 2, Len(Sent))) = IF n + 2 <= Len(Sent) THEN Len(Sent) - (n + 2) + 1 ELSE 0
          /\ \A i \in 1..(Len(Sent) - (n + 2) + 1) : SubSeq(Sent, n + 2, Len(Sent))[i] = Sent[(n + 2) + i - 1]
      BY <1>3, <1>5, <3>1, SubSeqProperties
    <3> QED BY <1>3, <1>5, <3>2
  <2>2. \A i \in 1..Len(b) : SubSeq(Sent, n + 2, Len(Sent))[i] = b[i]
    BY <1>3, <1>5, <2>1
  <2> QED BY <2>1, <2>2, SeqEqual
<1>10. (n + 1) - 1 = n /\ (n + 1) + 1 = n + 2
  BY <1>3
<1> HIDE DEF n
<1>11. SubSeq(Sent, 1, (n + 1) - 1) \o SubSeq(Sent, (n + 1) + 1, Len(Sent)) \o Kept = all
  BY <1>2, <1>8, <1>9, <1>10
<1> QED BY <1>6, <1>11

(* relay() and drain() keep every variable of theirs in its range: the     *)
(* limit is one of two, and less than a whole detach sequence is held.     *)
THEOREM RelayTypes == Spec => []TypeOK
<1>1. IInv => TypeOK
  BY DEF IInv
<1> QED BY InitInv, NextInv, <1>1, PTL DEF Spec

(* However little the host takes, whatever the sizes of a chunk, of the    *)
(* hold and of the pty: output is accounted for, held within its bound     *)
(* and never left in the kernel for want of room, and every key reaches    *)
(* the sandbox in order (Out, drain(), Escape).                            *)
THEOREM OutputKeptHolds == Spec => []OutputKept
<1>1. IInv => OutputKept
  BY Bounded, Drains, Ordered DEF OutputKept, IInv
<1> QED BY InitInv, NextInv, <1>1, PTL DEF Spec

-----------------------------------------------------------------------------
(* GivenBack, however many descriptions a caller has and however the three  *)
(* fds share them.                                                          *)

Shapes ==
  /\ caller \in Callers
  /\ block \in [DOMAIN caller.kind -> BOOLEAN]
  /\ saved \in [Fds -> {<<>>, <<TRUE>>}]
  /\ own \subseteq Fds
  /\ guard \in {<<>>, <<FALSE>>} /\ raw \in BOOLEAN
  /\ at \in {"plan", "raw", "read", "set", "relay", "back", "done", "killed"}

(* A flag is off only where one of the fds on it knows that it was on, and  *)
(* that fd has no description of the relay's own.                           *)
Owed ==
  /\ \A d \in DOMAIN block : ~block[d] => \E fd \in Fds : caller.behind[fd] = d /\ saved[fd] # <<>>
  /\ \A fd \in Fds : saved[fd] # <<>> => ~reopen(fd)
  /\ at \in {"plan", "raw", "read"} => \A d \in DOMAIN block : block[d]
  /\ at = "set" => left \subseteq {fd \in Fds : saved[fd] # <<>>}
  /\ at = "back" => left = {fd \in Fds : saved[fd] # <<>>}
  /\ at = "done" => \A fd \in Fds : saved[fd] = <<>>

(* Every destination that was looked at is free of the host.                *)
Freed ==
  /\ \A fd \in own : reopen(fd)
  /\ at = "read" => \A fd \in Dests \ left : fd \in Fds /\ (fd \in own \/ saved[fd] # <<>>)
  /\ at \in {"set", "relay"} => \A fd \in Dests : fd \in Fds /\ (fd \in own \/ saved[fd] # <<>>)
  /\ at = "set" => \A fd \in Fds \ left : saved[fd] # <<>> => ~block[caller.behind[fd]]
  /\ at = "relay" => \A fd \in Fds : saved[fd] # <<>> => ~block[caller.behind[fd]]

(* The terminal is raw only between RawGuard and its restore.               *)
Modes ==
  /\ raw => guard = <<FALSE>> /\ at # "done"
  /\ at \in {"plan", "raw"} => ~raw
  /\ given # "raw"
  /\ inside = <<>> \/ inside = [fd \in Fds |-> IF Target(fd) = "inherit" THEN caller.behind[fd] ELSE Target(fd)]

StdioInv == Shapes /\ Owed /\ Freed /\ Modes

LEMMA StdioStarts == ASSUME StdioInit PROVE StdioInv
BY CallersAssumption DEF StdioInit, StdioInv, Shapes, Owed, Freed, Modes

(* What an fd is and what a plan makes of it depend on the caller alone.    *)
LEMMA SameCaller ==
  ASSUME UNCHANGED caller
  PROVE  /\ \A fd \in Fds : /\ reopen(fd)' = reopen(fd) /\ Target(fd)' = Target(fd)
                            /\ Writable(fd)' = Writable(fd) /\ Seekable(fd)' = Seekable(fd)
         /\ Dests' = Dests
BY DEF reopen, Target, Writable, Seekable, Dests, needs_pty, output_fd, IsTty

LEMMA StdioSteps == ASSUME StdioInv, [StdioNext]_iovars PROVE StdioInv'
<1> USE DEF StdioInv
<1>0. UNCHANGED caller
  BY DEF StdioNext, iovars, allocate, RawGuard, Unblock, Relaying, End, restore, Kill, ReadFlags, SetFlags, PutBack
<1>s. /\ \A fd \in Fds : reopen(fd)' = reopen(fd) /\ Target(fd)' = Target(fd)
      /\ Dests' = Dests
  BY <1>0, SameCaller
<1>c. caller.behind \in [Fds -> DOMAIN caller.kind]
  BY CallersAssumption DEF Shapes
<1>1. CASE allocate
  <2>1. Shapes' BY <1>1 DEF allocate, Shapes
  <2>2. Owed' BY <1>1, <1>s DEF allocate, Owed
  <2>3. Freed' BY <1>1, <1>s DEF allocate, Freed, Shapes
  <2>4. Modes' BY <1>1, <1>s DEF allocate, Modes
  <2> QED BY <2>1, <2>2, <2>3, <2>4
<1>2. CASE RawGuard
  <2>1. Shapes' BY <1>2 DEF RawGuard, Shapes, Modes
  <2>2. Owed' BY <1>2, <1>s DEF RawGuard, Owed
  <2>3. Freed' BY <1>2, <1>s DEF RawGuard, Freed, Shapes
  <2>4. Modes' BY <1>2, <1>s DEF RawGuard, Modes, Shapes
  <2> QED BY <2>1, <2>2, <2>3, <2>4
<1>3. ASSUME NEW fd \in Fds, ReadFlags(fd) PROVE StdioInv'
  <2>0. block[caller.behind[fd]] = TRUE BY <1>3, <1>c DEF ReadFlags, Shapes, Owed
  <2>a. saved' = saved \/ saved' = [saved EXCEPT ![fd] = <<TRUE>>] BY <1>3, <2>0 DEF ReadFlags
  <2>1. Shapes' BY <1>3, <2>a DEF ReadFlags, Shapes
  <2>2. Owed' BY <1>3, <1>s DEF ReadFlags, Owed, Shapes
  <2>3. Freed' BY <1>3, <1>s DEF ReadFlags, Freed, Shapes
  <2>4. Modes' BY <1>3, <1>s DEF ReadFlags, Modes
  <2> QED BY <2>1, <2>2, <2>3, <2>4
<1>4. CASE Unblock
  <2>1. Shapes' BY <1>4 DEF Unblock, Shapes
  <2>2. Owed' BY <1>4, <1>s DEF Unblock, Owed
  <2>3. Freed' BY <1>4, <1>s DEF Unblock, Freed, Shapes
  <2>4. Modes' BY <1>4, <1>s DEF Unblock, Modes
  <2> QED BY <2>1, <2>2, <2>3, <2>4
<1>5. ASSUME NEW fd \in Fds, SetFlags(fd) PROVE StdioInv'
  <2>0. saved[fd] # <<>> BY <1>5 DEF SetFlags, Owed
  <2>1. Shapes' BY <1>5, <1>c DEF SetFlags, Shapes
  <2>2. Owed' BY <1>5, <1>s, <1>c, <2>0 DEF SetFlags, Owed, Shapes
  <2>3. Freed' BY <1>5, <1>s, <1>c DEF SetFlags, Freed, Shapes
  <2>4. Modes' BY <1>5, <1>s DEF SetFlags, Modes
  <2> QED BY <2>1, <2>2, <2>3, <2>4
<1>6. CASE Relaying \/ End
  <2>1. Shapes' BY <1>6 DEF Relaying, End, Shapes
  <2>2. Owed' BY <1>6, <1>s DEF Relaying, End, Owed
  <2>3. Freed' BY <1>6, <1>s DEF Relaying, End, Freed, Shapes
  <2>4. Modes'
    <3>1. CASE Relaying BY <3>1, <1>s DEF Relaying, Modes
    <3>2. CASE End BY <3>2, <1>s DEF End, Modes
    <3> QED BY <1>6, <3>1, <3>2
  <2> QED BY <2>1, <2>2, <2>3, <2>4
<1>7. ASSUME NEW fd \in Fds, PutBack(fd) PROVE StdioInv'
  <2>0. saved[fd] = <<TRUE>> BY <1>7 DEF PutBack, Owed, Shapes
  <2>a. block' = [block EXCEPT ![caller.behind[fd]] = TRUE] BY <1>7, <2>0 DEF PutBack
  <2>1. Shapes' BY <1>7, <1>c, <2>a DEF PutBack, Shapes
  <2>2. Owed' BY <1>7, <1>s, <1>c, <2>0 DEF PutBack, Owed, Shapes
  <2>3. Freed' BY <1>7, <1>s DEF PutBack, Freed, Shapes
  <2>4. Modes' BY <1>7, <1>s DEF PutBack, Modes
  <2> QED BY <2>1, <2>2, <2>3, <2>4
<1>8. CASE restore
  <2>0. ~raw'
    <3>1. CASE guard = <<>> BY <1>8, <3>1 DEF restore, Modes
    <3>2. CASE guard = <<FALSE>> BY <1>8, <3>2 DEF restore
    <3> QED BY <3>1, <3>2 DEF Shapes
  <2>b. raw' \in BOOLEAN
    <3>1. CASE guard = <<>> BY <1>8, <3>1 DEF restore, Shapes
    <3>2. CASE guard = <<FALSE>> BY <1>8, <3>2 DEF restore
    <3> QED BY <3>1, <3>2 DEF Shapes
  <2>1. Shapes' BY <1>8, <2>b DEF restore, Shapes
  <2>2. Owed' BY <1>8, <1>s DEF restore, Owed, Shapes
  <2>3. Freed' BY <1>8, <1>s DEF restore, Freed
  <2>4. Modes' BY <1>8, <1>s, <2>0 DEF restore, Modes
  <2> QED BY <2>1, <2>2, <2>3, <2>4
<1>9. CASE Kill
  <2>1. Shapes' BY <1>9 DEF Kill, Shapes
  <2>2. Owed' BY <1>9, <1>s DEF Kill, Owed
  <2>3. Freed' BY <1>9, <1>s DEF Kill, Freed, Shapes
  <2>4. Modes' BY <1>9, <1>s DEF Kill, Modes
  <2> QED BY <2>1, <2>2, <2>3, <2>4
<1>10. CASE UNCHANGED iovars
  BY <1>10, <1>s DEF iovars, Shapes, Owed, Freed, Modes
<1> QED BY <1>1, <1>2, <1>3, <1>4, <1>5, <1>6, <1>7, <1>8, <1>9, <1>10 DEF StdioNext

LEMMA StdioSuffices == ASSUME StdioInv PROVE GivenBack
<1>1. PutBackAll
  <2>1. at = "done" => ~raw /\ \A d \in DOMAIN block : block[d]
    BY DEF StdioInv, Owed, Modes
  <2>2. ASSUME NEW fd \in Fds, saved[fd] # <<>>, NEW d, caller.behind[fd] = d
        PROVE ~caller.reopens \/ caller.kind[d] \in {"socket", "file"} \/ ~Writable(fd)
    BY <2>2 DEF StdioInv, Owed, reopen, Seekable
  <2> QED BY <2>1, <2>2 DEF StdioInv, Owed, Modes, PutBackAll
<1>2. ASSUME at = "relay", NEW fd \in Dests
      PROVE (fd \in own \/ ~block[caller.behind[fd]]) /\ (fd \in own => Writable(fd) /\ ~Seekable(fd))
  BY <1>2 DEF StdioInv, Freed, reopen
<1>3. ASSUME inside # <<>>, caller.mode # "passthrough", NEW fd \in Fds, inside[fd] \in DOMAIN caller.kind
      PROVE caller.kind[inside[fd]] # "tty"
  BY <1>3, CallersAssumption DEF StdioInv, Shapes, Modes, Target, IsTty
<1> QED BY <1>1, <1>2, <1>3 DEF GivenBack, NeverWaits

(* Whatever a caller's fds are, and wherever the run ends or is killed:     *)
(* what NonBlocking and RawGuard borrowed is given back, and no write of    *)
(* the relay waits (tty.rs).                                                *)
THEOREM GivenBackHolds == StdioSpec => []GivenBack
<1>1. StdioInit => StdioInv BY StdioStarts
<1>2. StdioInv /\ [StdioNext]_iovars => StdioInv' BY StdioSteps
<1>3. StdioInv => GivenBack BY StdioSuffices
<1> QED BY <1>1, <1>2, <1>3, PTL DEF StdioSpec
=============================================================================
