------------------------------- MODULE RunLog -------------------------------
(***************************************************************************)
(* The log of a run without a terminal (run_log.rs): fd 2 is a pipe, and a *)
(* thread copies it into last-run.log up to a cap and, for a tee, to the   *)
(* stderr the caller had.  Several bubblers may write one log: the run     *)
(* truncates it, an exec appends.  The size of the file is asked for in    *)
(* one system call and the write is another.                               *)
(*                                                                         *)
(* Bytes are counted, MaxLog stands for MAX_BYTES, and what other          *)
(* processes do to the pipe is external.                                   *)
(***************************************************************************)
EXTENDS Integers, ControlSocket, InstanceStore, Shims

CONSTANTS Writers,     \* the bubblers with a redirect on this log
          Tees,        \* those of them that tee()
          MaxLog,      \* the cap
          NoteLen, StoppedLen,   \* the two notes
          Chunk,       \* what one read returns at most
          PipeSize     \* what a pipe holds

ASSUME LogAssumption ==
  /\ IsFiniteSet(Writers) /\ Tees \subseteq Writers
  /\ {NoteLen, StoppedLen, Chunk, PipeSize} \subseteq Nat \ {0} /\ MaxLog \in Nat

VARIABLES size,     \* of the log
          pipe,     \* writer -> bytes in its pipe
          open,     \* writer -> some process still holds the write end
          copy,     \* writer -> where the copying thread is
          got,      \* writer -> the chunk it read
          room,     \* writer -> room under the cap when it looked
          noted,    \* writer -> the note has been tried
          file,     \* writer -> `dst` is still written to
          err       \* writer -> `stderr` is still written to

lvars == <<size, pipe, open, copy, got, room, noted, file, err>>
outside == <<pipe, open>>

LogInit ==
  /\ size = 0 /\ pipe = [w \in Writers |-> 0]
  /\ open = [w \in Writers |-> TRUE] /\ copy = [w \in Writers |-> "off"]
  /\ got = pipe /\ room = pipe
  /\ noted = [w \in Writers |-> FALSE]
  /\ file = [w \in Writers |-> TRUE] /\ err = [w \in Writers |-> w \in Tees]

Set(f, w, v) == [f EXCEPT ![w] = v]
Smaller(a, b) == IF a < b THEN a ELSE b
Monus(a, b) == IF a < b THEN 0 ELSE a - b

\* start(): a run empties the log first, an exec appends.
Redirect(w, truncate) ==
  /\ copy[w] = "off" /\ copy' = Set(copy, w, "read")
  /\ size' = IF truncate THEN 0 ELSE size
  /\ UNCHANGED <<outside, got, room, noted, file, err>>

\* The application and the sidecars fill the pipe whenever it is empty, and
\* the last of them closes it.
Says(w, n) ==
  /\ open[w] /\ copy[w] \notin {"off", "ended"} /\ pipe[w] = 0
  /\ pipe' = Set(pipe, w, n)
  /\ UNCHANGED <<size, open, copy, got, room, noted, file, err>>
Closes(w) ==
  /\ open[w] /\ copy[w] # "off" /\ open' = Set(open, w, FALSE)
  /\ UNCHANGED <<size, pipe, copy, got, room, noted, file, err>>

----------------------------------------------------------------------------
(* copy_capped(): one turn of the loop.                                     *)

AfterRead(w) == IF file[w] THEN "size" ELSE "stderr"

ReadUntilFull(w) ==
  /\ copy[w] = "read" /\ ~noted[w] /\ pipe[w] > 0
  /\ got' = Set(got, w, Smaller(Chunk, pipe[w]))
  /\ pipe' = Set(pipe, w, pipe[w] - got'[w]) /\ copy' = Set(copy, w, AfterRead(w))
  /\ UNCHANGED <<size, open, room, noted, file, err>>
ReadPipe(w) ==
  /\ copy[w] = "read"
  /\ \/ /\ pipe[w] > 0 /\ got' = Set(got, w, Smaller(Chunk, pipe[w]))
        /\ pipe' = Set(pipe, w, pipe[w] - got'[w]) /\ copy' = Set(copy, w, AfterRead(w))
     \/ /\ pipe[w] = 0 /\ ~open[w] /\ copy' = Set(copy, w, "ended")
        /\ UNCHANGED <<got, pipe>>
  /\ UNCHANGED <<size, open, room, noted, file, err>>

\* The first half of append_capped(): how much room the file says there is.
AskSize(w) ==
  /\ copy[w] = "size"
  /\ room' = Set(room, w, Monus(MaxLog, size)) /\ copy' = Set(copy, w, "append")
  /\ UNCHANGED <<size, outside, got, noted, file, err>>

Takes(w) == Smaller(Monus(room[w], NoteLen), got[w])

\* The second half: what fits, then the note the first time it does not.
AppendCapped(w) ==
  /\ copy[w] = "append" /\ size' = size + Takes(w)
  /\ noted' = Set(noted, w, noted[w] \/ Takes(w) < got[w])
  /\ copy' = Set(copy, w, IF /\ Takes(w) < got[w] /\ ~noted[w]
                             /\ room[w] >= NoteLen
                          THEN "note" ELSE "stderr")
  /\ room' = Set(room, w, 0)
  /\ UNCHANGED <<outside, got, file, err>>
Note(w) ==
  /\ copy[w] = "note" /\ size' = size + NoteLen /\ copy' = Set(copy, w, "stderr")
  /\ UNCHANGED <<outside, got, room, noted, file, err>>

\* The file fails, having taken any part of what was written.  Without a tee
\* the thread ends; with one it tries to say so and goes on without the file.
Fails(w) ==
  /\ copy[w] \in {"size", "append", "note"}
  /\ \E wrote \in 0 .. (CASE copy[w] = "size" -> 0 [] copy[w] = "append" -> Takes(w)
                          [] OTHER -> NoteLen) : size' = size + wrote
  /\ copy' = Set(copy, w, IF w \in Tees THEN "stopped" ELSE "ended")
  /\ file' = Set(file, w, FALSE) /\ room' = Set(room, w, 0)
  /\ UNCHANGED <<outside, got, noted, err>>
\* The word of it is tried once, where the file says there is room for it.
AskStopped(w) ==
  /\ copy[w] = "stopped"
  /\ copy' = Set(copy, w, IF size + StoppedLen <= MaxLog THEN "tell" ELSE "stderr")
  /\ UNCHANGED <<size, outside, got, room, noted, file, err>>
Stopped(w) ==
  /\ copy[w] = "tell" /\ copy' = Set(copy, w, "stderr")
  /\ \E wrote \in 0 .. StoppedLen : size' = size + wrote
  /\ UNCHANGED <<outside, got, room, noted, file, err>>

\* The caller's stderr has every byte, after the file: Blocking waits for as
\* long as nobody reads it, and one whose reader has gone is given up on.
Shows(w) ==
  /\ copy[w] = "stderr" /\ err[w] /\ copy' = Set(copy, w, "read")
  /\ got' = Set(got, w, 0) /\ err' \in {err, Set(err, w, FALSE)}
  /\ UNCHANGED <<size, outside, room, noted, file>>
NoStderr(w) ==
  /\ copy[w] = "stderr" /\ ~err[w] /\ copy' = Set(copy, w, "read")
  /\ got' = Set(got, w, 0)
  /\ UNCHANGED <<size, outside, room, noted, file, err>>

\* Drop for Redirect and for Relay wait a second for the thread and no longer:
\* the process ends and the thread with it.
Abandons(w) ==
  /\ copy[w] \notin {"off", "ended"} /\ copy' = Set(copy, w, "ended")
  /\ UNCHANGED <<size, outside, got, room, noted, file, err>>

\* What the copying thread does by itself; Shows waits for the caller.
Copies(w) == \/ ReadPipe(w) \/ AskSize(w) \/ AppendCapped(w) \/ Note(w)
             \/ AskStopped(w) \/ Stopped(w) \/ NoStderr(w) \/ Fails(w)

LogNext == \E w \in Writers :
             \/ \E t \in BOOLEAN : Redirect(w, t)
             \/ \E n \in 1 .. PipeSize : Says(w, n)
             \/ Closes(w) \/ Abandons(w) \/ Copies(w) \/ Shows(w)

\* The log on its own.
LogSpec == LogInit /\ [][LogNext]_lvars

LogFairness == \A w \in Writers : WF_lvars(Copies(w))

----------------------------------------------------------------------------
LogTypeOK ==
  /\ size \in Nat /\ pipe \in [Writers -> Nat]
  /\ noted \in [Writers -> BOOLEAN] /\ file \in [Writers -> BOOLEAN]

\* What one turn of the loop can append after it asked for the size: all of a
\* chunk but a byte and the note, or the word of a file that failed.
Burst == IF StoppedLen < Chunk + NoteLen - 1 THEN Chunk + NoteLen - 1 ELSE StoppedLen

(* The log holds at most MAX_BYTES, the note of what was dropped included,  *)
(* and what each other bubbler appended between its question and its write  *)
(* (append_capped(), run_log.rs:321; the "cannot push it over" of line 9    *)
(* is true of what came before the question): with one writer MAX_BYTES is  *)
(* the cap, however often the log is truncated under it and whatever fails. *)
LogCapped == size <= MaxLog + (Cardinality(Writers) - 1) * Burst

(* Whoever writes into the pipe is never left blocked by the cap, by a file *)
(* that fails or by a caller's stderr that is gone: what is in it is read,  *)
(* or the reader has ended, or a tee waits for good at a stderr that nobody *)
(* reads (copy_capped(), run_log.rs:240).                                   *)
Drains == \A w \in Writers :
            pipe[w] > 0 ~> \/ pipe[w] = 0 \/ copy[w] = "ended"
                           \/ [](copy[w] = "stderr" /\ err[w])

(* The log stays under its cap and its writers are not blocked for it       *)
(* (run_log.rs).                                                            *)
LogKept == Drains /\ []LogCapped

-----------------------------------------------------------------------------
(* What bubblers share on disk and nothing else coordinates, part by part: a  *)
(* behaviour is one of an instance's control socket, of the instance          *)
(* directories, of the shims, or of the run log.  No part reads a variable of *)
(* another; the others stay where they start.                                 *)

VARIABLE part

mcvars == <<part, vars, ivars, hvars, lvars>>

MCInit == /\ part \in {"socket", "instances", "shims", "log"}
          /\ Init /\ StoreInit /\ ShimsInit /\ LogInit
          /\ part # "instances" => inst = NoDir
          /\ part # "shims" => \A n \in Names : shims[n] = "absent"
MCNext == /\ UNCHANGED part
          /\ \/ part = "socket" /\ Next /\ UNCHANGED <<ivars, hvars, lvars>>
             \/ part = "instances" /\ StoreNext /\ UNCHANGED <<vars, hvars, lvars>>
             \/ part = "shims" /\ ShimsNext /\ UNCHANGED <<vars, ivars, lvars>>
             \/ part = "log" /\ LogNext /\ UNCHANGED <<vars, ivars, hvars>>
\* The fairness of ControlSocket where that is what runs; the log's idle
\* thread has nothing to copy anywhere else.
SocketFairness == /\ \A p \in Procs : WF_vars(part = "socket" /\ Step(p))
                  /\ \A r \in Runs : WF_vars(part = "socket" /\ RunStep(r))
MCSpec == MCInit /\ [][MCNext]_mcvars /\ SocketFairness /\ LogFairness
=============================================================================
