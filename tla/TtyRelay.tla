------------------------------ MODULE TtyRelay ------------------------------
(***************************************************************************)
(* The relay between the user's terminal and a sandbox's pty               *)
(* (crates/bubbler-core/src/tty.rs: relay(), drain(), Out, Escape), as run *)
(* by `bubbler run' (launcher.rs, wait_relaying()) and by `bubbler exec'   *)
(* (exec.rs, run_in_with()).  One thread polls both sides and never waits  *)
(* for the host: output it does not take is held, up to a bound beyond     *)
(* which the pty is left unread; after the command's status the pty is     *)
(* read out for DRAIN and what is held is handed over.                     *)
(*                                                                         *)
(* Output is counted in units, a key is "x" or "esc" (^]).  Each readiness *)
(* is looked at when it is served, not all of them in one poll().  DRAIN,  *)
(* STALL, FLUSH_MAX, HURRY and the detach window are steps that may be     *)
(* taken at any moment.                                                    *)
(*                                                                         *)
(* The second half is the user's descriptors over one run or exec          *)
(* (run_with() of launcher.rs, run_in_with() of exec.rs): what the sandbox *)
(* is handed for fds 0, 1 and 2, the terminal's raw mode, and the          *)
(* destinations of the output made non-blocking and put back.  An open     *)
(* file description may be behind several of the three, and the user's     *)
(* shell holds it too; a SIGKILL may come at any step.  The last section   *)
(* puts the two side by side.                                              *)
(***************************************************************************)
EXTENDS Naturals, Sequences

CONSTANTS
  Chunk,       \* CHUNK: units moved per read
  PendingMax,  \* PENDING_MAX: units held before the pty is left unread
  PtyMax,      \* what the kernel buffers in a pty
  DetachRun,   \* DETACH_RUN: escapes in a row that detach
  MaxOut,      \* units the command writes (bound)
  MaxKeys,     \* keys the user types (bound)
  MaxResizes   \* changes of the window size (bound)

(* 64 KiB is eight chunks, and a pty buffers less.                         *)
ASSUME RelayAssumption ==
  /\ Chunk \in Nat \ {0} /\ PendingMax \in Nat \ {0} /\ PtyMax \in Nat
  /\ \E k \in 1..PendingMax : PendingMax = k * Chunk
  /\ PtyMax <= PendingMax
  /\ DetachRun \in Nat \ {0}
  /\ MaxOut \in Nat /\ MaxKeys \in Nat /\ MaxResizes \in Nat

DrainMax == 2 * PendingMax

VARIABLES
  pc,        \* where relay() is
  exec,      \* run_in_with() is waiting, not wait_relaying()
  tty,       \* host_out is the user's terminal, not the sink
  result,    \* how the relay ended
  \* the sandbox
  slave,     \* a process of the sandbox has the pty open
  pty,       \* units in the pty, unread
  made,      \* history: units ever written to the pty
  status,    \* the command's status has arrived
  \* signals
  stop,      \* a stop signal was caught and not yet looked at
  stopping,  \* Caught.stop, latched
  winch,     \* Caught.winch
  hostSize,  \* the size of the user's terminal
  size,      \* what resize() read of it
  ptySize,   \* the size of the pty
  \* Out
  pending,   \* units held
  limit,     \* units that may be held
  dest,      \* where they go: "host", "sink", or "none" once that failed too
  taken,     \* history: units the host or the sink took
  dropped,   \* history: units given up on
  reading,   \* the pty is worth reading
  polled,    \* what poll() was asked of the pty: "in", "out"
  quiet,     \* history: the sandbox's end was closed when the status was seen
  \* the keyboard
  all,       \* history: keys typed
  keys,      \* keys the host terminal holds
  hung,      \* the host terminal has hung up
  stdin,     \* keys are read at all
  chunk,     \* keys read and not yet fed
  held,      \* Escape.held
  aged,      \* the window of the first held escape has passed
  typed,     \* what waits for the pty to take it
  got        \* history: what the sandbox's terminal was given

setup    == <<exec, tty>>
control  == <<pc, setup, result>>
sandbox  == <<slave, pty, made, status>>
signals  == <<stop, stopping, winch, hostSize, size, ptySize>>
output   == <<pending, limit, dest, taken, dropped, reading, polled, quiet>>
keyboard == <<all, keys, hung, stdin, chunk, held, aged, typed, got>>
vars == <<pc, exec, tty, result, slave, pty, made, status, stop, stopping, winch, hostSize, size,
          ptySize, pending, limit, dest, taken, dropped, reading, polled, quiet,
          all, keys, hung, stdin, chunk, held, aged, typed, got>>

Locations == {"until", "winch", "getsize", "setsize", "out", "type", "stdin", "feed", "pty",
              "drain", "finish", "done"}

Init ==
  /\ pc = "until" /\ exec \in BOOLEAN /\ result = "none"
  /\ slave = TRUE /\ pty = 0 /\ made = 0 /\ status = FALSE
  /\ stop = FALSE /\ stopping = FALSE /\ winch = FALSE
  /\ hostSize = 0 /\ size = 0 /\ ptySize = 0
  /\ pending = 0 /\ limit = PendingMax
  /\ tty \in BOOLEAN   \* the sink where nothing of the user's can be written to, and once detached
  /\ dest = IF tty THEN "host" ELSE "sink"
  /\ taken = 0 /\ dropped = 0
  /\ reading = TRUE /\ polled = {} /\ quiet = FALSE
  /\ all = <<>> /\ keys = <<>> /\ hung = FALSE
  /\ stdin \in BOOLEAN           \* no keyboard where the pty is not the command's stdin
  /\ chunk = <<>> /\ held = 0 /\ aged = FALSE /\ typed = <<>> /\ got = <<>>

Full == pending >= limit
Escapes(n) == [i \in 1..n |-> "esc"]

-----------------------------------------------------------------------------
(* Out.flush(): the host takes some of what is held, all of it or nothing. *)
(* One that fails is replaced by the sink, which takes everything; when    *)
(* the sink fails there is nowhere left to put the output.                 *)
Flush(n) ==
  \/ /\ dest = "host"
     /\ \/ \E k \in 0..n : pending' = n - k /\ taken' = taken + k /\ UNCHANGED dest
        \/ n > 0 /\ pending' = 0 /\ taken' = taken + n /\ dest' = "sink"
  \/ /\ dest = "sink"
     /\ pending' = 0 /\ taken' = taken + n
     /\ dest' \in IF n = 0 THEN {"sink"} ELSE {"sink", "none"}
  \/ dest = "none" /\ pending' = n /\ UNCHANGED <<dest, taken>>

(* Mutant: the limit is not relaxed when the status is in hand.            *)
UntilHolds ==
  /\ pc = "until"
  /\ \/ status /\ result' = "exited" /\ UNCHANGED <<stop, stopping>>
     \/ ~status /\ exec /\ stop /\ result' = "signalled" /\ stop' = FALSE /\ stopping' = TRUE
     \/ /\ ~status /\ ~(exec /\ stop)
        /\ stop' = FALSE /\ stopping' = (stopping \/ stop)
        /\ UNCHANGED result
  /\ IF result' = "none"
     THEN pc' = "winch" /\ UNCHANGED <<limit, quiet>>
     ELSE pc' = "drain" /\ UNCHANGED limit /\ quiet' = ~slave
  /\ UNCHANGED <<setup, sandbox, winch, hostSize, size, ptySize, keyboard,
                 pending, dest, taken, dropped, reading, polled>>

(* The check at the top of the loop.  An exec leaves with the status or    *)
(* with the signal, a status in hand first; a run forwards the signal and  *)
(* goes on to wait for the status.                                         *)
Until ==
  /\ pc = "until"
  /\ \/ status /\ result' = "exited" /\ UNCHANGED <<stop, stopping>>
     \/ ~status /\ exec /\ stop /\ result' = "signalled" /\ stop' = FALSE /\ stopping' = TRUE
     \/ /\ ~status /\ ~(exec /\ stop)
        /\ stop' = FALSE /\ stopping' = (stopping \/ stop)
        /\ UNCHANGED result
  /\ IF result' = "none"
     THEN pc' = "winch" /\ UNCHANGED <<limit, quiet>>
     ELSE pc' = "drain" /\ limit' = DrainMax /\ quiet' = ~slave
  /\ UNCHANGED <<setup, sandbox, winch, hostSize, size, ptySize, keyboard,
                 pending, dest, taken, dropped, reading, polled>>

(* The flag is taken before the size is read.                              *)
TakeWinch ==
  /\ pc = "winch"
  /\ pc' = IF winch THEN "getsize" ELSE "out"
  /\ winch' = FALSE
  /\ UNCHANGED <<setup, result, sandbox, stop, stopping, hostSize, size, ptySize, output, keyboard>>

(* resize(): the host terminal's size is read, then set on the pty; the    *)
(* sink and a terminal that hung up have none.                             *)
GetSize ==
  /\ pc = "getsize"
  /\ pc' = IF tty /\ ~hung THEN "setsize" ELSE "out"
  /\ size' = IF tty /\ ~hung THEN hostSize ELSE size
  /\ UNCHANGED <<setup, result, sandbox, stop, stopping, winch, hostSize, ptySize, output, keyboard>>

SetSize ==
  /\ pc = "setsize"
  /\ pc' = "out"
  /\ ptySize' = size
  /\ UNCHANGED <<setup, result, sandbox, stop, stopping, winch, hostSize, size, output, keyboard>>

(* Escape.expire(), then poll(): the pty for input while there is room and *)
(* for output while keys wait; and Out.flush() if the host is ready.       *)
ServeOut ==
  /\ pc = "out"
  /\ pc' = "type"
  /\ IF aged THEN typed' = typed \o Escapes(held) /\ held' = 0 /\ aged' = FALSE
     ELSE UNCHANGED <<typed, held, aged>>
  /\ polled' = {e \in {"in", "out"} : \/ e = "in" /\ reading /\ dest # "none" /\ ~Full
                                      \/ e = "out" /\ typed' # <<>>}
  /\ Flush(pending)
  /\ UNCHANGED <<setup, result, sandbox, signals, limit, dropped, reading, quiet,
                 all, keys, hung, stdin, chunk, got>>

(* What was typed goes to the pty, as much as it takes; a pty that is gone *)
(* takes nothing any more.                                                 *)
ServeTyped ==
  /\ pc = "type"
  /\ pc' = "stdin"
  /\ \/ \E k \in 0..Len(typed) :
          /\ got' = got \o SubSeq(typed, 1, k)
          /\ typed' = SubSeq(typed, k + 1, Len(typed))
          /\ UNCHANGED stdin
     \/ typed # <<>> /\ ~slave /\ typed' = <<>> /\ stdin' = FALSE /\ UNCHANGED got
  /\ UNCHANGED <<setup, result, sandbox, signals, output, all, keys, hung, chunk, held, aged>>

(* Keys are read only where none waited for the pty.  A host terminal that *)
(* hung up ends the reading, with the pty's end-of-file character where it *)
(* has one.                                                                *)
ServeStdin ==
  /\ pc = "stdin"
  /\ \/ /\ stdin /\ "out" \notin polled /\ keys # <<>>
        /\ pc' = "feed" /\ chunk' = keys /\ keys' = <<>>
        /\ UNCHANGED <<stdin, typed>>
     \/ /\ stdin /\ "out" \notin polled /\ keys = <<>> /\ hung
        /\ pc' = "pty" /\ stdin' = FALSE
        /\ typed' \in {<<>>, <<"eof">>}
        /\ UNCHANGED <<chunk, keys>>
     \/ /\ ~stdin \/ "out" \in polled \/ (keys = <<>> /\ ~hung)
        /\ pc' = "pty"
        /\ UNCHANGED <<stdin, chunk, keys, typed>>
  /\ UNCHANGED <<setup, result, sandbox, signals, output, all, hung, held, aged, got>>

Before == IF aged THEN Escapes(held) ELSE <<>>
Run    == IF aged THEN 1 ELSE held + 1

(* Escape.feed(), a key at a time: escapes are held back until the run is  *)
(* complete, and detaches, or cannot be any more.                          *)
Feed ==
  /\ pc = "feed"
  /\ \/ chunk = <<>> /\ pc' = "pty" /\ UNCHANGED <<chunk, held, aged, typed, limit, result>>
     \/ /\ chunk # <<>> /\ Head(chunk) # "esc"
        /\ typed' = typed \o Escapes(held) \o <<Head(chunk)>>
        /\ held' = 0 /\ aged' = FALSE
        /\ chunk' = Tail(chunk)
        /\ UNCHANGED <<pc, limit, result>>
     \/ /\ chunk # <<>> /\ Head(chunk) = "esc"
        /\ typed' = typed \o Before
        /\ chunk' = Tail(chunk)
        /\ aged' = FALSE
        /\ IF Run = DetachRun
           THEN held' = 0 /\ pc' = "finish" /\ result' = "detached" /\ limit' = DrainMax
           ELSE held' = Run /\ UNCHANGED <<pc, limit, result>>
  /\ UNCHANGED <<setup, sandbox, signals, pending, dest, taken, dropped, reading, polled, quiet,
                 all, keys, hung, stdin, got>>

Least(a, b) == IF a < b THEN a ELSE b
ChunkRead == Least(pty, Chunk)

(* One read of the pty: a chunk of what is there, or the end of it.        *)
ReadPty(next, last) ==
  \/ pty > 0 /\ pty' = pty - ChunkRead /\ next /\ UNCHANGED reading
  \/ pty = 0 /\ ~slave /\ reading' = FALSE /\ last /\ UNCHANGED pty

(* A hang-up is reported whether or not it was asked for: a pty polled for *)
(* the typed keys only is read all the same.                               *)
Readable == reading /\ \/ "in" \in polled /\ (pty > 0 \/ ~slave)
                       \/ polled # {} /\ ~slave

(* What is read is held, and offered to the host at once.                  *)
ServePty ==
  /\ pc = "pty"
  /\ pc' = "until" /\ polled' = {}
  /\ \/ Readable /\ ReadPty(Flush(pending + ChunkRead), UNCHANGED <<pending, dest, taken>>)
     \/ ~Readable /\ UNCHANGED <<pty, pending, dest, taken, reading>>
  /\ UNCHANGED <<setup, result, slave, made, status, signals, limit, dropped, quiet, keyboard>>

-----------------------------------------------------------------------------
(* drain(): the host is offered what is held and, while there is room, the *)
(* pty is read.                                                            *)
DrainFlush ==
  /\ pc = "drain" /\ reading /\ dest # "none"
  /\ Flush(pending)
  /\ UNCHANGED <<control, sandbox, signals, limit, dropped, reading, polled, quiet, keyboard>>

DrainRead ==
  /\ pc = "drain" /\ reading /\ dest # "none" /\ ~Full
  /\ ReadPty(pending' = pending + ChunkRead, UNCHANGED pending)
  /\ UNCHANGED <<control, slave, made, status, signals, limit, dest, taken, dropped,
                 polled, quiet, keyboard>>

(* There is nothing left to read or DRAIN has passed.                      *)
DrainOver ==
  /\ pc = "drain"
  /\ pc' = "finish"
  /\ UNCHANGED <<setup, result, sandbox, signals, output, keyboard>>

(* Out.finish(): the host is offered what is held as long as it takes it.  *)
Finish ==
  /\ pc = "finish"
  /\ Flush(pending)
  /\ pc' = IF pending' = 0 \/ dest' = "none" THEN "done" ELSE "finish"
  /\ UNCHANGED <<setup, result, sandbox, signals, keyboard, limit, dropped, reading, polled,
                 quiet>>

(* Mutant: a host that takes nothing is only given up on in a stop.         *)
GiveUpOnStop ==
  /\ pc = "finish" /\ pending > 0 /\ dest = "host" /\ stopping
  /\ dropped' = dropped + pending /\ pending' = 0
  /\ pc' = "done"
  /\ UNCHANGED <<setup, result, sandbox, signals, keyboard, limit, dest, taken, reading,
                 polled, quiet>>

(* give_up(): STALL, FLUSH_MAX or, in a stop, HURRY has passed.            *)
GiveUp ==
  /\ pc = "finish" /\ pending > 0 /\ dest = "host"
  /\ dropped' = dropped + pending /\ pending' = 0
  /\ pc' = "done"
  /\ UNCHANGED <<setup, result, sandbox, signals, keyboard, limit, dest, taken, reading,
                 polled, quiet>>

-----------------------------------------------------------------------------
(* The sandbox and the user.                                               *)
Write(n) ==
  /\ slave /\ pty + n <= PtyMax /\ made + n <= MaxOut
  /\ pty' = pty + n /\ made' = made + n
  /\ UNCHANGED <<control, slave, status, signals, output, keyboard>>

CloseSlave ==
  /\ slave /\ slave' = FALSE
  /\ UNCHANGED <<control, pty, made, status, signals, output, keyboard>>

(* bwrap exits once nothing of the sandbox is left; an exec'd command may  *)
(* leave processes behind that hold its terminal.                          *)
StatusArrives ==
  /\ ~status /\ (exec \/ ~slave)
  /\ status' = TRUE
  /\ UNCHANGED <<control, slave, pty, made, signals, output, keyboard>>

StopSignal ==
  /\ ~stop /\ ~stopping
  /\ stop' = TRUE
  /\ UNCHANGED <<control, sandbox, stopping, winch, hostSize, size, ptySize, output, keyboard>>

HostResizes ==
  /\ hostSize < MaxResizes
  /\ hostSize' = hostSize + 1 /\ winch' = TRUE
  /\ UNCHANGED <<control, sandbox, stop, stopping, size, ptySize, output, keyboard>>

TypeKey(b) ==
  /\ ~hung /\ Len(all) < MaxKeys
  /\ all' = Append(all, b) /\ keys' = Append(keys, b)
  /\ UNCHANGED <<control, sandbox, signals, output, hung, stdin, chunk, held, aged, typed, got>>

HangUp ==
  /\ ~hung /\ hung' = TRUE
  /\ UNCHANGED <<control, sandbox, signals, output, all, keys, stdin, chunk, held, aged, typed,
                 got>>

(* A second has passed since the first escape held.                        *)
WindowPasses ==
  /\ held > 0 /\ ~aged /\ aged' = TRUE
  /\ UNCHANGED <<control, sandbox, signals, output, all, keys, hung, stdin, chunk, held, typed,
                 got>>

-----------------------------------------------------------------------------
Relay == Until \/ TakeWinch \/ GetSize \/ SetSize \/ ServeOut \/ ServeTyped \/ ServeStdin \/ Feed \/ ServePty

Ending == DrainFlush \/ DrainRead \/ DrainOver \/ Finish \/ GiveUp

Outside ==
  /\ pc # "done"
  /\ \/ \E n \in 1..PtyMax : Write(n)
     \/ CloseSlave \/ StatusArrives \/ StopSignal \/ HostResizes \/ HangUp \/ WindowPasses
     \/ \E b \in {"x", "esc"} : TypeKey(b)

Ended == pc = "done" /\ UNCHANGED vars

Next == Relay \/ Ending \/ Outside \/ Ended

(* The hand-over no longer depends on the host.                            *)
FinishAlone == Finish /\ (pending = 0 \/ dest # "host")

(* The thread is scheduled and deadlines pass; nothing is assumed of the   *)
(* host, which may never take a unit.                                      *)
Fairness == WF_vars(Relay) /\ WF_vars(DrainOver) /\ WF_vars(GiveUp) /\ WF_vars(FinishAlone)

Spec == Init /\ [][Next]_vars
FairSpec == Spec /\ Fairness

-----------------------------------------------------------------------------
TypeOK ==
  /\ pc \in Locations /\ exec \in BOOLEAN /\ tty \in BOOLEAN
  /\ result \in {"none", "exited", "signalled", "detached"}
  /\ slave \in BOOLEAN /\ pty \in 0..PtyMax /\ made \in 0..MaxOut /\ status \in BOOLEAN
  /\ stop \in BOOLEAN /\ stopping \in BOOLEAN /\ winch \in BOOLEAN
  /\ hostSize \in 0..MaxResizes /\ size \in 0..MaxResizes /\ ptySize \in 0..MaxResizes
  /\ pending \in Nat /\ limit \in {PendingMax, DrainMax}
  /\ dest \in {"host", "sink", "none"}
  /\ taken \in Nat /\ dropped \in Nat
  /\ reading \in BOOLEAN /\ polled \subseteq {"in", "out"} /\ quiet \in BOOLEAN
  /\ all \in Seq({"x", "esc"}) /\ keys \in Seq({"x", "esc"}) /\ chunk \in Seq({"x", "esc"})
  /\ hung \in BOOLEAN /\ stdin \in BOOLEAN
  /\ held \in 0..(DetachRun - 1) /\ aged \in BOOLEAN
  /\ typed \in Seq({"x", "esc", "eof"}) /\ got \in Seq({"x", "esc", "eof"})

(* give_up() is "the one place output is dropped, and it is always         *)
(* announced": every unit is still in the pty, held, with the host, with   *)
(* the sink that replaced it, or announced as dropped; and at the end none *)
(* is held.                                                                *)
Accounted ==
  /\ made = pty + pending + taken + dropped
  /\ pc = "done" /\ dest # "none" => pending = 0

(* "Up to 64 KiB of output waits here, and beyond that the pty is left     *)
(* unread": one chunk more than the limit at most, as long as the pty is   *)
(* open, and no more than what it buffered on top once it has hung up.     *)
HoldBounded ==
  result = "none" =>
    /\ slave => pending < PendingMax + Chunk
    /\ pending < PendingMax + Chunk + PtyMax

(* DRAIN_MAX is enough: when the sandbox is gone by the time its status is *)
(* seen, what the kernel still buffers is never left unread for want of    *)
(* room, however little the host takes.                                    *)
DrainHasRoom == pc = "drain" /\ quiet /\ result = "exited" => ~Full \/ pty = 0

(* Escape: "a ^] the user meant for the app still arrives, just late": as  *)
(* long as the sandbox has its terminal, every key typed reaches it, once  *)
(* and in order, whatever was held back, with at most one end-of-file      *)
(* character between them; the keys of a completed detach excepted.        *)
Sent == got \o typed
Kept == Escapes(held) \o chunk \o keys
KeysInOrder ==
  slave /\ result # "detached" =>
    \/ Sent \o Kept = all
    \/ \E i \in 1..Len(Sent) :
         /\ Sent[i] = "eof"
         /\ SubSeq(Sent, 1, i - 1) \o SubSeq(Sent, i + 1, Len(Sent)) \o Kept = all

(* What the user and the command are owed while the host takes as little   *)
(* as it likes: output accounted for, held within its bound and never left *)
(* in the kernel for want of room, and every key in order (Out, Escape).   *)
OutputKept == Accounted /\ HoldBounded /\ DrainHasRoom /\ KeysInOrder

(* The relay ends with the command, or in an exec with the signal, even if *)
(* the host never takes another unit and the sandbox never stops writing.  *)
EndsWithCommand == status \/ (exec /\ stop) ~> pc = "done"

(* The last size of the window reaches the pty: a resize between the flag  *)
(* and the copy is not lost, nor one while the output is held up.          *)
SizeFollows == tty /\ ptySize # hostSize ~> (ptySize = hostSize \/ hung \/ result # "none")

(* What must eventually happen in relay(): it ends with the command, and   *)
(* until then the pty follows the window's size.                           *)
RelayEnds == EndsWithCommand /\ SizeFollows


-----------------------------------------------------------------------------
(* The user's descriptors.                                                  *)

CONSTANTS Callers   \* what the user may start bubbler with: see caller

Fds == 1..3      \* stdin, stdout, stderr

(* Each fd has a description behind it, and no description is called what a *)
(* target is called.                                                        *)
ASSUME CallersAssumption ==
  \A c \in Callers :
    /\ c.behind \in [Fds -> DOMAIN c.kind]
    /\ DOMAIN c.kind \cap {"slave", "inherit", "null", "pipe"} = {}

VARIABLES
  caller,   \* [mode, behind, kind, access, reopens]: the mode, the description behind each fd, and of each description
  at,       \* where the run is
  block,    \* description -> it blocks: the flag every holder of it shares
  raw,      \* the terminal is in raw mode
  guard,    \* RawGuard.saved, <<>> once it was restored
  given,    \* the settings the pty was given: "none", "cooked" or "raw"
  inside,   \* what the sandbox was handed: fd -> description or target
  own,      \* destinations with a description of the relay's own
  saved,    \* destinations -> the flag of the host's to put back, <<>> for none
  left      \* destinations still to read, to set or to put back
iovars == <<caller, at, block, raw, guard, given, inside, own, saved, left>>

IsTty(fd) == caller.kind[caller.behind[fd]] = "tty"
Writable(fd) == caller.access[caller.behind[fd]] # "read"
Seekable(fd) == caller.kind[caller.behind[fd]] = "file"

(* plan(): each fd on its own, from the mode and whether it is a terminal.  *)
Target(fd) ==
  CASE caller.mode = "pty" -> IF IsTty(fd) THEN "slave" ELSE "inherit"
    [] caller.mode = "passthrough" -> "inherit"
    [] OTHER -> IF fd = 1 THEN "null" ELSE "pipe"
needs_pty == \E fd \in Fds : Target(fd) = "slave"
ctty == Target(1) = "slave"
raw_mode == ctty
\* The first of stdout, stderr and stdin the pty stands in for, if any can be written.
output_fd ==
  LET order == <<2, 3, 1>>
      I == {i \in 1..3 : Target(order[i]) = "slave" /\ Writable(order[i])}
  IN {order[i] : i \in {k \in I : \A j \in I : k <= j}}
Dests == IF needs_pty THEN output_fd ELSE {fd \in Fds : Target(fd) = "pipe"}
\* reopen(): not a socket, nothing seekable, nothing it was not given to write.
reopen(fd) == Writable(fd) /\ ~Seekable(fd) /\ caller.reopens /\ caller.kind[caller.behind[fd]] # "socket"

\* A blocking description at first, a terminal in its own settings; nothing is
\* a terminal where the caller's stderr was put aside for the log.
StdioInit ==
  /\ caller \in Callers
  /\ at = "plan" /\ block = [d \in DOMAIN caller.kind |-> TRUE]
  /\ raw = FALSE /\ guard = <<>> /\ given = "none" /\ inside = <<>>
  /\ own = {} /\ saved = [fd \in Fds |-> <<>>] /\ left = {}

allocate ==
  /\ at = "plan" /\ at' = "raw"
  /\ given' = IF needs_pty THEN IF raw THEN "raw" ELSE "cooked" ELSE "none"
  /\ inside' = [fd \in Fds |-> IF Target(fd) = "inherit" THEN caller.behind[fd] ELSE Target(fd)]
  /\ UNCHANGED <<caller, block, raw, guard, own, saved, left>>
RawGuard ==
  /\ at = "raw" /\ at' = "read"
  /\ IF raw_mode THEN guard' = <<raw>> /\ raw' = TRUE ELSE UNCHANGED <<guard, raw>>
  /\ left' = Dests
  /\ UNCHANGED <<caller, block, given, inside, own, saved>>

(* NonBlocking::new(): every flag that has to change is read before any of  *)
(* them is changed.                                                         *)
\* Mutant: each is changed as it is read.
ReadAndSet(fd) ==
  /\ at = "read" /\ fd \in left /\ left' = left \ {fd}
  /\ IF reopen(fd) THEN own' = own \cup {fd} /\ UNCHANGED <<saved, block>>
     ELSE /\ saved' = [saved EXCEPT ![fd] = <<block[caller.behind[fd]]>>]
          /\ block' = [block EXCEPT ![caller.behind[fd]] = FALSE] /\ UNCHANGED own
  /\ UNCHANGED <<caller, at, raw, guard, given, inside>>
ReadFlags(fd) ==
  /\ at = "read" /\ fd \in left /\ left' = left \ {fd}
  /\ IF reopen(fd) THEN own' = own \cup {fd} /\ UNCHANGED saved
     ELSE saved' = [saved EXCEPT ![fd] = <<block[caller.behind[fd]]>>] /\ UNCHANGED own
  /\ UNCHANGED <<caller, at, block, raw, guard, given, inside>>
Unblock ==
  /\ at = "read" /\ left = {}
  /\ at' = "set" /\ left' = {fd \in Fds : saved[fd] # <<>>}
  /\ UNCHANGED <<caller, block, raw, guard, given, inside, own, saved>>
SetFlags(fd) ==
  /\ at = "set" /\ fd \in left /\ left' = left \ {fd}
  /\ block' = [block EXCEPT ![caller.behind[fd]] = FALSE]
  /\ UNCHANGED <<caller, at, raw, guard, given, inside, own, saved>>
Relaying ==
  /\ at = "set" /\ left = {} /\ at' = "relay"
  /\ UNCHANGED <<caller, block, raw, guard, given, inside, own, saved, left>>

(* The relay ends, or anything fails: what is open is dropped, the last     *)
(* first.  After a detach the relay goes on with the sink.                  *)
End ==
  /\ at \in {"raw", "relay"}
  /\ at' = "back" /\ left' = {fd \in Fds : saved[fd] # <<>>}
  /\ UNCHANGED <<caller, block, raw, guard, given, inside, own, saved>>
PutBack(fd) ==
  /\ at = "back" /\ fd \in left /\ left' = left \ {fd}
  /\ block' = [block EXCEPT ![caller.behind[fd]] = saved[fd][1]]
  /\ saved' = [saved EXCEPT ![fd] = <<>>]
  /\ UNCHANGED <<caller, at, raw, guard, given, inside, own>>
restore ==
  /\ at = "back" /\ left = {} /\ at' = "done"
  /\ IF guard = <<>> THEN UNCHANGED raw ELSE raw' = guard[1]
  /\ guard' = <<>> /\ own' = {}
  /\ UNCHANGED <<caller, block, given, inside, saved, left>>
Kill ==
  /\ at \notin {"done", "killed"} /\ at' = "killed"
  /\ UNCHANGED <<caller, block, raw, guard, given, inside, own, saved, left>>

StdioNext ==
  \/ allocate \/ RawGuard \/ Unblock \/ Relaying \/ End \/ restore \/ Kill
  \/ \E fd \in Fds : ReadFlags(fd) \/ SetFlags(fd) \/ PutBack(fd)
StdioSpec == StdioInit /\ [][StdioNext]_iovars

-----------------------------------------------------------------------------
(* The user gets back what was theirs: whichever way the run ends, every    *)
(* description they share blocks as it did and the terminal is out of raw   *)
(* mode, two fds on one description included; a SIGKILL leaves a flag       *)
(* behind only on a description nothing else can be opened for; and the pty *)
(* was given the terminal's own settings, not raw ones (NonBlocking and     *)
(* RawGuard, tty.rs).                                                       *)
PutBackAll ==
  /\ at = "done" => ~raw /\ \A d \in DOMAIN block : block[d]
  /\ at = "killed" => \A d \in DOMAIN block : ~block[d] =>
       \E fd \in Fds : caller.behind[fd] = d /\ (~caller.reopens \/ caller.kind[d] \in {"socket", "file"} \/ ~Writable(fd))
  /\ given # "raw"
(* While the relay runs, no write of it waits for a reader: each            *)
(* destination is a description of its own or one that does not block, so   *)
(* a terminal that stops reading never stops the loop; and none of them     *)
(* would start over at the front of a file, or write where the user's fd    *)
(* could not (reopen(), tty.rs).  Nothing of a terminal is in the sandbox   *)
(* but under `passthrough`.                                                 *)
NeverWaits ==
  /\ at = "relay" => \A fd \in Dests :
       /\ fd \in own \/ ~block[caller.behind[fd]]
       /\ fd \in own => Writable(fd) /\ ~Seekable(fd)
  /\ inside # <<>> /\ caller.mode # "passthrough" =>
       \A fd \in Fds : inside[fd] \in DOMAIN caller.kind => caller.kind[inside[fd]] # "tty"
(* bubbler borrows the user's descriptors and nothing more: what it changed *)
(* is put back, and while it runs neither side can make the other wait.     *)
GivenBack == PutBackAll /\ NeverWaits

-----------------------------------------------------------------------------
(* The two halves of a run's terminal, for TLC.  They share no state, so a  *)
(* behaviour runs one of them (part) and leaves the other where it starts.  *)
VARIABLE part

(* Two open file descriptions behind fds 0, 1 and 2 in every way; a        *)
(* terminal, or a pipe, socket or file that may be open one way only.      *)
Descriptions == {"a", "b"}
Open == {<<"tty", "rw">>, <<"tty", "read">>, <<"pipe", "read">>, <<"pipe", "write">>,
         <<"socket", "rw">>, <<"file", "write">>, <<"file", "read">>}
MCCallers ==
  {[mode |-> m, behind |-> f, reopens |-> r,
    kind |-> [d \in Descriptions |-> o[d][1]], access |-> [d \in Descriptions |-> o[d][2]]] :
     m \in {"pty", "passthrough", "none"}, f \in [1..3 -> Descriptions], r \in BOOLEAN,
     o \in [Descriptions -> Open]}

IdleStdio ==
  /\ caller = CHOOSE c \in Callers : TRUE
  /\ at = "plan" /\ block = <<>> /\ raw = FALSE /\ guard = <<>> /\ given = "none"
  /\ inside = <<>> /\ own = {} /\ saved = <<>> /\ left = {}

(* What a behaviour of the relay may meet: much output; some of everything;*)
(* many keys.  These bound the user and the sandbox, never the relay.      *)
Meets == [output |-> [out |-> 5, keys |-> 0, sizes |-> 0],
          mixed  |-> [out |-> 1, keys |-> 1, sizes |-> 1],
          keys   |-> [out |-> 1, keys |-> 2, sizes |-> 0],
          sizes  |-> [out |-> 1, keys |-> 0, sizes |-> 2]]

OneRelay == CHOOSE s \in [exec : BOOLEAN, tty : BOOLEAN, stdin : BOOLEAN] : TRUE
MCInit ==
  /\ Init
  /\ \/ part \in DOMAIN Meets /\ IdleStdio
     \/ /\ part = "stdio" /\ StdioInit
        /\ exec = OneRelay.exec /\ tty = OneRelay.tty /\ stdin = OneRelay.stdin
RelayStep ==
  /\ part \in DOMAIN Meets /\ Next
  /\ made' <= Meets[part].out /\ Len(all') <= Meets[part].keys /\ hostSize' <= Meets[part].sizes
  /\ UNCHANGED <<part, iovars>>
StdioStep == part = "stdio" /\ StdioNext /\ UNCHANGED <<part, vars>>
StdioOver == part = "stdio" /\ at \in {"done", "killed"} /\ UNCHANGED <<part, vars, iovars>>
MCNext == RelayStep \/ StdioStep \/ StdioOver
MCSpec == MCInit /\ [][MCNext]_<<part, vars, iovars>> /\ Fairness
=============================================================================
