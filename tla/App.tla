-------------------------------- MODULE App --------------------------------
(***************************************************************************)
(* The text interface (ui: app.rs, main.rs): screens, dialogs and the keys *)
(* that change them, the commands a key asks for, and the store under them *)
(* that other processes change.  A handler takes the interface `u` (and    *)
(* the files it reads) to [ui, act, file]: what it left, the command it    *)
(* asks for (<<>> for none) and the files.  A key is [k, x]: `x` says what *)
(* the text typed, the row changed or the registry read comes to.  A file  *)
(* is its contents, "broken" (the parser refuses it) or "absent"; what an  *)
(* edit does to a buffer is ConfigDoc's. The bottom line and live column   *)
(* are left out.                                                           *)
(***************************************************************************)
EXTENDS Naturals, Sequences, SequencesExt, FiniteSets

CONSTANTS
  Names,       \* the instances there may be, in the order they are listed
  Buffers,     \* what a buffer may hold; "bad" is one the parser refuses
  PaneRows,    \* rows of the detail screen
  ProfileRows, \* rows of the profile screen
  Page, Report, \* lines the viewer shows and a report has
  MaxStarted, MaxOutside \* bounds: children at once, changes from outside

VARIABLES ui, file, started, outside,
          pressed      \* what the last step was of the user's
appvars == <<ui, file, started, outside, pressed>>

Contents == Buffers \cup {"broken", "absent"}
Opens(f, name) == f[name] \notin {"broken", "absent"}
Listed(f) == SelectSeq(Names, LAMBDA n : f[n] # "absent")
Least(a, b) == IF a < b THEN a ELSE b
Clamp(at, len) == IF len = 0 THEN 1 ELSE Least(at, len)

screen(u) == Last(u.stack)
push(u, s) == [u EXCEPT !.stack = Append(@, s)]
with_detail(u, d) == [u EXCEPT !.detail = <<d>>]
selected(u) == IF u.instance <= Len(u.rows) THEN <<u.rows[u.instance]>> ELSE <<>>
dirty(u) == u.detail # <<>> /\ u.detail[1].buf # u.detail[1].saved
last_page(len) == IF len > Page THEN len - Page ELSE 0

Done(u, f) == [ui |-> u, act |-> <<>>, file |-> f]
Does(u, a, f) == [ui |-> u, act |-> <<a>>, file |-> f]
capture(args) == [do |-> "capture", args |-> args, explain |-> <<>>, at_end |-> FALSE, failed |-> FALSE]
run_log(name, failed) == [capture(<<"log", name>>) EXCEPT !.at_end = TRUE, !.failed = failed]
explain_action(e) == [capture(<<"explain", e.name>>) EXCEPT !.explain = <<e>>]
detached(name) == [do |-> "detached", args |-> <<"run", name>>]
attached(args) == [do |-> "attached", args |-> args]
ask(u, prompt, name) ==
  [u EXCEPT !.dialog = <<[k |-> "ask", prompt |-> prompt, name |-> name,
                          row |-> IF u.detail = <<>> THEN 0 ELSE u.detail[1].selected]>>]
choose(u, choices) == [u EXCEPT !.dialog = <<[k |-> "choose", choices |-> choices]>>]

(* ------------------------------- the store ------------------------------ *)

back(u) ==
  LET s == IF Len(u.stack) > 1 THEN Front(u.stack) ELSE u.stack
  IN [u EXCEPT !.stack = s, !.viewer = IF Last(s) = "viewer" THEN @ ELSE <<>>,
               !.detail = IF Last(s) \in {"instances", "profiles"} THEN <<>> ELSE @]
open_detail(f, name) == [name |-> name, buf |-> f[name], saved |-> f[name], selected |-> 1]
reload_store(u, f) == [u EXCEPT !.rows = Listed(f), !.instance = Clamp(@, Len(Listed(f))), !.profile = Clamp(@, ProfileRows)]
\* Mutant: the buffer goes back to the file, whatever it holds.
ReloadAlways(u, f) ==
  LET s == reload_store(u, f)
  IN IF s.detail = <<>> THEN s
     ELSE IF Opens(f, s.detail[1].name) THEN [s EXCEPT !.detail = <<open_detail(f, s.detail[1].name)>>]
     ELSE back([s EXCEPT !.detail = <<>>])
reload(u, f) ==
  LET s == reload_store(u, f)
  IN IF s.detail = <<>> \/ dirty(s) THEN s
     ELSE IF Opens(f, s.detail[1].name) THEN [s EXCEPT !.detail = <<open_detail(f, s.detail[1].name)>>]
     ELSE back([s EXCEPT !.detail = <<>>])
show(u, explain, at_end) ==
  LET v == [u EXCEPT !.viewer = <<[len |-> Report, offset |-> IF at_end THEN last_page(Report) ELSE 0, explain |-> explain]>>]
  IN IF screen(u) = "viewer" THEN v ELSE push(v, "viewer")
exited(u, name, ok, f) ==
  IF ok \/ u.dialog # <<>> THEN Done(u, f) ELSE Does([u EXCEPT !.help = FALSE], run_log(name, TRUE), f)

(* --------------------------------- keys --------------------------------- *)

Moves == {"down", "up", "home", "end"}
common_key(k, len, at) ==
  LET last == IF len = 0 THEN 1 ELSE len
  IN CASE k = "down" -> Least(at + 1, last) [] k = "up" -> IF at = 1 THEN 1 ELSE at - 1
       [] k = "home" -> 1 [] OTHER -> last
instance_action(u, key, name, f) ==
  CASE key.k = "enter" -> Done(IF Opens(f, name) THEN push([u EXCEPT !.detail = <<open_detail(f, name)>>], "detail") ELSE u, f)
    [] key.k \in {"r", "o"} -> Does(u, detached(name), f)
    [] key.k = "x" -> Done(ask(u, "exec", name), f)
    [] key.k = "t" -> Done(ask(u, "try", name), f)
    [] key.k = "e" -> Does(u, attached(<<"edit", name>>), f)
    [] key.k = "l" -> Does(u, capture(<<"lint", name>>), f)
    [] key.k = "L" -> Does(u, run_log(name, FALSE), f)
    [] key.k = "X" -> Does(u, explain_action([name |-> name, full |-> FALSE, proxy |-> FALSE]), f)
    [] key.k = "d" -> Done(choose(u, {<<"y", <<"delete", name>>>>}), f)
    [] key.k = "R" -> Done(choose(u, {<<"y", <<"reseed", name>>>>}), f)
    [] key.k = "D" -> Done(choose(u, {<<c, <<"desktop", name>>>> : c \in {"w", "r", "x"}}), f)
    [] key.k = "W" ->
         Done(CASE key.x = "unreadable" -> u
                [] key.x = "some" -> choose(u, {<<"u", <<"unwrap", name>>>>, <<"a", <<"wrap_as", name>>>>})
                [] OTHER -> ask(u, "wrap", name), f)
    [] OTHER -> Done(u, f)
instances_key(u, key, f) ==
  CASE key.k \in Moves -> Done([u EXCEPT !.instance = common_key(key.k, Len(u.rows), @)], f)
    [] key.k \in {"q", "esc"} -> Does(u, [do |-> "quit"], f)
    [] key.k = "?" -> Done([u EXCEPT !.help = TRUE], f)
    [] key.k \in {"p", "n"} -> Done(push(u, "profiles"), f)
    [] OTHER -> IF selected(u) = <<>> THEN Done(u, f) ELSE instance_action(u, key, selected(u)[1], f)

\* Instance::save(): the file must be there, and what is written must parse.
save_detail(u, f) ==
  LET d == u.detail[1]
      g == [f EXCEPT ![d.name] = d.buf]
  IN IF f[d.name] = "absent" \/ d.buf = "bad" THEN Done(u, f)
     ELSE Done(reload_store(with_detail(u, [d EXCEPT !.saved = d.buf]), g), g)
detail_key(u, key, f) ==
  LET d == u.detail[1]
      Buf(b) == Done(with_detail(u, [d EXCEPT !.buf = b]), f)
  IN CASE u.detail = <<>> -> Done(u, f)
       [] u.detail # <<>> /\ key.k \in Moves -> Done(with_detail(u, [d EXCEPT !.selected = common_key(key.k, PaneRows, @)]), f)
       [] u.detail # <<>> /\ key.k \in {"space", "delete"} -> Buf(IF key.x \in Buffers THEN key.x ELSE d.buf)
       [] u.detail # <<>> /\ key.k = "enter" -> Done(ask(u, "node", d.name), f)
       [] u.detail # <<>> /\ key.k = "s" -> save_detail(u, f)
       [] u.detail # <<>> /\ key.k = "u" -> Buf(d.saved)
       [] u.detail # <<>> /\ key.k = "?" -> Done([u EXCEPT !.help = TRUE], f)
       [] u.detail # <<>> /\ key.k = "e" -> Does(u, attached(<<"edit", d.name>>), f)
       [] u.detail # <<>> /\ key.k = "l" -> Does(u, capture(<<"lint", d.name>>), f)
       [] u.detail # <<>> /\ key.k = "X" -> Does(u, explain_action([name |-> d.name, full |-> FALSE, proxy |-> FALSE]), f)
       [] u.detail # <<>> /\ key.k \in {"q", "esc"} ->
            Done(IF dirty(u) THEN choose(u, {<<"y", <<"discard">>>>}) ELSE back(u), f)
       [] OTHER -> Done(u, f)

profiles_key(u, key, f) ==
  CASE key.k \in Moves -> Done([u EXCEPT !.profile = common_key(key.k, ProfileRows, @)], f)
    [] key.k = "?" -> Done([u EXCEPT !.help = TRUE], f)
    [] key.k \in {"q", "esc"} -> Done(back(u), f)
    [] key.k \in {"enter", "l"} /\ ProfileRows > 0 -> Does(u, capture(<<"profile", u.profile>>), f)
    [] key.k = "e" /\ ProfileRows > 0 -> Does(u, attached(<<"profile", u.profile>>), f)
    [] key.k = "c" /\ ProfileRows > 0 -> Done(ask(u, "create", ""), f)
    [] OTHER -> Done(u, f)
viewer_key(u, key, f) ==
  LET v == u.viewer[1]
      e == v.explain[1]
      At(o) == Done([u EXCEPT !.viewer[1].offset = o], f)
  IN CASE u.viewer = <<>> -> Done(u, f)
       [] u.viewer # <<>> /\ key.k = "down" -> At(Least(v.offset + 1, last_page(v.len)))
       [] u.viewer # <<>> /\ key.k = "up" -> At(IF v.offset = 0 THEN 0 ELSE v.offset - 1)
       [] u.viewer # <<>> /\ key.k = "home" -> At(0)
       [] u.viewer # <<>> /\ key.k = "end" -> At(last_page(v.len))
       [] u.viewer # <<>> /\ key.k = "?" -> Done([u EXCEPT !.help = TRUE], f)
       [] u.viewer # <<>> /\ key.k \in {"q", "esc"} -> Done(back(u), f)
       [] u.viewer # <<>> /\ key.k = "f" /\ v.explain # <<>> -> Does(u, explain_action([e EXCEPT !.full = ~@]), f)
       [] u.viewer # <<>> /\ key.k = "p" /\ v.explain # <<>> -> Does(u, explain_action([e EXCEPT !.proxy = ~@]), f)
       [] OTHER -> Done(u, f)

(* -------------------------------- dialogs ------------------------------- *)

confirmed(u, c, f) ==
  CASE c[1] = "wrap_as" -> Done(ask(u, "wrap", c[2]), f)
    [] c[1] = "discard" -> Done(back([u EXCEPT !.detail = <<>>]), f)
    [] OTHER -> Does(u, capture(c), f)
\* A refused answer leaves the prompt open.
answered(u, x, f) ==
  LET d == u.dialog[1]
      shut == [u EXCEPT !.dialog = <<>>]
  IN CASE d.prompt \in {"create", "wrap"} -> Does(shut, capture(<<d.prompt, d.name>>), f)
       [] x = "refused" /\ d.prompt \notin {"create", "wrap"} -> Done(u, f)
       [] x # "refused" /\ d.prompt \in {"exec", "try"} -> Does(shut, attached(<<d.prompt, d.name>>), f)
       [] OTHER -> Done(IF u.detail = <<>> THEN u ELSE with_detail(shut, [u.detail[1] EXCEPT !.buf = x]), f)
dialog_key(u, key, f) ==
  LET d == u.dialog[1]
      shut == [u EXCEPT !.dialog = <<>>]
      found == {c \in d.choices : c[1] = key.k}
  IN CASE d.k = "choose" ->
            IF key.k \in {"esc", "n"} THEN Done(shut, f)
            ELSE IF found = {} THEN Done(u, f) ELSE confirmed(shut, (CHOOSE c \in found : TRUE)[2], f)
       [] OTHER -> IF key.k = "esc" THEN Done(shut, f) ELSE IF key.k = "enter" THEN answered(u, key.x, f) ELSE Done(u, f)
on_key(u, key, f) ==
  CASE u.help -> Done([u EXCEPT !.help = FALSE], f)
    [] ~u.help /\ u.dialog # <<>> -> dialog_key(u, key, f)
    [] ~u.help /\ u.dialog = <<>> /\ key.k = "^r" -> Does(u, [do |-> "reload"], f)
    [] OTHER -> CASE screen(u) = "instances" -> instances_key(u, key, f)
                  [] screen(u) = "detail" -> detail_key(u, key, f)
                  [] screen(u) = "profiles" -> profiles_key(u, key, f)
                  [] OTHER -> viewer_key(u, key, f)

(* --------------------------------- the loop ----------------------------- *)

\* What a command may leave of the files (external: the command line).
Ran(args, f) ==
  LET n == args[2]
      new == {m \in DOMAIN f : f[m] = "absent"}
  IN {f} \cup CASE args[1] = "delete" -> {[f EXCEPT ![n] = "absent"]}
                [] args[1] = "reseed" /\ f[n] # "absent" -> {[f EXCEPT ![n] = "c0"]}
                [] args[1] \in {"create", "try"} -> {[f EXCEPT ![m] = "c0"] : m \in new}
                [] args[1] = "edit" /\ f[n] # "absent" -> {[f EXCEPT ![n] = c] : c \in Contents \ {"absent", "bad"}}
                [] OTHER -> {}
\* perform(): a report of one line has no screen of its own.
Spend(r) ==
  LET a == r.act[1]
  IN IF r.act = <<>> THEN ui' = r.ui /\ file' = r.file /\ UNCHANGED started
     ELSE CASE a.do = "quit" -> ui' = [r.ui EXCEPT !.quit = TRUE] /\ file' = r.file /\ UNCHANGED started
            [] a.do = "reload" -> ui' = reload(r.ui, r.file) /\ file' = r.file /\ UNCHANGED started
            [] a.do = "detached" -> /\ Cardinality(started) < MaxStarted
                                    /\ started' \in {started, started \cup {a.args[2]}}
                                    /\ ui' = r.ui /\ file' = r.file
            [] a.do = "attached" -> /\ file' \in Ran(a.args, r.file)
                                    /\ ui' = reload(r.ui, file') /\ UNCHANGED started
            [] OTHER -> /\ UNCHANGED started
                        /\ \/ ui' = r.ui /\ file' = r.file
                           \/ /\ file' \in Ran(a.args, r.file)
                              /\ \/ ui' = reload(show(r.ui, a.explain, a.at_end), file')
                                 \/ ~a.at_end /\ a.explain = <<>> /\ ui' = reload(r.ui, file')
PlainKeys == Moves \cup {"esc", "q", "n", "y", "?", "p", "r", "x", "t", "e", "l", "L", "X", "d", "R", "D", "w", "a", "s", "u", "c", "f", "^r"}
AllKeys == [k : PlainKeys, x : {""}] \cup [k : {"space", "delete"}, x : Buffers \cup {"refused"}]
        \cup [k : {"enter"}, x : Buffers \cup {"refused"}] \cup [k : {"W"}, x : {"none", "some", "unreadable"}]
\* What the user did with a key, as far as a buffer goes.
Meant(k) == CASE k \in {"space", "delete", "enter", "u", "s"} -> "edits" [] k = "y" -> "confirms" [] OTHER -> ""
KeyPress == \E key \in AllKeys : Spend(on_key(ui, key, file)) /\ pressed' = Meant(key.k) /\ UNCHANGED outside
Reap ==
  \E n \in started, ok \in BOOLEAN :
    LET r == exited(ui, n, ok, file)
        a == r.act[1]
        gone == started \ {n}
    IN /\ pressed' = "" /\ started' = gone /\ file' = file /\ UNCHANGED outside
       /\ IF r.act = <<>> THEN ui' = r.ui ELSE ui' \in {r.ui, reload(show(r.ui, a.explain, a.at_end), file)}
Stop == ui' = [ui EXCEPT !.quit = TRUE] /\ pressed' = "signal" /\ UNCHANGED <<file, started, outside>>
\* Another command, or the user's own editor, changes a file.
Outside ==
  /\ outside < MaxOutside /\ outside' = outside + 1
  /\ \E n \in DOMAIN file, c \in Contents \ {"bad"} : file' = [file EXCEPT ![n] = c]
  /\ pressed' = "" /\ UNCHANGED <<ui, started>>

AppInit ==
  /\ file \in [Range(Names) -> {"c0", "absent"}]
  /\ ui = [stack |-> <<"instances">>, rows |-> Listed(file), instance |-> 1, profile |-> 1, detail |-> <<>>, viewer |-> <<>>,
           dialog |-> <<>>, help |-> FALSE, quit |-> FALSE]
  /\ started = {} /\ outside = 0 /\ pressed = ""
AppNext == ~ui.quit /\ (KeyPress \/ Reap \/ Stop \/ Outside)
AppSpec == AppInit /\ [][AppNext]_appvars

-----------------------------------------------------------------------------
(* Nothing the editor ran, and nothing that happened outside it, costs the   *)
(* user an edit: a buffer that differs from the file is changed or dropped   *)
(* only by a key that edits it, saves it, undoes it or confirms the loss     *)
(* (app.rs:345, "nothing the editor ran is a reason to drop them").          *)
EditsKept ==
  [][dirty(ui) =>
       \/ ui'.detail # <<>> /\ [ui'.detail[1] EXCEPT !.selected = 0] = [ui.detail[1] EXCEPT !.selected = 0] /\ ~ui'.quit
       \/ pressed' = "edits" /\ ui'.detail # <<>>
       \/ pressed' = "confirms" /\ ui.dialog # <<>>
       \/ pressed' = "signal"]_appvars
(* A line being typed is for the row it was asked for: no child that ends,   *)
(* no tick and no change outside takes the row from under the prompt         *)
(* (app.rs:375, "so the viewer does not take the input in progress").        *)
PromptStands ==
  ui.dialog # <<>> =>
    LET d == ui.dialog[1]
    IN /\ screen(ui) # "viewer"
       /\ d.k = "ask" => (d.prompt = "node" => /\ screen(ui) = "detail" /\ ui.detail # <<>>
                                               /\ ui.detail[1].name = d.name /\ ui.detail[1].selected = d.row)
(* The user's edits and the line being typed are theirs alone to give up.    *)
InputKept == EditsKept /\ []PromptStands
(* "A stack, so `Esc` always means back" (the comment at app.rs:81): on any  *)
(* screen it closes what is open, asks, goes back or leaves.                 *)
EscLeads == ~ui.quit => LET r == on_key(ui, [k |-> "esc", x |-> ""], file) IN r.ui # ui \/ r.act # <<>>
=============================================================================
