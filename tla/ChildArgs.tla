----------------------------- MODULE ChildArgs -----------------------------
(***************************************************************************)
(* The command lines bubbler writes for the processes it starts and how    *)
(* each of them reads its own: the supervisor behind bwrap (bwrap.rs,      *)
(* init/main.rs), the Wayland proxy (wayland.rs, wl-proxy/main.rs) and the *)
(* egress proxy (network.rs, net-proxy/main.rs); and the line a user types *)
(* at a prompt of the text interface (ui: input.rs, app.rs).  A word is a  *)
(* string, a number the string of it, a typed line a sequence of           *)
(* characters ("keep=" is one, nothing looks into it); a refusal is <<>>,  *)
(* a result <<x>>.                                                         *)
(***************************************************************************)
EXTENDS Naturals, Sequences, SequencesExt, FiniteSets

CONSTANTS
  Numbers,    \* words that are numbers not below 0
  BadPorts,   \* of those, the ones no socket is bound to
  Addresses,  \* words that are an IP address
  INIT_INSIDE

Opt(cond, words) == IF cond THEN words ELSE <<>>

(* --------------------------- bwrap and its command ---------------------- *)

\* The operations of the phases in their order, each a sequence of words.
emit(ops) == ops.namespaces \o ops.skeleton \o ops.runtime_dir \o ops.binds \o ops.masks \o ops.env
init_args(p) ==
  <<"--socket-fd", p.socket>> \o Opt(p.ctty, <<"--ctty">>)
  \o Opt(p.x11 # <<>>, <<"--x11">> \o p.x11 \o <<"--">> \o Opt(p.wm # <<>>, <<"--wm">> \o p.wm))
  \o <<"--">> \o p.command
command_at(ops, args) == Len(FlattenSeq(ops))
finish(p) ==
  LET ops == emit(p.ops)
      args == FlattenSeq(ops) \o <<"--", INIT_INSIDE>> \o init_args(p)
      at == command_at(ops, args)
  IN [options |-> SubSeq(args, 1, at), command |-> SubSeq(args, at + 1, Len(args))]

(* ------------------------------- grammars ------------------------------- *)

\* An option read once, or again; with a value or without; a list ends at its
\* own "--"; `rest` says whether a bare "--" begins the command.
RECURSIVE scan(_, _, _)
scan(words, g, acc) ==
  LET w == words[1]
      free == w \in DOMAIN acc /\ (w \in g.again \/ acc[w] = <<>>)
      ends == {i \in 2..Len(words) : words[i] = "--"}
      end == IF ends = {} THEN Len(words) + 1 ELSE CHOOSE i \in ends : \A j \in ends : i <= j
      list == SubSeq(words, 2, end - 1)
  IN CASE words = <<>> -> <<acc>>
       [] words # <<>> /\ g.rest /\ w = "--" -> <<[acc EXCEPT !["--"] = Tail(words)]>>
       [] words # <<>> /\ w \in g.switches /\ free -> scan(Tail(words), g, [acc EXCEPT ![w] = <<"on">>])
       [] words # <<>> /\ w \in g.values /\ free /\ Len(words) > 1 ->
            scan(SubSeq(words, 3, Len(words)), g,
                 [acc EXCEPT ![w] = IF w \in g.last THEN <<words[2]>> ELSE Append(@, words[2])])
       [] words # <<>> /\ w \in g.lists /\ free ->
            IF list = <<>> THEN <<>> ELSE scan(SubSeq(words, end + 1, Len(words)), g, [acc EXCEPT ![w] = list])
       [] OTHER -> <<>>
Start(g) == [w \in g.switches \cup g.values \cup g.lists \cup {"--"} |-> <<>>]
Distinct(fds) == \A i, j \in DOMAIN fds : i # j => fds[i] # fds[j]

\* bubbler-init: a second --socket-fd replaces the first.
InitGrammar == [switches |-> {"--ctty"}, values |-> {"--socket-fd", "--x11-socket", "--wm"}, lists |-> {"--x11"},
                again |-> {"--ctty", "--socket-fd"}, last |-> {"--socket-fd"}, rest |-> TRUE]
init_parse(words) ==
  LET read == scan(words, InitGrammar, Start(InitGrammar))
      a == read[1]
  IN IF read = <<>> THEN <<>>
     ELSE IF \/ a["--x11"] = <<>> /\ (a["--x11-socket"] # <<>> \/ a["--wm"] # <<>>)
             \/ a["--"] = <<>> \/ a["--socket-fd"] = <<>> THEN <<>>
     ELSE IF a["--socket-fd"][1] \notin Numbers THEN <<>> ELSE <<a>>

\* bubbler-wl-proxy: each option once, no descriptor twice.
WlGrammar == [switches |-> {"--fallback-deny"}, values |-> {"--listen-fd", "--upstream", "--gate", "--log-fd", "--ready-fd"},
              lists |-> {}, again |-> {}, last |-> {}, rest |-> FALSE]
wl_parse(words) ==
  LET read == scan(words, WlGrammar, Start(WlGrammar))
      a == read[1]
      fds == a["--listen-fd"] \o a["--log-fd"] \o a["--ready-fd"]
  IN IF read = <<>> THEN <<>>
     ELSE IF a["--listen-fd"] = <<>> \/ a["--upstream"] = <<>> \/ a["--gate"] \notin {<<"paste">>, <<"open">>} THEN <<>>
     ELSE IF Range(fds) \subseteq Numbers /\ Distinct(fds) THEN <<a>> ELSE <<>>

\* bubbler-net-proxy.
NetGrammar == [switches |-> {"--log-tunnels"}, values |-> {"--allow", "--dns", "--port", "--ready-fd", "--log-fd"},
               lists |-> {}, again |-> {"--allow", "--dns"}, last |-> {}, rest |-> FALSE]
net_parse(words) ==
  LET read == scan(words, NetGrammar, Start(NetGrammar))
      a == read[1]
      fds == a["--ready-fd"] \o a["--log-fd"]
  IN IF read = <<>> THEN <<>>
     ELSE IF a["--allow"] = <<>> \/ a["--dns"] = <<>> \/ a["--port"] = <<>> \/ a["--ready-fd"] = <<>> THEN <<>>
     ELSE IF /\ Range(a["--dns"]) \subseteq Addresses /\ a["--port"][1] \in Numbers \ BadPorts
             /\ Range(fds) \subseteq Numbers /\ Distinct(fds) THEN <<a>> ELSE <<>>

(* -------------------------------- sidecars ------------------------------ *)

\* ProxyPlan::context and ::fallback, and the gate's word.
context_plan(clipboard) == [upstream |-> "wayland-context", context |-> TRUE, clipboard |-> clipboard]
fallback_plan(session, clipboard) == [upstream |-> session, context |-> FALSE, clipboard |-> clipboard]
command_nodes(p, listen, ready) ==
  <<"--listen-fd", listen, "--upstream", p.upstream, "--gate", p.clipboard>>
  \o Opt(~p.context, <<"--fallback-deny">>) \o <<"--log-fd", "2", "--ready-fd", ready>>
Flagged(flag, words) == FlattenSeq([i \in DOMAIN words |-> <<flag, words[i]>>])
net_proxy_words(p) ==
  Flagged("--allow", p.allow) \o Flagged("--dns", p.dns)
  \o <<"--port", p.port, "--ready-fd", p.ready, "--log-fd", p.log>> \o Opt(p.log_tunnels, <<"--log-tunnels">>)

-----------------------------------------------------------------------------
(* A child reads what bubbler meant, whatever words a command, a window     *)
(* manager or a variable is made of: the supervisor gets its socket, the   *)
(* display server and the command word for word, bwrap no word of it among *)
(* its options; and no descriptor a proxy is given is given it twice.       *)
On(cond) == IF cond THEN <<"on">> ELSE <<>>
InitHandedOver(p) ==
  LET argv == finish(p)
      a == init_parse(SubSeq(argv.command, 3, Len(argv.command)))
  IN /\ argv.options = FlattenSeq(emit(p.ops)) /\ SubSeq(argv.command, 1, 2) = <<"--", INIT_INSIDE>>
     /\ a # <<>> /\ a[1]["--socket-fd"] = <<p.socket>> /\ a[1]["--ctty"] = On(p.ctty)
     /\ a[1]["--x11"] = p.x11 /\ a[1]["--wm"] = p.wm /\ a[1]["--"] = p.command
WlHandedOver(p, listen, ready) ==
  LET a == wl_parse(command_nodes(p, listen, ready))
  IN IF Distinct(<<listen, ready, "2">>)
     THEN /\ a # <<>> /\ a[1]["--upstream"] = <<p.upstream>> /\ a[1]["--gate"] = <<p.clipboard>>
          /\ a[1]["--fallback-deny"] = On(~p.context) /\ a[1]["--listen-fd"] = <<listen>> /\ a[1]["--ready-fd"] = <<ready>>
     ELSE a = <<>>
NetHandedOver(p) ==
  LET a == net_parse(net_proxy_words(p))
  IN IF p.ready # p.log
     THEN /\ a # <<>> /\ a[1]["--allow"] = p.allow /\ a[1]["--dns"] = p.dns /\ a[1]["--port"] = <<p.port>>
          /\ a[1]["--ready-fd"] = <<p.ready>> /\ a[1]["--log-fd"] = <<p.log>> /\ a[1]["--log-tunnels"] = On(p.log_tunnels)
     ELSE a = <<>>

QUOTE == "\""
BACKSLASH == "\\"

(* -------------------------------- the line ------------------------------ *)

Line(v) == [v |-> v, at |-> Len(v)]
insert(i, c) == [v |-> InsertAt(i.v, i.at + 1, c), at |-> i.at + 1]
backspace(i) == IF i.at = 0 THEN i ELSE [v |-> RemoveAt(i.v, i.at), at |-> i.at - 1]
delete(i) == IF i.at < Len(i.v) THEN [i EXCEPT !.v = RemoveAt(@, i.at + 1)] ELSE i
clear_before(i) == [v |-> SubSeq(i.v, i.at + 1, Len(i.v)), at |-> 0]
Move(i, k) ==
  CASE k = "left" -> [i EXCEPT !.at = IF @ = 0 THEN 0 ELSE @ - 1]
    [] k = "right" -> [i EXCEPT !.at = IF @ < Len(i.v) THEN @ + 1 ELSE @]
    [] k = "home" -> [i EXCEPT !.at = 0]
    [] OTHER -> [i EXCEPT !.at = Len(i.v)]
Pressed(i, k) ==
  CASE k = "backspace" -> backspace(i) [] k = "delete" -> delete(i) [] k = "^u" -> clear_before(i)
    [] k \in {"left", "right", "home", "end"} -> Move(i, k) [] OTHER -> insert(i, k)
\* What a field `width` wide shows, and where the cursor is in it.
view(i, width) ==
  LET first == IF i.at + 1 > width THEN i.at + 1 - width ELSE 0
  IN IF width = 0 THEN [v |-> <<>>, at |-> 0] ELSE [v |-> SubSeq(i.v, first + 1, Len(i.v)), at |-> i.at - first]

(* -------------------------------- the words ----------------------------- *)

\* A split under way: the words so far, the one being read, whether there is
\* one, whether a quote is open, whether the next character is escaped.
Split(s, c) ==
  CASE s.escaped -> [s EXCEPT !.word = Append(@, c), !.on = TRUE, !.escaped = FALSE]
    [] ~s.escaped /\ c = BACKSLASH -> [s EXCEPT !.escaped = TRUE]
    [] ~s.escaped /\ c = QUOTE -> [s EXCEPT !.quoted = ~@, !.on = TRUE]
    [] ~s.escaped /\ c = " " /\ ~s.quoted ->
         IF s.on THEN [s EXCEPT !.words = Append(@, s.word), !.word = <<>>, !.on = FALSE] ELSE s
    [] OTHER -> [s EXCEPT !.word = Append(@, c), !.on = TRUE]
split(value) ==
  LET s == FoldLeft(Split, [words |-> <<>>, word |-> <<>>, on |-> FALSE, quoted |-> FALSE, escaped |-> FALSE], value)
  IN IF s.escaped \/ s.quoted THEN <<>> ELSE <<IF s.on THEN Append(s.words, s.word) ELSE s.words>>
DASHES == <<"-", "-">>
KEEP == "keep="
try_args(value) ==
  LET Keeps(w) == w # <<>> /\ w[1] = KEEP
      Option(w) == IF Keeps(w) THEN <<"--keep", Tail(w)>> ELSE <<"--grant", w>>
      Argv(profile, options, command) ==
        IF <<KEEP>> \in Range(options) THEN <<>>
        ELSE <<<<"try", "--profile", profile>> \o FlattenSeq([i \in DOMAIN options |-> Option(options[i])])
               \o IF command = <<>> THEN <<>> ELSE <<"--">> \o command>>
      Cut(words, at) == Argv(words[1], SubSeq(words, 2, at - 1), SubSeq(words, at + 1, Len(words)))
      Dashes(words) == {i \in 2..Len(words) : words[i] = DASHES}
      Of(words) == IF words = <<>> THEN <<>>
                   ELSE Cut(words, IF Dashes(words) = {} THEN Len(words) + 1 ELSE Min(Dashes(words)))
      Typed(typed) == IF typed = <<>> THEN <<>> ELSE Of(typed[1])
  IN Typed(split(value))

-----------------------------------------------------------------------------
(* A line of words, each held together by quotes.                           *)
Quoted(w) == <<QUOTE>> \o FlattenSeq([i \in DOMAIN w |-> IF w[i] \in {QUOTE, BACKSLASH} THEN <<BACKSLASH, w[i]>> ELSE <<w[i]>>]) \o <<QUOTE>>
Said(words) == FlattenSeq([i \in DOMAIN words |-> Quoted(words[i]) \o <<" ">>])
(* Every word there is can be typed and is read as it was typed, an empty   *)
(* one too; and no word of the command is one of bubbler's options.         *)
WordsAsTyped(words) ==
  LET After(argv, i) ==
        IF i = Len(words) THEN Len(argv) = 3 + 2 * (i - 1)
        ELSE SubSeq(argv, 2 * i + 2, Len(argv)) = <<"--">> \o SubSeq(words, i + 1, Len(words))
      Cut(argv) == argv # <<>> /\ DASHES \in Range(words) => After(argv[1], Min({i \in DOMAIN words : words[i] = DASHES}))
  IN split(Said(words)) = <<words>> /\ Cut(try_args(Said(<<<<"a">>>> \o words)))

(* The keys edit the text around the cursor, whatever their order: the same *)
(* keys on the text before it and the text after it give the same line, and *)
(* the cursor is always in what the field shows.                            *)
Around(z, k) ==
  CASE k = "backspace" -> <<IF z[1] = <<>> THEN z[1] ELSE Front(z[1]), z[2]>>
    [] k = "delete" -> <<z[1], IF z[2] = <<>> THEN z[2] ELSE Tail(z[2])>>
    [] k = "^u" -> <<<<>>, z[2]>>
    [] k = "left" -> IF z[1] = <<>> THEN z ELSE <<Front(z[1]), <<Last(z[1])>> \o z[2]>>
    [] k = "right" -> IF z[2] = <<>> THEN z ELSE <<Append(z[1], z[2][1]), Tail(z[2])>>
    [] k = "home" -> <<<<>>, z[1] \o z[2]>>
    [] k = "end" -> <<z[1] \o z[2], <<>>>>
    [] OTHER -> <<Append(z[1], k), z[2]>>
LineAsTyped(start, keys) ==
  LET Shown(s, i, width) == s.at < width /\ s.at <= Len(s.v) /\ IsSuffix(s.v, i.v)
      Alike(i, z) == /\ i.v = z[1] \o z[2] /\ i.at = Len(z[1])
                     /\ \A width \in 1..4 : Shown(view(i, width), i, width)
  IN Alike(FoldLeft(Pressed, Line(start), keys), FoldLeft(Around, <<start, <<>>>>, keys))
=============================================================================
