----------------------------- MODULE ConfigDoc -----------------------------
(***************************************************************************)
(* A whole config.kdl: what a file grants and keeps turned off             *)
(* (config.rs parse_doc), and what a config is written back as             *)
(* (kdl_out.rs).  A file is a sequence of lines, each a KDL node with or   *)
(* without the `/-` that keeps it without granting it.  A config holds one *)
(* sequence per section; a section of one holds what differs from the      *)
(* default, which is what a file spells.                                   *)
(*                                                                         *)
(* The second half is the detail pane of the text interface (detail.rs): a *)
(* config held as the grants it parsed to, changed a row at a time and     *)
(* written back whole.  The rows are the lines the config would be written *)
(* as, the rows that add another entry and the nodes it does not hold.     *)
(***************************************************************************)
EXTENDS Grammar

Sections == <<"lint_allow", "service", "env", "etc", "tmp", "tty", "userns", "seccomp",
              "desktop", "command">>
\* The value of a section that a file spells by leaving the node out.
Default == [etc |-> {"allowlist"}, tty |-> {"pty"}, userns |-> {"allow"}, seccomp |-> {NoSeccomp},
            tmp |-> {}, desktop |-> {}, command |-> {}]
Singles == DOMAIN Default
EmptyConfig == [s \in Range(Sections) \cup {"disabled"} |-> <<>>]

Sec(node) == CHOOSE s \in DOMAIN node : TRUE
section_rank(node) == CHOOSE i \in DOMAIN Sections : Sections[i] = Sec(node)
\* How many entries of the node's section are written so far.
before(cfg, node) == Len(cfg[Sec(node)])

(* ------------------------------- reading ------------------------------- *)

Keyed == [s \in {"home-share", "path-share"} |-> "path"] @@ ("etc-share" :> "name") @@ ("app-runtime" :> "id")
OnePerFile == {"wayland", "x11", "network", "gamepad", "camera", "dri", "dbus", "system-bus",
               "mpris", "portals"}
\* Whether a second node would grant the same thing.
Twice(held, svc) ==
  \E i \in DOMAIN held :
    /\ held[i].svc = svc.svc
    /\ IF svc.svc \in DOMAIN Keyed THEN held[i][Keyed[svc.svc]] = svc[Keyed[svc.svc]]
       ELSE svc.svc \in OnePerFile \/ held[i] = svc
Keys(pairs) == {pairs[i][1] : i \in DOMAIN pairs}
Ids(allows) == {allows[i].id : i \in DOMAIN allows}
Lists == {"env", "lint_allow"}      \* the sections a node may add several entries to
Refused(st, node) ==
  CASE Sec(node) = "service" -> Twice(st.cfg.service, node.service)
    [] Sec(node) = "env" -> Keys(st.cfg.env) \cap Keys(node.env) # {}
    [] Sec(node) = "lint_allow" -> Ids(st.cfg.lint_allow) \cap Ids(node.lint_allow) # {}
    [] OTHER -> Sec(node) \in st.seen
\* The entries a node adds to its section.
Adds(node) ==
  CASE Sec(node) \in Lists -> node[Sec(node)]
    [] Sec(node) \in Singles ->
         IF node[Sec(node)] \in Default[Sec(node)] THEN <<>> ELSE <<node[Sec(node)]>>
    [] OTHER -> <<node[Sec(node)]>>
Grant(st, node) ==
  IF Refused(st, node) THEN [st EXCEPT !.error = "duplicate"]
  ELSE [st EXCEPT !.cfg[Sec(node)] = @ \o Adds(node), !.seen = @ \cup {Sec(node)}]
\* A `/-` line is parsed as the node it holds, with none of the checks that
\* need the rest of the file, and remembers where in its section it stands.
disabled_in(st, nodes) ==
  [st EXCEPT !.cfg.disabled =
     @ \o [i \in DOMAIN nodes |-> [node |-> nodes[i], before |-> before(st.cfg, nodes[i])]]]
ReadLine(st, line, profile) ==
  LET Applied(parsed) ==
        CASE parsed = <<>> -> [st EXCEPT !.error = "bad"]
          [] line.off -> disabled_in(st, parsed[1])
          [] OTHER -> FoldLeft(LAMBDA s, n : IF s.error = "none" THEN Grant(s, n) ELSE s, st, parsed[1])
  IN CASE st.error # "none" -> st
       [] line.node.name = "include" ->
            IF ~line.off /\ profile /\ reject_types(line.node) /\ parse_include(line.node) # <<>>
            THEN [st EXCEPT !.includes = @ \o parse_include(line.node)]
            ELSE [st EXCEPT !.error = "bad"]
       [] OTHER -> Applied(parse_node(line.node))

Has(services, names) == \E i \in DOMAIN services : services[i].svc \in names
bundle_without_dbus(services) ==
  /\ Has(services, {"portals", "notify", "tray", "mpris", "a11y", "input-method"})
  /\ ~Has(services, {"dbus"})
camera_without_portals(services) == Has(services, {"camera"}) /\ ~Has(services, {"portals"})
nested_x11_without_display_stack(services) ==
  /\ \E i \in DOMAIN services : services[i].svc = "x11" /\ "host" \notin DOMAIN services[i]
  /\ ~(Has(services, {"wayland"}) /\ Has(services, {"dri"}))
\* A section is written back in one piece, so the list of what is turned off
\* follows the sections; inside one it follows the file.
SortUnsorted(disabled) == disabled
Sort(disabled) ==
  FlattenSeq([r \in DOMAIN Sections |-> SelectSeq(disabled, LAMBDA d : section_rank(d.node) = r)])

NoFile == [cfg |-> EmptyConfig, includes |-> <<>>, seen |-> {}, error |-> "none"]
parse_doc(lines, profile) ==
  LET Unmet(services) == \/ bundle_without_dbus(services)
                         \/ camera_without_portals(services)
                         \/ nested_x11_without_display_stack(services)
      Checked(read) ==
        [read EXCEPT !.cfg.disabled = Sort(@),
                     !.error = IF ~profile /\ @ = "none" /\ Unmet(read.cfg.service) THEN "bad" ELSE @]
  IN Checked(FoldLeft(LAMBDA st, line : ReadLine(st, line, profile), NoFile, lines))
Parse(lines) == parse_doc(lines, FALSE)

(* ------------------------------- writing ------------------------------- *)

StrProp(p, x) == <<Prop(p, Str(x))>>
WhenTrue(b, p) == IF b THEN <<Prop(p, Bool(TRUE))>> ELSE <<>>
audio_node(s) ==
  IF s.microphone THEN Block(s.svc, <<>>, <<Leaf("microphone", <<>>)>>) ELSE Leaf(s.svc, <<>>)
x11(s) ==
  IF "host" \in DOMAIN s THEN Leaf("x11", <<Arg(Str("host"))>>)
  ELSE Leaf("x11", (IF s.geometry = DefaultGeometry THEN <<>> ELSE StrProp("geometry", s.geometry))
                   \o WhenTrue(s.fullscreen, "fullscreen") \o WhenTrue(s.grab, "grab")
                   \o [i \in DOMAIN s.wm |-> Prop("wm", s.wm[i])])
wayland(s) ==
  Leaf("wayland", CASE s.mode = "host" -> <<Arg(Str("host"))>>
                    [] s.mode = "open" -> StrProp("clipboard", "open")
                    [] OTHER -> <<>>)
AllowOut(a) ==
  Leaf("allow-out", <<Arg(Str(a.dest))>> \o [i \in DOMAIN a.port |-> Prop("port", a.port[i])]
                    \o [i \in DOMAIN a.proto |-> Prop("proto", a.proto[i])])
network(c) ==
  LET kids == (IF c.outbound = "deny" THEN <<Leaf("outbound", <<Arg(Str("deny"))>>)>> ELSE <<>>)
              \o [i \in DOMAIN c.dns |-> Leaf("dns", <<Arg(Str(c.dns[i]))>>)]
              \o [i \in DOMAIN c.allow_out |-> AllowOut(c.allow_out[i])]
              \o [i \in DOMAIN c.allow_hosts |->
                    Leaf("allow-host", <<Arg(Str(c.allow_hosts[i].name))>>
                       \o (IF c.allow_hosts[i].port = 443 THEN <<>>
                           ELSE <<Prop("port", Num(c.allow_hosts[i].port))>>))]
              \o [i \in DOMAIN c.forwards |->
                    Leaf("allow-port", <<Arg(Num(c.forwards[i].port))>> \o WhenTrue(c.forwards[i].udp, "udp"))]
              \o (IF c.no_ipv6 THEN <<Leaf("no-ipv6", <<>>)>> ELSE <<>>)
      mode == IF c.mode = "isolated" THEN <<>> ELSE <<Arg(Str(c.mode))>>
  IN IF kids = <<>> THEN Leaf("network", mode) ELSE Block("network", mode, kids)
bus_block(s) ==
  IF s.rules = <<>> THEN Leaf(s.svc, <<>>)
  ELSE Block(s.svc, <<>>, [i \in DOMAIN s.rules |-> Leaf(s.rules[i].kind, <<Arg(Str(s.rules[i].arg))>>)])
share(s) ==
  Leaf(s.svc, <<Arg(Str(s[Keyed[s.svc]]))>>
              \o (IF "mode" \in DOMAIN s THEN StrProp("mode", s.mode) ELSE <<>>)
              \o (IF "optional" \in DOMAIN s THEN WhenTrue(s.optional, "optional") ELSE <<>>))
service(s) ==
  CASE s.svc = "wayland" -> wayland(s)
    [] s.svc = "x11" -> x11(s)
    [] s.svc = "network" -> network(s)
    [] s.svc \in {"pipewire", "pulseaudio"} -> audio_node(s)
    [] s.svc = "dri" -> Leaf("dri", WhenTrue(s.kms, "kms"))
    [] s.svc = "camera" -> Leaf("camera", WhenTrue(s.nodes, "nodes"))
    [] s.svc = "gamepad" -> Leaf("gamepad", WhenTrue(s.hidraw, "hidraw") \o WhenTrue(s.uinput, "uinput"))
    [] s.svc = "portals" ->
         IF s.children = <<>> THEN Leaf("portals", <<>>)
         ELSE Block("portals", <<>>, [i \in DOMAIN s.children |-> Leaf(s.children[i], <<>>)])
    [] s.svc = "mpris" -> Leaf("mpris", StrProp("name", s.name))
    [] s.svc \in {"dbus", "system-bus"} -> bus_block(s)
    [] s.svc \in DOMAIN Keyed -> share(s)
    [] OTHER -> Leaf(s.svc, <<>>)
\* The largest unit the size is a whole number of.
tmp(kib) ==
  LET unit == CASE kib % Scale["G"] = 0 -> "G" [] kib % Scale["M"] = 0 -> "M" [] OTHER -> "K"
  IN Leaf("tmp", StrProp("size", CHOOSE w \in DOMAIN KiB : KiB[w] = <<kib \div Scale[unit], unit>>))
seccomp(c) ==
  Block("seccomp", <<>>,
    (IF c.allow = <<>> THEN <<>>
     ELSE <<Leaf("allow", [i \in DOMAIN c.allow |-> Arg(Str(c.allow[i]))])>>)
    \o [i \in DOMAIN c.deny |-> Leaf("deny", <<Arg(Str(c.deny[i][1])), Prop("errno", Str(c.deny[i][2]))>>)]
    \o (IF c.disable THEN <<Leaf("disable", <<>>)>> ELSE <<>>))
Written(node) ==
  LET s == Sec(node)
      v == node[s]
  IN CASE s = "service" -> service(v)
       [] s = "env" -> Leaf("env", [i \in DOMAIN v |-> Prop(v[i][1], Str(v[i][2]))])
       [] s = "lint_allow" -> Leaf("lint-allow", <<Arg(Str(v[1].id)), Prop("reason", Str(v[1].reason))>>)
       [] s = "etc" -> Leaf("etc", IF v = "host" THEN <<Arg(Str("host"))>> ELSE <<>>)
       [] s = "tmp" -> tmp(v)
       [] s = "seccomp" -> seccomp(v)
       [] s = "command" -> Leaf("command", [i \in DOMAIN v |-> Arg(Str(v[i]))])
       [] OTHER -> Leaf(s, <<Arg(Str(v))>>)               \* tty, userns, desktop

\* An entry of a section as the node that writes it alone.
NodeOf(sec, v) == [s \in {sec} |-> IF sec \in Lists THEN <<v>> ELSE v]
\* One section: its entries with what is turned off among them.  A row names
\* what it stands for: the entry's index, or the index in the disabled list.
section_entries(cfg, sec) ==
  LET end == Len(cfg[sec])
      Off(k) == {d \in DOMAIN cfg.disabled :
                   /\ Sec(cfg.disabled[d].node) = sec
                   /\ IF k > end THEN cfg.disabled[d].before >= end ELSE cfg.disabled[d].before = k - 1}
      OffRows(k) == LET ds == SetToSortSeq(Off(k), <)
                    IN [i \in DOMAIN ds |-> [off |-> TRUE, sec |-> sec, at |-> ds[i],
                                             node |-> cfg.disabled[ds[i]].node]]
      Row(k) == IF k > end THEN <<>>
                ELSE <<[off |-> FALSE, sec |-> sec, at |-> k, node |-> NodeOf(sec, cfg[sec][k])]>>
  IN FlattenSeq([k \in 1..(end + 1) |-> OffRows(k) \o Row(k)])
\* Every row of the file, section by section.
rows(cfg) == FlattenSeq([r \in DOMAIN Sections |-> section_entries(cfg, Sections[r])])
Render(cfg) ==
  LET rs == rows(cfg)
  IN [i \in DOMAIN rs |-> [off |-> rs[i].off, node |-> Written(rs[i].node)]]

-----------------------------------------------------------------------------
(* The detail pane.                                                         *)

CONSTANTS Files,     \* the files a user may have written
          Texts,     \* the lines a user types at the prompt
          MaxEdits   \* bound: changes after a file is opened

VARIABLES disk,      \* config.kdl
          buf,       \* the config the pane holds
          saved,     \* the config as last written
          opened, edits

evars == <<disk, buf, saved, opened, edits>>

EditorInit == /\ disk \in Files /\ buf = EmptyConfig /\ saved = EmptyConfig
              /\ opened = FALSE /\ edits = 0

NodeName(node) ==
  CASE Sec(node) = "service" -> node.service.svc
    [] Sec(node) = "lint_allow" -> "lint-allow"
    [] OTHER -> Sec(node)
\* Whether a node carries anything beyond its own name.
has_content(node) ==
  CASE Sec(node) = "service" -> Written(node) # Leaf(NodeName(node), <<>>)
    [] Sec(node) = "etc" -> node.etc # "allowlist"
    [] OTHER -> TRUE
\* kdl_out::node() writes one node on one line, or refuses.
Writable(node) ==
  (Sec(node) = "lint_allow" => Len(node.lint_allow) = 1)
  /\ (Sec(node) = "env" => node.env # <<>>)

(* ---------------------------- the buffer ------------------------------- *)

\* What stands below entry i of a section moves with it.
ShiftFrom(cfg, sec, i, by) ==
  [cfg EXCEPT !.disabled =
     [d \in DOMAIN @ |-> IF Sec(@[d].node) = sec /\ @[d].before >= i
                         THEN [@[d] EXCEPT !.before = @ + by] ELSE @[d]]]
shift_disabled(cfg, sec, i, by) ==
  [cfg EXCEPT !.disabled =
     [d \in DOMAIN @ |-> IF Sec(@[d].node) = sec /\ @[d].before > i
                         THEN [@[d] EXCEPT !.before = @ + by] ELSE @[d]]]
remove(cfg, row) ==
  IF row.off THEN [cfg EXCEPT !.disabled = RemoveAt(@, row.at)]
  ELSE shift_disabled([cfg EXCEPT ![row.sec] = RemoveAt(@, row.at)], row.sec, row.at - 1, 0 - 1)
\* Kept as a `/-` line where it is: `at` is read before the entry goes.
disable(cfg, row) ==
  LET rank == section_rank(row.node)
      Below == {d \in DOMAIN cfg.disabled :
                  LET r == section_rank(cfg.disabled[d].node)
                  IN r > rank \/ (r = rank /\ cfg.disabled[d].before > row.at - 1)}
      at == IF Below = {} THEN Len(cfg.disabled) + 1 ELSE CHOOSE d \in Below : \A e \in Below : d <= e
  IN [remove(cfg, row) EXCEPT !.disabled =
        InsertAt(@, at, [node |-> row.node, before |-> row.at - 1])]
Min2(a, b) == IF a < b THEN a ELSE b
\* An entry put into its section at `at`: a node a config holds one of is
\* written over, and its default leaves no line.
insert(cfg, node, at) ==
  IF Sec(node) \in Singles THEN [cfg EXCEPT ![Sec(node)] = Adds(node)]
  ELSE [cfg EXCEPT ![Sec(node)] = SubSeq(@, 1, at) \o Adds(node) \o SubSeq(@, at + 1, Len(@))]
Count(cfg, node) ==
  IF Sec(node) \in Singles /\ (cfg[Sec(node)] # <<>> \/ Adds(node) = <<>>) THEN 0 ELSE Len(Adds(node))
enable(cfg, i) ==
  LET entry == cfg.disabled[i]
      sec == Sec(entry.node)
      out == [cfg EXCEPT !.disabled = RemoveAt(@, i)]
      at == Min2(entry.before, Len(out[sec]))
      put == insert(out, entry.node, at)
  IN [put EXCEPT !.disabled =
        [d \in DOMAIN @ |-> IF d >= i /\ Sec(@[d].node) = sec
                            THEN [@[d] EXCEPT !.before = @ + Count(out, entry.node)] ELSE @[d]]]
\* Over the entry the row names, or after the others where it names none.
write(cfg, node, row) ==
  LET sec == Sec(node)
  IN CASE row.off -> [cfg EXCEPT !.disabled[row.at].node = node]
       [] sec \in Singles -> [cfg EXCEPT ![sec] = Adds(node)]
       [] row.at = 0 -> [cfg EXCEPT ![sec] = @ \o Adds(node)]
       [] OTHER -> shift_disabled([cfg EXCEPT ![sec] = SubSeq(@, 1, row.at - 1) \o Adds(node)
                                                       \o SubSeq(@, row.at + 1, Len(@))],
                                  sec, row.at - 1, Len(Adds(node)) - 1)
\* The parser is asked whether the line would be a second one.
would_repeat(cfg, node) ==
  /\ Writable(node)
  /\ Parse(Append(Render(cfg), [off |-> FALSE, node |-> Written(node)])).error = "duplicate"

(* ------------------------------ the rows ------------------------------- *)

\* The row that writes a node the config does not hold, or another entry of
\* a repeatable one.
BlankRow(name) == [off |-> FALSE, sec |-> name, at |-> 0, node |-> [blank |-> name]]
HeldNames(cfg) == LET rs == rows(cfg) IN {NodeName(rs[i].node) : i \in DOMAIN rs}
AllNames == REPEATABLE \cup Plain \cup OnePerFile \cup Singles \cup {"pipewire", "pulseaudio"}
Rows(cfg) == Range(rows(cfg)) \cup {BlankRow(n) : n \in REPEATABLE \cup (AllNames \ HeldNames(cfg))}
RowName(row) == IF row.at = 0 THEN row.sec ELSE NodeName(row.node)
\* The one node a line wrote: what each section gained, several of a list
\* section together.
written(text) ==
  LET Part(raw, sec) ==
        CASE sec = "service" -> [i \in DOMAIN raw.cfg.service |-> [service |-> raw.cfg.service[i]]]
          [] sec \in Lists -> IF raw.cfg[sec] = <<>> THEN <<>> ELSE <<[s \in {sec} |-> raw.cfg[sec]]>>
          [] sec \in {"etc", "tty", "userns"} /\ sec \in raw.seen /\ raw.cfg[sec] = <<>> ->
               <<[s \in {sec} |-> CHOOSE v \in Default[sec] : TRUE]>>
          [] OTHER -> [i \in DOMAIN raw.cfg[sec] |-> [s \in {sec} |-> raw.cfg[sec][i]]]
      Only(found) == IF Len(found) = 1 THEN found ELSE <<>>
      Node(raw) == IF raw.error # "none" \/ raw.includes # <<>> THEN <<>>
                   ELSE Only(FlattenSeq([r \in DOMAIN Sections |-> Part(raw, Sections[r])]))
  IN Node(parse_doc(text, TRUE))
\* apply() of a line that wrote `nodes`: <<>> is a line the prompt refuses.
apply(cfg, row, nodes) ==
  LET Put(node) == If(/\ NodeName(node) = RowName(row)
                      /\ row.off => Writable(node)
                      /\ row.at = 0 => ~would_repeat(cfg, node),
                      write(cfg, node, row))
  IN IF nodes = <<>> THEN <<>> ELSE Put(nodes[1])

(* ------------------------------ the keys ------------------------------- *)

Edit == opened /\ edits < MaxEdits /\ edits' = edits + 1 /\ UNCHANGED <<disk, saved, opened>>
Bare(name) == <<[off |-> FALSE, node |-> Leaf(name, <<>>)]>>
toggled(cfg, row) ==
  CASE row.off -> enable(cfg, row.at)
    [] row.at = 0 -> Last(<<cfg>> \o apply(cfg, row, written(Bare(row.sec))))
    [] has_content(row.node) -> disable(cfg, row)
    [] OTHER -> remove(cfg, row)
toggle(row) == buf' = toggled(buf, row)
clear(row) == row.at # 0 /\ buf' = remove(buf, row)
Enter(row, nodes) == \E granted \in Range(apply(buf, row, nodes)) : buf' = granted
\* Detail::open(): a file the parser refuses opens no pane.
open == /\ ~opened /\ opened' = TRUE
        /\ \E file \in {Parse(disk)} : file.error = "none" /\ buf' = file.cfg /\ saved' = file.cfg
        /\ UNCHANGED <<disk, edits>>
\* What is written is read back first; a file the parser would refuse is not.
save == /\ opened /\ Parse(Render(buf)).error = "none" /\ disk' = Render(buf) /\ saved' = buf
        /\ UNCHANGED <<buf, opened, edits>>
undo == opened /\ buf' = saved /\ UNCHANGED <<disk, saved, opened, edits>>

EditorNext == \/ open \/ save \/ undo
              \/ Edit /\ \E row \in Rows(buf) : toggle(row) \/ clear(row)
              \/ Edit /\ \E nodes \in {written(text) : text \in Texts} \ {<<>>} :
                           \E row \in {r \in Rows(buf) : RowName(r) = NodeName(nodes[1])} : Enter(row, nodes)
EditorSpec == EditorInit /\ [][EditorNext]_evars

(* ----------------------------- properties ------------------------------ *)

WhereOf(d) == [d EXCEPT !.before = 0]
Same(a, b) == /\ [a EXCEPT !.disabled = <<>>] = [b EXCEPT !.disabled = <<>>]
              /\ [i \in DOMAIN a.disabled |-> WhereOf(a.disabled[i])]
                 = [i \in DOMAIN b.disabled |-> WhereOf(b.disabled[i])]
\* What a config is written as reads back as that config: the same grants,
\* variables and settings, the same lines turned off in the same order; and
\* a file read, written and read again is the same config to the last index.
RoundTrip ==
  LET ReadsBack(again) == /\ again.error = "none" => Same(again.cfg, buf)
                          /\ opened /\ edits = 0 => again.error = "none" /\ again.cfg = buf
  IN ReadsBack(Parse(Render(buf)))

\* Space on a line turns it off, or on, where it stands: every other line of
\* the file keeps its place and its state, and only a node a config holds
\* one of is written over.
Flipped(lines, k) == [lines EXCEPT ![k].off = ~@]
ToggleInPlace ==
  LET rs == rows(buf)
      lines == Render(buf)
  IN \A k \in DOMAIN rs :
       /\ has_content(rs[k].node)
       /\ rs[k].off => /\ Len(Adds(rs[k].node)) = 1
                       /\ rs[k].sec \in Singles => buf[rs[k].sec] = <<>>
       => Render(toggled(buf, rs[k])) = Flipped(lines, k)
=============================================================================
