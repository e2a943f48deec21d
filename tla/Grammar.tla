------------------------------ MODULE Grammar ------------------------------
(***************************************************************************)
(* The nodes of config.kdl, read one at a time (config.rs): what every     *)
(* node's own parser accepts and what it grants.  A document is KDL nodes  *)
(* with typed values; a string is a token, and the checks on the           *)
(* characters of one are membership in the set of tokens that pass.        *)
(* Every refusal is the same refusal: a parser returns <<>> for an error   *)
(* and <<value>> for a value.                                              *)
(***************************************************************************)
EXTENDS Naturals, Sequences, SequencesExt, FiniteSets

CONSTANTS Valid,       \* kind of token -> the tokens of that kind that pass
          Rel, Abs,    \* spelling -> the path it is, of those that pass
          V6, Loopback,\* the addresses that are IPv6, and loopback
          KiB          \* tmp size token -> <<number, unit>>

Str(x) == [t |-> "str", v |-> x]
Bool(x) == [t |-> "bool", v |-> x]
Num(x) == [t |-> "int", v |-> x]
Arg(v) == [prop |-> "", val |-> v]
Prop(p, v) == [prop |-> p, val |-> v]
\* A node without children, and one with a block of them.
Leaf(name, entries) ==
  [name |-> name, ty |-> FALSE, entries |-> entries, block |-> FALSE, kids |-> <<>>]
Block(name, entries, kids) ==
  [name |-> name, ty |-> FALSE, entries |-> entries, block |-> TRUE, kids |-> kids]

If(ok, value) == IF ok THEN <<value>> ELSE <<>>
Values(s) == [i \in DOMAIN s |-> s[i].val]
Args(n) == Values(SelectSeq(n.entries, LAMBDA e : e.prop = ""))
Props(n, p) == Values(SelectSeq(n.entries, LAMBDA e : e.prop = p))
OnlyProps(n, ps) == \A i \in DOMAIN n.entries : n.entries[i].prop \in ps \cup {""}
AllOf(t, vs) == \A i \in DOMAIN vs : vs[i].t = t
Token(kind, v) == v.t = "str" /\ v.v \in Valid[kind]
Distinct(s) == \A i, j \in DOMAIN s : s[i] = s[j] => i = j
Named(kids, names) == SelectSeq(kids, LAMBDA k : k.name \in names)
\* The results of a parser on every node of a sequence: one refusal is all.
Each(s, Parse(_)) ==
  LET out == [i \in DOMAIN s |-> Parse(s[i])]
  IN If(\A i \in DOMAIN s : out[i] # <<>>, FlattenSeq(out))

reject_types(n) == ~n.ty
reject_arguments(n) == n.entries = <<>>
reject_entries(n) == reject_arguments(n) /\ ~n.block
one_string_arg(n) == Len(n.entries) = 1 /\ OnlyProps(n, {}) /\ AllOf("str", Args(n))
\* A property that is a boolean and written at most once.
Flag(n, p) == Len(Props(n, p)) <= 1 /\ AllOf("bool", Props(n, p))
IsOn(n, p) == Props(n, p) # <<>> /\ Props(n, p)[1].v
\* A property that may be written again: the last one counts.
LastOf(n, p, default) == IF Props(n, p) = <<>> THEN default ELSE Last(Props(n, p)).v

(* -------------------------------- shares ------------------------------- *)

parse_share(n, tokens, props) ==
  /\ OnlyProps(n, props) /\ ~n.block /\ Len(Args(n)) = 1
  /\ \A i \in DOMAIN Args(n) : Args(n)[i].t = "str" /\ Args(n)[i].v \in tokens
  /\ \A i \in DOMAIN Props(n, "mode") :
       Props(n, "mode")[i].t = "str" /\ Props(n, "mode")[i].v \in {"ro", "rw"}
  /\ AllOf("bool", Props(n, "optional"))
validate_relative(n) ==
  If(parse_share(n, DOMAIN Rel, {"mode", "optional"}),
     [svc |-> "home-share", path |-> Rel[Args(n)[1].v], mode |-> LastOf(n, "mode", "ro"),
      optional |-> LastOf(n, "optional", FALSE)])
validate_absolute(n) ==
  If(parse_share(n, DOMAIN Abs, {"mode", "optional"}),
     [svc |-> "path-share", path |-> Abs[Args(n)[1].v], mode |-> LastOf(n, "mode", "ro"),
      optional |-> LastOf(n, "optional", FALSE)])
validate_app_id(n) ==
  If(parse_share(n, Valid["app"], {"mode"}),
     [svc |-> "app-runtime", id |-> Args(n)[1].v, mode |-> LastOf(n, "mode", "ro")])
parse_etc_share(n) ==
  If(one_string_arg(n) /\ ~n.block /\ Token("etc", Args(n)[1]),
     [svc |-> "etc-share", name |-> Args(n)[1].v])

(* --------------------------------- buses ------------------------------- *)

\* A rule is [kind, name, rule]; `see`, `talk` and `own` set the policy of a
\* name, and one name takes one policy.
bus_name(k) ==
  /\ reject_types(k) /\ ~k.block /\ one_string_arg(k)
  /\ k.name \in {"see", "talk", "own"} /\ Token("bus", Args(k)[1])
bus_rule(k) ==
  /\ reject_types(k) /\ ~k.block /\ one_string_arg(k)
  /\ k.name \in {"call", "broadcast"} /\ Token("busrule", Args(k)[1])
parse_bus_rules(n, own_allowed) ==
  LET rules == [i \in DOMAIN n.kids |-> [kind |-> n.kids[i].name, arg |-> Args(n.kids[i])[1].v]]
      Policies == {i \in DOMAIN n.kids : n.kids[i].name \in {"see", "talk", "own"}}
  IN IF reject_arguments(n) /\ \A i \in DOMAIN n.kids : bus_name(n.kids[i]) \/ bus_rule(n.kids[i])
     THEN If(/\ own_allowed \/ Named(n.kids, {"own"}) = <<>>
             /\ \A i, j \in Policies : rules[i].arg = rules[j].arg => rules[i].kind = rules[j].kind,
             rules)
     ELSE <<>>
parse_dbus(n) ==
  LET rules == parse_bus_rules(n, TRUE)
  IN IF rules = <<>> THEN <<>> ELSE <<[svc |-> "dbus", rules |-> rules[1]]>>
parse_system_bus(n) ==
  LET rules == parse_bus_rules(n, FALSE)
  IN IF rules \in {<<>>, <<<<>>>>} THEN <<>> ELSE <<[svc |-> "system-bus", rules |-> rules[1]]>>
parse_mpris(n) ==
  If(/\ Args(n) = <<>> /\ OnlyProps(n, {"name"}) /\ ~n.block /\ Props(n, "name") # <<>>
     /\ \A i \in DOMAIN Props(n, "name") : Token("mpris", Props(n, "name")[i]),
     [svc |-> "mpris", name |-> LastOf(n, "name", "")])
\* The bundle with its children, and apart from it the camera a child writes.
parse_camera(n) ==
  If(Args(n) = <<>> /\ OnlyProps(n, {"nodes"}) /\ Flag(n, "nodes") /\ ~n.block,
     [svc |-> "camera", nodes |-> IsOn(n, "nodes")])
parse_portals(n) ==
  LET camera == Named(n.kids, {"camera"})
      others == SelectSeq(n.kids, LAMBDA k : k.name # "camera")
      names == [i \in DOMAIN others |-> others[i].name]
  IN IF /\ reject_arguments(n) /\ Len(camera) <= 1 /\ Distinct(names)
        /\ \A i \in DOMAIN n.kids : reject_types(n.kids[i])
        /\ \A i \in DOMAIN others : others[i].name \in Valid["portal"] /\ reject_entries(others[i])
        /\ \A i \in DOMAIN camera : parse_camera(camera[i]) # <<>>
     THEN <<[svc |-> "portals", children |-> names]>>
          \o (IF camera = <<>> THEN <<>> ELSE parse_camera(camera[1]))
     ELSE <<>>

(* --------------------------- devices and sound ------------------------- *)

parse_audio(n) ==
  If(/\ reject_arguments(n) /\ Len(n.kids) <= 1
     /\ \A i \in DOMAIN n.kids : n.kids[i].name = "microphone"
          /\ reject_types(n.kids[i]) /\ reject_entries(n.kids[i]),
     [svc |-> n.name, microphone |-> n.kids # <<>>])
parse_plain(n) == If(reject_entries(n), [svc |-> n.name])
parse_gamepad(n) ==
  If(/\ Args(n) = <<>> /\ OnlyProps(n, {"hidraw", "uinput"}) /\ ~n.block
     /\ Flag(n, "hidraw") /\ Flag(n, "uinput"),
     [svc |-> "gamepad", hidraw |-> IsOn(n, "hidraw"), uinput |-> IsOn(n, "uinput")])
parse_dri(n) ==
  If(Args(n) = <<>> /\ OnlyProps(n, {"kms"}) /\ Flag(n, "kms") /\ ~n.block,
     [svc |-> "dri", kms |-> IsOn(n, "kms")])

(* -------------------------------- display ------------------------------ *)

IsHost(n) == Args(n) = <<Str("host")>>
parse_wayland(n) ==
  If(/\ ~n.block /\ OnlyProps(n, {"clipboard"}) /\ (Args(n) = <<>> \/ IsHost(n))
     /\ Props(n, "clipboard") \in {<<>>, <<Str("open")>>}
     /\ IsHost(n) => Props(n, "clipboard") = <<>>,
     [svc |-> "wayland",
      mode |-> IF IsHost(n) THEN "host"
               ELSE IF Props(n, "clipboard") = <<>> THEN "paste" ELSE "open"])
DefaultGeometry == "1280x720"
parse_x11(n) ==
  LET props == {"geometry", "fullscreen", "grab", "wm"}
  IN If(/\ ~n.block /\ OnlyProps(n, props) /\ (Args(n) = <<>> \/ IsHost(n))
        /\ Flag(n, "fullscreen") /\ Flag(n, "grab")
        /\ \A p \in {"geometry", "wm"} :
             Len(Props(n, p)) <= 1 /\ \A i \in DOMAIN Props(n, p) : Token(p, Props(n, p)[i])
        /\ IsHost(n) => \A p \in props : Props(n, p) = <<>>,
        IF IsHost(n) THEN [svc |-> "x11", host |-> TRUE]
        ELSE [svc |-> "x11", geometry |-> LastOf(n, "geometry", DefaultGeometry),
              fullscreen |-> IsOn(n, "fullscreen"), grab |-> IsOn(n, "grab"),
              wm |-> Props(n, "wm")])

(* -------------------------------- network ------------------------------ *)

ProxyPort == 3128
IsPort(v) == v.t = "int" /\ v.v \in 1..65535
NetKid(k) == reject_types(k) /\ ~k.block
parse_dns(k) == If(NetKid(k) /\ one_string_arg(k) /\ Token("ip", Args(k)[1]), Args(k)[1].v)
parse_allow_port(k) ==
  If(/\ NetKid(k) /\ OnlyProps(k, {"udp"}) /\ Flag(k, "udp") /\ Len(Args(k)) = 1 /\ IsPort(Args(k)[1]),
     [port |-> Args(k)[1].v, udp |-> IsOn(k, "udp")])
parse_allow_out(k) ==
  If(/\ NetKid(k) /\ OnlyProps(k, {"port", "proto"}) /\ Len(Args(k)) = 1 /\ Token("cidr", Args(k)[1])
     /\ Len(Props(k, "port")) <= 1 /\ \A i \in DOMAIN Props(k, "port") : IsPort(Props(k, "port")[i])
     /\ Props(k, "proto") \in {<<>>, <<Str("tcp")>>, <<Str("udp")>>},
     [dest |-> Args(k)[1].v, port |-> Props(k, "port"), proto |-> Props(k, "proto")])
parse_allow_host(k) ==
  If(/\ NetKid(k) /\ OnlyProps(k, {"port"}) /\ Len(Args(k)) = 1 /\ Token("host", Args(k)[1])
     /\ Len(Props(k, "port")) <= 1 /\ \A i \in DOMAIN Props(k, "port") : IsPort(Props(k, "port")[i]),
     [name |-> Args(k)[1].v, port |-> LastOf(k, "port", 443)])
NetMode(n) ==
  IF Args(n) = <<>> THEN <<"isolated">>
  ELSE If(Args(n) \in {<<Str("host")>>, <<Str("none")>>}, Args(n)[1].v)
\* The children together: nothing may be named that its mode cannot do.
NetworkHolds(c, outbound) ==
  /\ Distinct(c.dns) /\ Distinct(c.forwards) /\ Distinct(c.allow_out) /\ Distinct(c.allow_hosts)
  /\ c.mode = "isolated" => Range(c.dns) \cap Loopback = {}
  /\ c.mode = "none" => c.dns = <<>>
  /\ c.mode # "isolated" =>
       c.forwards = <<>> /\ ~c.no_ipv6 /\ ~outbound /\ c.allow_out = <<>> /\ c.allow_hosts = <<>>
  /\ c.no_ipv6 => /\ Range(c.dns) \cap V6 = {}
                  /\ \A i \in DOMAIN c.allow_out : c.allow_out[i].dest \notin V6
  /\ c.outbound # "deny" => c.allow_out = <<>> /\ c.allow_hosts = <<>>
  /\ c.allow_hosts # <<>> => \A i \in DOMAIN c.forwards : c.forwards[i].port # ProxyPort
  /\ \A i \in DOMAIN c.allow_hosts : c.allow_hosts[i].port # ProxyPort
parse_network(n) ==
  LET kids(name) == Named(n.kids, {name})
      dns == Each(kids("dns"), parse_dns)
      ports == Each(kids("allow-port"), parse_allow_port)
      outs == Each(kids("allow-out"), parse_allow_out)
      hosts == Each(kids("allow-host"), parse_allow_host)
      bound == kids("outbound")
      v6 == kids("no-ipv6")
  IN IF /\ OnlyProps(n, {}) /\ NetMode(n) # <<>>
        /\ <<>> \notin {dns, ports, outs, hosts}
        /\ \A i \in DOMAIN n.kids :
             n.kids[i].name \in {"dns", "allow-port", "allow-out", "allow-host", "outbound", "no-ipv6"}
        /\ Len(bound) <= 1 /\ Len(v6) <= 1
        /\ \A i \in DOMAIN v6 : NetKid(v6[i]) /\ reject_entries(v6[i])
        /\ \A i \in DOMAIN bound : NetKid(bound[i]) /\ one_string_arg(bound[i])
             /\ Args(bound[i])[1].v \in {"allow", "deny"}
     THEN LET c == [svc |-> "network", mode |-> NetMode(n)[1], dns |-> dns[1], forwards |-> ports[1],
                    allow_out |-> outs[1], allow_hosts |-> hosts[1], no_ipv6 |-> v6 # <<>>,
                    outbound |-> IF bound = <<>> THEN "allow" ELSE Args(bound[1])[1].v]
          IN If(NetworkHolds(c, bound # <<>>), c)
     ELSE <<>>

(* ------------------------ the nodes that grant nothing ----------------- *)

parse_etc(n) ==
  If(OnlyProps(n, {}) /\ ~n.block /\ (Args(n) = <<>> \/ IsHost(n)),
     IF IsHost(n) THEN "host" ELSE "allowlist")
\* Sizes are counted in KiB: no suffix is smaller.
Scale == [K |-> 1, M |-> 1024, G |-> 1024 * 1024]
TmpSizeMax == 64 * Scale["G"]
parse_tmp(n) ==
  IF /\ Args(n) = <<>> /\ OnlyProps(n, {"size"}) /\ ~n.block /\ Props(n, "size") # <<>>
     /\ \A i \in DOMAIN Props(n, "size") : Props(n, "size")[i].t = "str"
     /\ LastOf(n, "size", "") \in DOMAIN KiB
  THEN LET w == KiB[LastOf(n, "size", "")]
           bytes == w[1] * Scale[w[2]]
       IN If(w[1] <= 1024 * 1024 /\ bytes \in 1..TmpSizeMax, bytes)
  ELSE <<>>
parse_tty(n) == If(one_string_arg(n) /\ ~n.block /\ Token("tty", Args(n)[1]), Args(n)[1].v)
parse_userns(n) == If(one_string_arg(n) /\ ~n.block /\ Token("userns", Args(n)[1]), Args(n)[1].v)
syscall_names(k) ==
  Args(k) # <<>> /\ OnlyProps(k, {"errno"}) /\ \A i \in DOMAIN Args(k) : Token("syscall", Args(k)[i])
deny_errno(k) == \A i \in DOMAIN Props(k, "errno") : Token("errno", Props(k, "errno")[i])
\* Every `allow` adds its names, every `deny` its names with its errno.
parse_seccomp(n) ==
  LET Listing(k) == [i \in DOMAIN Args(k) |-> Args(k)[i].v]
      Denied(k) == [i \in DOMAIN Args(k) |-> <<Args(k)[i].v, LastOf(k, "errno", "EPERM")>>]
      allow == Named(n.kids, {"allow"})
      deny == Named(n.kids, {"deny"})
  IN If(/\ reject_arguments(n)
        /\ \A i \in DOMAIN n.kids :
             LET k == n.kids[i]
             IN /\ reject_types(k) /\ ~k.block
                /\ \/ k.name = "allow" /\ syscall_names(k) /\ OnlyProps(k, {})
                   \/ k.name = "deny" /\ syscall_names(k) /\ deny_errno(k)
                      /\ Str("prctl") \notin Range(Args(k))
                   \/ k.name = "disable" /\ reject_entries(k),
        [allow |-> FlattenSeq([i \in DOMAIN allow |-> Listing(allow[i])]),
         deny |-> FlattenSeq([i \in DOMAIN deny |-> Denied(deny[i])]),
         disable |-> Named(n.kids, {"disable"}) # <<>>])
NoSeccomp == [allow |-> <<>>, deny |-> <<>>, disable |-> FALSE]
parse_env(n) ==
  LET pairs == [i \in DOMAIN n.entries |-> <<n.entries[i].prop, n.entries[i].val.v>>]
  IN If(/\ n.entries # <<>> /\ Args(n) = <<>> /\ ~n.block
        /\ \A i \in DOMAIN n.entries :
             n.entries[i].prop \in Valid["envkey"] /\ Token("text", n.entries[i].val)
        /\ Distinct([i \in DOMAIN pairs |-> pairs[i][1]]),
        pairs)
parse_lint_allow(n) ==
  If(/\ Len(Args(n)) = 1 /\ OnlyProps(n, {"reason"}) /\ ~n.block /\ Token("check", Args(n)[1])
     /\ Props(n, "reason") # <<>> /\ AllOf("str", Props(n, "reason"))
     /\ Token("text", Last(Props(n, "reason"))),
     [id |-> Args(n)[1].v, reason |-> LastOf(n, "reason", "")])
parse_desktop(n) == If(one_string_arg(n) /\ ~n.block /\ Token("desktop", Args(n)[1]), Args(n)[1].v)
parse_command(n) ==
  If(OnlyProps(n, {}) /\ ~n.block /\ Args(n) # <<>> /\ \A i \in DOMAIN Args(n) : Token("text", Args(n)[i]),
     [i \in DOMAIN Args(n) |-> Args(n)[i].v])
parse_include(n) == If(one_string_arg(n) /\ ~n.block, Args(n)[1].v)

(* -------------------------- one top-level node ------------------------- *)

REPEATABLE == {"home-share", "path-share", "etc-share", "app-runtime", "env", "lint-allow"}
Plain == {"notify", "tray", "hidraw", "a11y", "input-method"}
\* A parsed node is a record with one field, its section.
As(sec, parsed) == [i \in DOMAIN parsed |-> [s \in {sec} |-> parsed[i]]]
ServiceNode(n) ==
  CASE n.name \in {"pipewire", "pulseaudio"} -> parse_audio(n)
    [] n.name \in Plain -> parse_plain(n)
    [] n.name = "home-share" -> validate_relative(n)
    [] n.name = "path-share" -> validate_absolute(n)
    [] n.name = "app-runtime" -> validate_app_id(n)
    [] n.name = "etc-share" -> parse_etc_share(n)
    [] n.name = "dri" -> parse_dri(n)
    [] n.name = "dbus" -> parse_dbus(n)
    [] n.name = "system-bus" -> parse_system_bus(n)
    [] n.name = "mpris" -> parse_mpris(n)
    [] n.name = "wayland" -> parse_wayland(n)
    [] n.name = "x11" -> parse_x11(n)
    [] n.name = "network" -> parse_network(n)
    [] n.name = "gamepad" -> parse_gamepad(n)
    [] n.name = "camera" -> parse_camera(n)
    [] n.name = "portals" -> parse_portals(n)
    [] OTHER -> <<>>                               \* UnknownNode
parse_one(n) ==
  IF ~reject_types(n) THEN <<>>
  ELSE CASE n.name = "etc" -> As("etc", parse_etc(n))
         [] n.name = "tmp" -> As("tmp", parse_tmp(n))
         [] n.name = "tty" -> As("tty", parse_tty(n))
         [] n.name = "userns" -> As("userns", parse_userns(n))
         [] n.name = "seccomp" -> As("seccomp", parse_seccomp(n))
         [] n.name = "env" -> As("env", parse_env(n))
         [] n.name = "lint-allow" -> As("lint_allow", [i \in DOMAIN parse_lint_allow(n) |-> parse_lint_allow(n)])
         [] n.name = "desktop" -> As("desktop", parse_desktop(n))
         [] n.name = "command" -> As("command", parse_command(n))
         [] OTHER -> As("service", ServiceNode(n))
\* A repeatable block is the line-form nodes it stands for.
line_form(name, k) ==
  [k EXCEPT !.name = name,
            !.entries = IF name = "env" THEN <<Prop(k.name, k.entries[1].val)>>
                        ELSE <<Arg(Str(k.name))>> \o k.entries]
parse_repeatable_block(n) ==
  If(/\ reject_types(n) /\ n.entries = <<>>
     /\ \A i \in DOMAIN n.kids :
          reject_types(n.kids[i]) /\ (n.name = "env" => one_string_arg(n.kids[i])),
     [i \in DOMAIN n.kids |-> line_form(n.name, n.kids[i])])
\* What a top-level node grants, one parsed node each; <<>> is a refusal, so
\* the whole is wrapped: a block may hold nothing.
parse_node(n) ==
  LET Parsed(lines) == IF lines = <<>> THEN <<>> ELSE Each(lines[1], parse_one)
  IN Parsed(IF n.name \in REPEATABLE /\ n.block THEN parse_repeatable_block(n) ELSE << <<n>> >>)
=============================================================================
