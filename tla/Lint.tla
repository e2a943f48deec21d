-------------------------------- MODULE Lint --------------------------------
(* The linter: the checks it runs over the layers of a profile, or the one     *)
(* layer of a config, on the host at hand, and what a lint-allow accepts away. *)
(* A finding is a check and the node of the layer it is about; a node is a     *)
(* record with the fields it was written with.                                 *)
EXTENDS Sandbox

Layers == cfg.layers

Prop(node, key, value) == key \in DOMAIN node /\ node[key] = value
flag(node, key) == key \in DOMAIN node /\ node[key]

(* ---- the layers as the checks read them ------------------------------------ *)
REPEATABLE == {"home-share", "path-share", "etc-share", "app-runtime", "env", "lint-allow"}
IsBlock(node) == node.n = "block"
\* A repeatable block stands for its lines; a portals node's camera child is a
\* camera, with the `nodes' it was written with.
Expand(node) ==
  CASE IsBlock(node) -> node.lines
    [] node.n = "portals" /\ "camera" \in node.children -> <<node, [n |-> "camera", nodes |-> flag(node, "nodes")]>>
    [] OTHER -> <<node>>
flat(layer) == FlattenSeq([j \in DOMAIN layer |-> Expand(layer[j])])
Sources == [i \in DOMAIN Layers |-> flat(Layers[i])]
At == {<<i, j>> : i \in DOMAIN Sources, j \in 1..10}
Nodes2(name) == {at \in At : at[2] \in DOMAIN Sources[at[1]] /\ Sources[at[1]][at[2]].n = name}
Written(at) == Sources[at[1]][at[2]]
anywhere(name) == Nodes2(name) # {}
Later(a, b) == a[1] < b[1] \/ (a[1] = b[1] /\ a[2] <= b[2])
last(name) == CHOOSE a \in Nodes2(name) : \A b \in Nodes2(name) : Later(b, a)

(* ---- the checks -------------------------------------------------------------- *)
ErrorChecks == {"bundle-without-dbus", "camera-without-portals", "dbus-name-is-host-exec", "dup-name-policy",
                "home-share-reserved", "path-share-reserved", "own-on-system-bus"}
NoteChecks == {"allow-host-wildcard", "app-runtime-rw", "camera-nodes-none-present", "camera-nodes-no-hotplug",
               "command-not-found", "desktop-entry-missing", "dri-kms", "dri-nvidia-primary", "lint-allow-unused",
               "outbound-deny", "ozone-hint-unnecessary", "pipewire-microphone", "repeat-outside-block",
               "secrets-access", "x11-nested-no-wm"}
Severity(id) == IF id \in ErrorChecks THEN "error" ELSE IF id \in NoteChecks THEN "note" ELSE "warning"

If(cond, id) == IF cond THEN {id} ELSE {}

(* Names: either side may be a family, every name below a prefix.              *)
Family(name) == Last(name) = "*"
CoversName(glob, name) == Family(glob) /\ IsStrictPrefix(Front(glob), name)
name_covers(written, listed) == written = listed \/ CoversName(written, listed) \/ CoversName(listed, written)
HOST_EXEC_NAMES == {<<"fd", "systemd1">>, <<"fd", "Flatpak">>, <<"impl", "portal", "*">>, <<"dconf">>}
SECRETS_NAME == <<"fd", "secrets">>
RISKY_NAMES == {<<"kde", "KWin">>, <<"gnome", "Shell">>, <<"fd", "FileManager1">>, SECRETS_NAME}
POLKIT_NAMES == {<<"fd", "UDisks2">>, <<"fd", "systemd1">>}
PORTAL_PREFIX == <<"portal">>
Rules(node) == IF node.n \in {"dbus", "system-bus"} THEN ToSet(node.rules) ELSE {}
Levels == {"see", "talk", "own"}
bus_names(node) ==
  If(\E r \in Rules(node) : \E l \in HOST_EXEC_NAMES : name_covers(r.name, l), "dbus-name-is-host-exec")
    \cup If(\E r \in Rules(node) : \E l \in RISKY_NAMES : name_covers(r.name, l), "dbus-name-is-risky")
own_too_wide(r) == r.kind = "own" /\ Family(r.name) /\ Len(r.name) <= 3
dbus_node(node) ==
  If(\E r \in Rules(node) : own_too_wide(r), "own-too-wide")
    \cup If(\E r \in Rules(node) : r.kind \in {"talk", "own"} /\ r.name = SECRETS_NAME, "secrets-access")
Bare(name) == IF Family(name) THEN Front(name) ELSE name
system_bus(node) ==
  If(\E r \in Rules(node) : r.kind = "own", "own-on-system-bus")
    \cup If(\E r \in Rules(node) : r.kind = "talk" /\ Bare(r.name) \in POLKIT_NAMES, "system-bus-polkit-name")

SECRET_SEGMENTS == {"TOKEN", "PASSWORD"}
SECRET_PAIRS == {<<"API", "KEY">>}
SECRET_VALUES == {"ghp_"}
looks_secret(key, value) ==
  \/ ToSet(key) \cap SECRET_SEGMENTS # {}
  \/ \E i \in 1..(Len(key) - 1) : SubSeq(key, i, i + 1) \in SECRET_PAIRS
  \/ value \in SECRET_VALUES
env_node(node) ==
  If(node.key = <<"ELECTRON", "OZONE">>, "ozone-hint-unnecessary") \cup If(looks_secret(node.key, node.value), "env-looks-secret")

(* A share's source on this host, and the roots bubbler keeps, both asked of a *)
(* source that need not exist.                                                 *)
ReservedOfSource(path) == denied_root(Resolved(path), Resolved(path))
reserved_reason(path) == denied_root(Resolved(path), path)
reserved_in_home_reason(rel) == denied_root_in_home(Resolved(Env.home \o rel), SandboxHome \o rel)
\* The source is there, and is a thing a share should name.
share_source(source) == file_type(source) \in DirOrFile
share_source_missing(node, source) ==
  If(~share_source(source) /\ ~(file_type(source) = "absent" /\ flag(node, "optional")), "share-source-missing")
SENSITIVE_TREE == {<<".ssh">>}
SENSITIVE_ROOT == {<<".config">>, <<"data">>}
home_share_lint(node) ==
  If(reserved_in_home_reason(node.path), "home-share-reserved")
    \cup If((\E s \in SENSITIVE_TREE : Under(node.path, s)) \/ node.path \in SENSITIVE_ROOT, "home-share-sensitive")
    \cup share_source_missing(node, Env.home \o node.path)
NamedSocket(path) == Last(path) \in {"a.sock"}
path_share_lint(node) ==
  LET source == Resolved(node.path)
      isSocket == file_type(source) = "socket"
      named == NamedSocket(node.path)
  IN If(reserved_reason(node.path), "path-share-reserved")
       \cup IF named \/ isSocket THEN {"path-share-socket"}
            ELSE share_source_missing(node, source)
                   \cup (IF ~share_source(source) THEN {}
                         ELSE If(node.mode = "rw" /\ source \in host.mounts, "path-share-mountpoint")
                                \cup If(\E p \in DOMAIN host.tree : p # <<>> /\ Front(p) = source /\ host.tree[p] = "socket",
                                        "path-share-socket"))

network_node(node) ==
  If(flag(node, "deny"), "outbound-deny") \cup If(Prop(node, "wild", <<"com">>), "allow-host-wildcard")
camera_lint == If(\A d \in host.video : file_type(Dev(d)) # "char", "camera-nodes-none-present") \cup {"camera-nodes-no-hotplug"}
x11_manages_its_windows(node) == flag(node, "fullscreen") \/ flag(node, "wm")

per_layer(node) ==
  bus_names(node) \cup
  CASE node.n = "x11" -> IF node.mode = "host" THEN {"x11-without-reason"}
                         ELSE If(~x11_manages_its_windows(node), "x11-nested-no-wm")
    [] node.n = "tty" -> If(node.mode = "passthrough", "tty-passthrough")
    [] node.n = "etc" -> If(node.mode = "host", "etc-host")
    [] node.n = "network" -> IF node.mode = "host" THEN {"network-host"} ELSE network_node(node)
    [] node.n = "wayland" -> If(node.mode = "host", "wayland-host")
    [] node.n = "seccomp" -> If(flag(node, "disable"), "seccomp-disabled")
    [] node.n = "env" -> env_node(node)
    [] node.n = "home-share" -> home_share_lint(node)
    [] node.n = "path-share" -> path_share_lint(node)
    [] node.n = "etc-share" -> share_source_missing(node, Etc(node.name))
    [] node.n = "dri" -> IF node.kms THEN {"dri-kms"} ELSE If(dri_binds_a_primary_node, "dri-nvidia-primary")
    [] node.n = "camera" -> IF node.nodes THEN camera_lint ELSE {}
    [] node.n = "portals" -> If("secrets" \in node.children, "secrets-access")
    [] node.n \in {"pipewire", "pulseaudio"} -> If(flag(node, "microphone"), "pipewire-microphone")
    [] node.n = "dbus" -> dbus_node(node)
    [] node.n = "system-bus" -> system_bus(node)
    [] node.n = "app-runtime" -> If(node.mode = "rw", "app-runtime-rw")
    [] node.n = "mpris" -> If(node.name = "*", "mpris-wildcard")
    [] OTHER -> {}

(* Two or more lines of one kind, in the layer as it is written, each of which *)
(* could be a block's child.                                                   *)
as_block_child(node) == ~flag(node, "optional")
repeat_outside_block(i) ==
  {kind \in REPEATABLE :
     LET lines == SelectSeq(Layers[i], LAMBDA node : node.n = kind)
     IN Len(lines) > 1 /\ \A j \in 1..Min({3, Len(lines)}) : as_block_child(lines[j])}

(* ---- the host's audio policy -------------------------------------------------- *)
install_dirs == <<Env.config_home>> \o Env.config_dirs \o <<<<"etc">>>> \o Env.data_dirs \o <<<<"usr", "share">>>>
hook_dirs == <<Env.data_home>> \o Env.data_dirs \o <<<<"usr", "share">>>>
FirstIn(dirs, name) ==
  LET held == {i \in DOMAIN dirs : Append(dirs[i], name) \in DOMAIN host.read}
  IN IF held = {} THEN None ELSE Append(dirs[Min(held)], name)
installed == FirstIn(install_dirs, "50-bubbler.conf")
hook_installed == FirstIn(hook_dirs, "refuse-links.lua")
readable(p) == p # None /\ host.read[p] # "unreadable"
missing == ~readable(installed) \/ ~readable(hook_installed)
differing == \E p \in {installed, hook_installed} : readable(p) /\ host.read[p] # "ours"

(* ---- checks over every layer --------------------------------------------------- *)
BUNDLES == {"portals", "notify", "tray", "mpris", "a11y", "input-method"}
NESTERS == {"firefox"}
is_nester(argv0) == Last(argv0) \in NESTERS
on_path(argv0) ==
  IF Len(argv0) > 1
    THEN IF Under(argv0, SandboxHome)
           THEN LET rest == SubSeq(argv0, Len(SandboxHome) + 1, Len(argv0))
                IN /\ \E at \in Nodes2("home-share") : Under(rest, Written(at).path)
                   /\ file_type(Env.home \o rest) # "absent"
           ELSE file_type(argv0) # "absent"
    ELSE \E dir \in Env.search_path : file_type(dir \o argv0) # "absent"
entry_exists(name) == \E dir \in {Env.data_home} \cup ToSet(Env.data_dirs) : file_type(Append(dir, name)) # "absent"

\* A name holds one policy on one bus, in whichever layers it is named.
PolicyRules == {<<at, k>> \in At \X (1..3) :
                  /\ at[2] \in DOMAIN Sources[at[1]] /\ Written(at).n \in {"dbus", "system-bus"}
                  /\ k \in DOMAIN Written(at).rules /\ Written(at).rules[k].kind \in Levels}
RuleAt(p) == Written(p[1]).rules[p[2]]
Before(p, q) == p # q /\ (p[1] = q[1] => p[2] < q[2]) /\ Later(p[1], q[1])
dup_name_policy ==
  {q \in PolicyRules : \E p \in PolicyRules : /\ Before(p, q) /\ Written(p[1]).n = Written(q[1]).n
                                              /\ RuleAt(p).name = RuleAt(q).name /\ RuleAt(p).kind # RuleAt(q).kind}
OfLast(name) == {at \in Nodes2(name) : at = last(name)}
AudioNodes == Nodes2("pipewire") \cup Nodes2("pulseaudio")
FirstAudio == {at \in AudioNodes : \A b \in AudioNodes : Later(at, b)}
On(ats, id) == {[at |-> at, id |-> id] : at \in ats}

across_layers ==
  (IF anywhere("dbus") THEN {} ELSE On(UNION {Nodes2(b) : b \in BUNDLES}, "bundle-without-dbus"))
    \cup (IF anywhere("dbus") /\ ~(\E b \in BUNDLES : anywhere(b)) /\ \A at \in Nodes2("dbus") : Written(at).rules = <<>>
            THEN On({at \in Nodes2("dbus") : \A b \in Nodes2("dbus") : Later(at, b)}, "dbus-without-rules") ELSE {})
    \cup (IF anywhere("portals") THEN {}
          ELSE On(Nodes2("camera"), "camera-without-portals")
                 \cup On({at \in Nodes2("dbus") \cup Nodes2("system-bus") :
                            \E r \in Rules(Written(at)) : IsPrefix(PORTAL_PREFIX, r.name)}, "portal-talk-without-portals"))
    \cup On({q[1] : q \in dup_name_policy}, "dup-name-policy")
    \cup On({at \in OfLast("wayland") : Prop(Written(at), "clipboard", "open")}, "wayland-clipboard-open")
    \cup On({at \in OfLast("userns") : /\ Written(at).mode = "disable" /\ anywhere("command")
                                        /\ is_nester(Written(last("command")).argv0)},
            "userns-disabled-with-nested-sandbox")
    \cup On({at \in OfLast("command") : ~on_path(Written(at).argv0)}, "command-not-found")
    \cup On({at \in OfLast("desktop") : ~entry_exists(Written(at).name)}, "desktop-entry-missing")
    \cup On({at \in OfLast("tty") : /\ Written(at).mode = "passthrough"
                                     /\ \E b \in Nodes2("seccomp") : flag(Written(b), "disable")},
            "tty-passthrough-without-seccomp")

(* ---- the run --------------------------------------------------------------------- *)
Found ==
  UNION {{[at |-> at, id |-> id] : id \in per_layer(Written(at))} : at \in {a \in At : a[2] \in DOMAIN Sources[a[1]]}}
    \cup {[at |-> <<i, 0>>, id |-> "repeat-outside-block"] : i \in {l \in DOMAIN Layers : repeat_outside_block(l) # {}}}
    \cup across_layers
    \cup (IF missing THEN On(FirstAudio, "audio-policy-missing") ELSE {})
    \cup (IF differing THEN On(FirstAudio, "audio-policy-differs") ELSE {})
unused_allows ==
  On({at \in Nodes2("lint-allow") : ~(\E f \in Found : f.id = Written(at).id /\ Severity(f.id) # "error")}, "lint-allow-unused")
allowed == {Written(at).id : at \in Nodes2("lint-allow")}
run == {f \in Found : Severity(f.id) = "error" \/ f.id \notin allowed} \cup unused_allows

-----------------------------------------------------------------------------
(* The linter says beforehand what the launcher does: a share it refuses, or a *)
(* portal, accessibility or camera grant no bus carries, is found at its node; *)
(* a reserved path it calls an error is one the launcher refuses, unless the   *)
(* share is optional and its source absent; and a primary GPU node bound by a  *)
(* bare `dri` is noted (reserved_reason(), service.rs; share_source() and      *)
(* per_layer(), lint.rs).  A link that leads a share out of its own root is    *)
(* the one refusal the linter does not look for.                               *)
Leaves(node) ==
  \/ node.n = "home-share" /\ ~Under(Resolved(Env.home \o node.path), Resolved(Env.home))
  \/ node.n = "etc-share" /\ ~Under(Resolved(Etc(node.name)), <<"etc">>)
Foretold == {"home-share", "path-share", "etc-share", "portals", "a11y", "camera"}
LintForetells ==
  pc = "start" => \A at \in {a \in At : a[2] \in DOMAIN Sources[a[1]]} :
    LET node == Written(at)
        ids == {f.id : f \in {g \in Found : g.at = at}}
        absent == flag(node, "optional") /\ canonicalize(IF node.n = "home-share" THEN Env.home \o node.path ELSE node.path) = None
    IN /\ node.n \in Foretold /\ Refused(node) /\ ~Leaves(node) => \E id \in ids : Severity(id) # "note"
       /\ {"home-share-reserved", "path-share-reserved"} \cap ids # {} => absent \/ Refused(node)
       /\ node.n = "dri" /\ ~node.kms /\ (\E g \in Gpus : PrimaryNode(g, FALSE)) => "dri-nvidia-primary" \in ids
=============================================================================
