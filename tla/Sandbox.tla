------------------------------- MODULE Sandbox ------------------------------
(* One launch's sandboxes: the argument lists built for the application and    *)
(* for its sidecars from the granted services (bwrap.rs, service.rs), the plan *)
(* of its buses (dbus.rs), the sweep of the destinations bwrap will create,    *)
(* and the start, with a device unplugged and a link planted in a tree the     *)
(* application may write anywhere in between.                                  *)
(*                                                                             *)
(* The host is a tree of typed paths with symbolic links in it and the         *)
(* environment's own directories.  A path is the sequence of its components;   *)
(* a link leads to a path that is resolved.                                    *)
EXTENDS Naturals, Sequences, SequencesExt, FiniteSets

-----------------------------------------------------------------------------
(* Which host path a share may bind: where it resolves to, which roots bubbler *)
(* never shares, and which two shares overlap.                                 *)

VARIABLES host

None == <<"?">>
Root == <<>>
Env == host.env
SandboxHome == <<"home", "bubbler">>

Under(p, root) == IsPrefix(root, p)
nested(a, b) == Under(a, b) \/ Under(b, a)

canonicalize(p) ==
  FoldLeft(LAMBDA at, c : LET q == Append(at, c) IN
             CASE at = None -> None
               [] q \in DOMAIN host.links -> host.links[q]
               [] q \in DOMAIN host.tree -> q
               [] OTHER -> None,
           Root, p)
file_type(p) == LET c == canonicalize(p) IN IF c = None THEN "absent" ELSE host.tree[c]
Resolved(p) == IF canonicalize(p) = None THEN p ELSE canonicalize(p)

(* The instance's own directories.                                             *)
Bubbler(dir) == Append(dir, "bubbler")
InstanceHome == Bubbler(Env.data_home) \o <<"i", "home">>
InstanceRuntime == Bubbler(Env.runtime) \o <<"i">>

(* A source a config names is bound where it resolves to.                      *)
resolve_source(src, types) ==
  LET real == canonicalize(src) IN
  IF real = None \/ host.tree[real] \notin types THEN None ELSE real
AnyType == {"dir", "file", "socket", "char"}
DirOrFile == {"dir", "file"}
confine(root, src) ==
  LET real == resolve_source(src, AnyType) IN
  IF canonicalize(root) = None \/ real = None \/ ~Under(real, canonicalize(root)) THEN None ELSE real

DENIED_ROOTS == {<<d>> : d \in {"proc", "sys", "dev", "etc", "usr", "opt", "home", "tmp", "var", "run"}}
MEDIA_ROOT == <<"run", "media">>

NamedRoots == {Env.home, Env.runtime, Bubbler(Env.data_home), Bubbler(Resolved(Env.data_home)),
               Bubbler(Env.config_home), Bubbler(Resolved(Env.config_home))} \cup Env.profile_dir
env_roots == NamedRoots \cup ({canonicalize(p) : p \in NamedRoots} \ {None})

fixed_root(p) == \E r \in DENIED_ROOTS : nested(p, r) /\ ~(Under(p, MEDIA_ROOT) /\ r = <<"run">>)
denied_root(canonical, written) ==
  \/ Root \in {canonical, written}
  \/ \E r \in env_roots : nested(canonical, r) \/ nested(written, r)
  \/ nested(written, SandboxHome)
  \/ fixed_root(canonical) \/ fixed_root(written)
denied_root_in_home(canonical, dst) ==
  \/ dst = SandboxHome
  \/ \E r \in env_roots \ {Env.home, canonicalize(Env.home)} : nested(canonical, r)

(* What one share binds: nothing (an optional source that is absent), a        *)
(* refusal, or a source and a destination.                                     *)
Absent == [is |-> "absent"]
RefusedShare == [is |-> "refused"]
Bound(src, dst, mode) == [is |-> "bound", src |-> src, dst |-> dst, mode |-> mode]

home_share(s) ==
  LET written == Env.home \o s.path
      src == confine(Env.home, written)
      dst == SandboxHome \o s.path
  IN CASE s.optional /\ canonicalize(Env.home) # None /\ canonicalize(written) = None -> Absent
       [] src = None \/ denied_root_in_home(src, dst) -> RefusedShare
       [] OTHER -> Bound(src, dst, s.mode)
path_share(s) ==
  LET src == resolve_source(s.path, DirOrFile)
  IN CASE s.optional /\ canonicalize(s.path) = None -> Absent
       [] src = None \/ denied_root(src, s.path) -> RefusedShare
       [] OTHER -> Bound(src, s.path, s.mode)

Overlap(a, b) == nested(a.dst, b.dst) \/ nested(a.src, b.src)

(* --share: a path under the real home maps into the private one, any other    *)
(* keeps its own.                                                              *)
share_paths(s) ==
  LET home == Under(s.path, Env.home)
      rel == SubSeq(s.path, Len(Env.home) + 1, Len(s.path))
      src == IF home THEN confine(Env.home, s.path) ELSE resolve_source(s.path, DirOrFile)
      dst == IF home THEN SandboxHome \o rel ELSE s.path
  IN CASE \E i \in DOMAIN s.path : s.path[i] \in {".", ".."} -> RefusedShare
       [] src = None -> RefusedShare
       [] host.tree[src] \notin DirOrFile -> RefusedShare
       [] (IF home THEN denied_root_in_home(src, dst) ELSE denied_root(src, s.path)) -> RefusedShare
       [] OTHER -> Bound(src, dst, s.mode)

(* A host bus whose address leads into bubbler's own runtime directory is one  *)
(* an instance serves, its control socket or a proxied bus: refused.           *)
resolve(p) == IF canonicalize(p) # None THEN canonicalize(p)
              ELSE LET dir == canonicalize(Front(p)) IN IF dir = None THEN p ELSE Append(dir, Last(p))
outside_our_runtime(p) == ~Under(resolve(p), resolve(Bubbler(Env.runtime)))

-----------------------------------------------------------------------------
(* The builder of a bwrap argument list: operations kept in phases, because    *)
(* bwrap applies them in order and a mount hides what was mounted under it     *)
(* before, and what bwrap makes of the finished list.                          *)

(* One operation: what bwrap mounts or makes at dst and, for a bind, from src. *)
Op(how, src, dst) == [how |-> how, src |-> src, dst |-> dst]
RoBind(p) == Op("ro", p, p)
DevBind(p) == Op("dev", p, p)
Tmpfs(p) == Op("tmpfs", None, p)
Data(p) == Op("data", None, p)
Symlink(p) == Op("symlink", None, p)

Etc(name) == <<"etc", name>>
Dev(name) == <<"dev", name>>
Present(paths) == SelectSeq(paths, LAMBDA p : file_type(p) # "absent")
Each(Make(_), paths) == [i \in DOMAIN paths |-> Make(paths[i])]

ETC_ALLOWLIST == <<Etc("hosts"), Etc("fonts")>>
PROXY_ETC == <<Etc("fonts")>>
ACCOUNTS == <<Etc("passwd"), Etc("group")>>
ACCOUNT_BACKUPS == <<Etc("passwd-"), Etc("subuid")>>
Links == Each(Symlink, <<<<"bin">>, <<"lib">>, <<"lib64">>, <<"sbin">>>>)

EtcOps(mode) ==
  IF mode = "host" THEN <<RoBind(<<"etc">>)>> \o Each(Data, ACCOUNTS) \o Each(Data, Present(ACCOUNT_BACKUPS))
  ELSE <<Tmpfs(<<"etc">>)>> \o Each(RoBind, Present(ETC_ALLOWLIST)) \o Each(Data, ACCOUNTS)

(* The phases of the filesystem: skeleton and runtime directory, then the      *)
(* services' binds, then the masks.                                            *)
baseline(etc) ==
  <<RoBind(<<"usr">>)>> \o Links \o <<Op("try", <<"opt">>, <<"opt">>)>> \o EtcOps(etc)
    \o <<Op("proc", None, <<"proc">>), Op("devfs", None, <<"dev">>)>>
    \o (IF file_type(Dev("ntsync")) = "char" THEN <<DevBind(Dev("ntsync"))>> ELSE <<>>)
    \o Each(Tmpfs, <<<<"tmp">>, <<"var">>, <<"run">>>>)
    \o <<Op("rw", InstanceHome, SandboxHome), Op("dir", None, Env.runtime)>>

EmitInOrder(skeleton, binds, masks) == skeleton \o masks \o binds
emit(skeleton, binds, masks) == skeleton \o binds \o masks

(* Sidecars get /usr, little of /etc, and the one or two paths they serve.     *)
sidecar_baseline ==
  <<RoBind(<<"usr">>)>> \o Links \o <<Tmpfs(<<"etc">>)>> \o Each(RoBind, Present(PROXY_ETC))
    \o <<Op("proc", None, <<"proc">>), Op("devfs", None, <<"dev">>), Tmpfs(<<"tmp">>)>>
proxy_baseline(hostBuses, socketDir) ==
  sidecar_baseline \o Each(RoBind, hostBuses) \o <<Op("rw", socketDir, socketDir)>>
pw_context_baseline(hostSocket, dir) ==
  sidecar_baseline \o <<RoBind(hostSocket), Op("rw", dir, <<"tmp">>)>>
pw_pulse_baseline(socket, dir) ==
  sidecar_baseline \o <<Op("ro", socket, <<"run", "pipewire-0">>), Op("rw", dir, <<"tmp">>)>>
wl_proxy_baseline(upstream) == Append(sidecar_baseline, RoBind(upstream))

(* bwrap, external: a bind whose source is not there fails the start, unless   *)
(* it is one that may be missing; a path inside shows what the last mount over *)
(* it put there, links followed inside.                                        *)
Binds == {"ro", "rw", "dev", "devtry", "try", "overlay"}
Covers == Binds \cup {"tmpfs", "data", "proc", "devfs"}
Missing(op, gone) == op.how \in Binds \ {"devtry", "try"} /\ canonicalize(op.src) \in gone \cup {None}
Over(ops, p) == {i \in DOMAIN ops : ops[i].how \in Covers /\ Under(p, ops[i].dst)}
Top(ops, p) == CHOOSE i \in Over(ops, p) : \A j \in Over(ops, p) : j <= i
\* The host path behind a place inside, and the file that opening it opens.
Shown(ops, p) ==
  IF Over(ops, p) = {} THEN None
  ELSE LET op == ops[Top(ops, p)]
       IN IF op.how \in Binds /\ canonicalize(op.src) # None
          THEN canonicalize(op.src) \o SubSeq(p, Len(op.dst) + 1, Len(p)) ELSE None
Opens(ops, p) ==
  LET end == FoldLeft(LAMBDA at, c : LET q == Append(at, c)
                                     IN IF Shown(ops, q) \in DOMAIN host.links THEN host.links[Shown(ops, q)] ELSE q,
                      Root, p)
  IN IF Shown(ops, end) \in DOMAIN host.tree THEN Shown(ops, end) ELSE None
\* A mount point that is not there is made first, which a read-only mount does not let it be.
ReadOnly(ops, i) == \/ ops[i].how \in {"ro", "try"}
                    \/ \E j \in DOMAIN ops : j > i /\ ops[j].how = "remount" /\ ops[j].dst = ops[i].dst
Creates == Covers \cup {"symlink", "dir"}
Unmade(ops, i) ==
  LET before == SubSeq(ops, 1, i - 1)
      dst == ops[i].dst
  IN /\ ops[i].how \in Creates /\ Over(before, dst) # {} /\ before[Top(before, dst)].dst # dst
     /\ ReadOnly(before, Top(before, dst)) /\ Opens(before, dst) = None
\* The places inside a sandbox where a host path would be if nothing covered it.
Places(ops, h) == {<<i, ops[i].dst \o SubSeq(h, Len(canonicalize(ops[i].src)) + 1, Len(h))>> :
                     i \in {j \in DOMAIN ops : /\ ops[j].how \in Binds /\ canonicalize(ops[j].src) # None
                                               /\ Under(h, canonicalize(ops[j].src))}}
Visible(ops, h) == \E pl \in Places(ops, h) : Top(ops, pl[2]) = pl[1]

-----------------------------------------------------------------------------
(* The D-Bus plan of a run: which of the three buses xdg-dbus-proxy serves it  *)
(* and under which rules, made from the granted services, and the reading the  *)
(* proxy gives those rules - a name sits on one rung, and a rule on calls      *)
(* counts only below the rung that lets everything through.  A name is the     *)
(* sequence of its elements.                                                   *)

Granted(services, n) == \E i \in DOMAIN services : services[i].n = n
NodeAt(services, n) == CHOOSE i \in DOMAIN services : services[i].n = n /\ \A j \in 1..(i - 1) : services[j].n # n
Rule(kind, name) == [kind |-> kind, name |-> name, what |-> "*"]
Both(name, what) == {[kind |-> k, name |-> name, what |-> what] : k \in {"call", "broadcast"}}

PORTAL_SAFE == {"FileChooser", "Settings"}
interfaces(child) == IF child = "screencast" THEN {"ScreenCast", "RemoteDesktop"} ELSE {child}
portal_rules(children) ==
  UNION {Both(<<"portal", "Desktop">>, i) : i \in PORTAL_SAFE \cup UNION {interfaces(c) : c \in children}
                                              \cup {"Request", "Session"}}
    \cup Both(<<"portal", "Documents">>, "*")
    \cup {r \in Both(<<"portal", "Desktop">>, "Properties.Get") \cup Both(<<"portal", "Desktop">>, "Introspect") : r.kind = "call"}
camera_rules == Both(<<"portal", "Desktop">>, "Camera")
INPUT_METHOD_RULES == {Rule("talk", <<"portal", "Fcitx">>), Rule("talk", <<"portal", "IBus">>)}
A11Y_RULES == Both(<<"atspi", "Registry">>, "Socket")

BundleRules(s) ==
  CASE s.n = "portals" -> portal_rules(s.children)
    [] s.n = "notify" -> {Rule("talk", <<"fd", "Notifications">>)}
    [] s.n = "tray" -> {Rule("talk", <<"kde", "StatusNotifierWatcher">>)}
    [] s.n = "input-method" -> INPUT_METHOD_RULES
    [] s.n = "mpris" -> {Rule("own", <<"mpris", s.name>>)}
    [] s.n = "camera" -> camera_rules
    [] OTHER -> {}

NoSection == [served |-> FALSE, rules |-> {}]
Section(rules) == [served |-> TRUE, rules |-> rules]
plan(services) ==
  LET has(n) == Granted(services, n)
      explicit(n) == ToSet(services[NodeAt(services, n)].rules)
  IN [session |-> IF has("dbus")
                    THEN Section(explicit("dbus") \cup UNION {BundleRules(services[i]) : i \in DOMAIN services})
                    ELSE NoSection,
      system |-> IF has("system-bus") THEN Section(explicit("system-bus")) ELSE NoSection,
      a11y |-> IF has("a11y") /\ (has("dbus") \/ has("system-bus")) THEN Section(A11Y_RULES) ELSE NoSection,
      portals |-> has("portals") /\ (has("dbus") \/ has("system-bus"))]
Planned(services) == Granted(services, "dbus") \/ Granted(services, "system-bus")

Sockets == [session |-> "bus", system |-> "system", a11y |-> "a11y"]
buses(p) == {Sockets[b] : b \in {c \in DOMAIN Sockets : p[c].served}}

-----------------------------------------------------------------------------
(* The launch.                                                                 *)

CONSTANTS Setups,  \* pairs of a config (services, --share flags, etc, env keys) and a host it meets
          Args     \* the arguments to try

VARIABLES cfg,     \* the instance's config and the run's flags
          pc,      \* "start", "built", "swept", "running", "refused" or "failed"
          ops,     \* the application's operations, in the order bwrap applies them
          sides,   \* the operations of each sidecar
          gone,    \* devices unplugged since the launch began
          planted, \* links an application left in a tree it may write
          late     \* the ones planted after the sweep

bxvars == <<host, cfg, pc, ops, sides, gone, planted, late>>

Services == cfg.services
Has(n) == Granted(Services, n)
Of(n) == Services[NodeAt(Services, n)]
IsType(p, t) == file_type(p) = t
\* A path bubbler binds only where the host has it must then be of its type.
IfThere(p, t) == file_type(p) \in {"absent", t}

SandboxInit ==
  /\ \E s \in Setups : host = s.host /\ cfg = s.cfg
  /\ pc = "start" /\ ops = <<>> /\ sides = {}
  /\ gone = {}
  /\ planted = {} /\ late = {}

(* ---- each service: what refuses it, and what it binds --------------------- *)
Runtime(name) == Append(Env.runtime, name)
Ours(name) == Append(InstanceRuntime, name)   \* a socket this run's own sidecars make

XWAYLAND == <<"usr", "xwayland">>
PwContainer == <<"usr", "pw-container">>
PulseModule == <<"usr", "pulse-module">>
NetProxy == <<"usr", "net-proxy">>
Resolv == Etc("resolv.conf")
Cookie == IF Env.xauthority # None THEN Env.xauthority ELSE Append(Env.home, ".Xauthority")

x11Refused(s) ==
  IF s.mode = "nested" THEN ~IsType(XWAYLAND, "file")
  ELSE \/ Env.display = "none"
       \/ ~IsType(<<"tmp", "X0">>, "socket")
       \/ Env.xauthority # None /\ ~IsType(Cookie, "file")
x11(s) == IF s.mode = "nested" THEN <<>>
          ELSE <<RoBind(<<"tmp", "X0">>)>>
               \o (IF IsType(Cookie, "file") THEN <<Op("ro", Cookie, Append(SandboxHome, ".Xauthority"))>> ELSE <<>>)

waylandRefused(s) ==
  \/ ~Env.plain_display
  \/ s.mode = "host" /\ ~IsType(Runtime("wayland-0"), "socket")
wayland(s) == <<Op("ro", IF s.mode = "host" THEN Runtime("wayland-0") ELSE Ours("wayland"), Runtime("wayland-0"))>>

networkRefused(s) ==
  \/ s.mode = "host" /\ ~s.dns /\ ~IsType(Resolv, "file")
  \/ s.hosts /\ ~IsType(NetProxy, "file")
network(s) ==
  (IF s.dns \/ s.mode = "isolated" THEN <<Data(Resolv)>> ELSE IF s.mode = "host" THEN <<RoBind(Resolv)>> ELSE <<>>)
    \o (IF s.hosts THEN <<Op("ro", NetProxy, <<"run", "net-proxy">>)>> ELSE <<>>)

(* dri: render nodes alone unless kms, and the directory behind each with the  *)
(* primary nodes' part of it masked.  A GPU on NVIDIA's driver keeps its       *)
(* primary node.                                                               *)
Gpus == host.gpus
SysDevices == <<"sys", "devices">>
DrmDir(g) == g.dir \o <<"drm", g.card>>
driRefused(s) ==
  \/ ~IsType(Dev("dri"), "dir") \/ Gpus = {}
  \/ \E p \in {<<"sys", "char">>, <<"sys", "devices", "cpu">>} : ~IsType(p, "dir")
  \/ \E g \in Gpus : canonicalize(g.dir) = None \/ ~Under(g.dir, SysDevices)
PrimaryNode(g, kms) == kms \/ (g.nvidia /\ IsType(DrmDir(g), "dir"))
dri(s) ==
  Each(DevBind, SetToSeq({<<"dev", "dri", g.render>> : g \in Gpus}
                        \cup {<<"dev", "dri", g.card>> : g \in {h \in Gpus : PrimaryNode(h, s.kms)}}
                        \cup {p \in {Dev("nvidia0")} : IsType(p, "char")}))
    \o Each(RoBind, SetToSeq({<<"sys", "char">>, <<"sys", "devices", "cpu">>} \cup {g.dir : g \in Gpus}))
    \o Each(Symlink, SetToSeq({<<"sys", "class", "drm", g.render>> : g \in Gpus}))
mask_dirs(s) == IF s.kms THEN <<>>
                ELSE Each(Tmpfs, SetToSeq({DrmDir(g) : g \in {h \in Gpus : IsType(DrmDir(h), "dir")}}))
dri_binds_a_primary_node == \E g \in Gpus : g.nvidia

\* Nodes found in /dev a moment ago: each may be gone when bwrap starts.
DevTry(p) == Op("devtry", p, p)
Nodes(prefixed) == SetToSeq({Dev(d) : d \in {x \in prefixed : IsType(Dev(x), "char")}})
hidraw == Each(DevTry, Nodes(host.hidraw)) \o Each(RoBind, Present(<<<<"sys", "hidraw">>>>))
camera_nodes(udev) ==
  Each(DevTry, Nodes(host.video))
    \o Each(RoBind, Present(<<Dev("v4l"), <<"sys", "video4linux">>>> \o (IF udev THEN <<<<"run", "udev">>>> ELSE <<>>)))
gamepadRefused(s) ==
  \/ \E p \in {Dev("input"), <<"sys", "input">>, SysDevices} : ~IsType(p, "dir")
  \/ ~IfThere(<<"run", "udev">>, "dir")
  \/ s.uinput /\ ~IsType(Dev("uinput"), "char")
gamepad(s, raw) ==
  <<DevBind(Dev("input")), RoBind(<<"sys", "input">>), RoBind(SysDevices)>>
    \o Each(RoBind, Present(<<<<"run", "udev">>>>))
    \o raw \o (IF s.uinput THEN <<DevBind(Dev("uinput"))>> ELSE <<>>)
RawHid == Has("hidraw") \/ (Has("gamepad") /\ Of("gamepad").hidraw)

bus(socket) == Op("ro", Ours(socket), IF socket = "system" THEN <<"run", "system_bus">> ELSE Runtime(socket))
FlatpakInfo == <<".flatpak-info">>
UsrBin == <<"usr", "bin">>
portals ==
  <<Data(FlatpakInfo), Op("overlay", UsrBin, UsrBin), Op("ro", <<"usr", "init">>, Append(UsrBin, "flatpak-spawn")),
    Op("remount", None, UsrBin)>>
    \o (IF host.doc THEN <<Op("rw", Runtime("doc") \o <<"by-app", "i">>, Runtime("doc"))>> ELSE <<>>)
app_runtime(s) == <<Op(s.mode, Env.runtime \o <<"app", s.id>>, Env.runtime \o <<"app", s.id>>)>>

AsOps(share) == IF share.is = "bound" THEN <<Op(share.mode, share.src, share.dst)>> ELSE <<>>
Refused(s) ==
  CASE s.n = "wayland" -> waylandRefused(s)
    [] s.n = "x11" -> x11Refused(s)
    [] s.n = "network" -> networkRefused(s)
    [] s.n = "home-share" -> home_share(s).is = "refused"
    [] s.n = "path-share" -> path_share(s).is = "refused"
    [] s.n = "dri" -> driRefused(s)
    [] s.n = "pipewire" -> ~IsType(PwContainer, "file")
    [] s.n = "pulseaudio" -> ~IsType(PwContainer, "file") \/ ~IsType(PulseModule, "file")
    [] s.n = "etc-share" -> confine(<<"etc">>, Etc(s.name)) = None
    [] s.n = "portals" -> ~plan(Services).session.served
    [] s.n = "a11y" -> ~plan(Services).a11y.served
    [] s.n = "camera" -> ~Has("portals") \/ (s.nodes /\ ~IfThere(<<"run", "udev">>, "dir"))
    [] s.n = "gamepad" -> gamepadRefused(s)
    [] OTHER -> FALSE
Applied(s) ==
  CASE s.n = "wayland" -> wayland(s)
    [] s.n = "x11" -> x11(s)
    [] s.n = "network" -> network(s)
    [] s.n = "home-share" -> AsOps(home_share(s))
    [] s.n = "dri" -> dri(s)
    [] s.n = "pipewire" -> <<Op("ro", Ours("pipewire-0"), Runtime("pipewire-0"))>>
    [] s.n = "pulseaudio" -> <<Op("ro", Ours("pulse"), Runtime("pulse"))>>
    [] s.n = "etc-share" -> <<Op("ro", confine(<<"etc">>, Etc(s.name)), Etc(s.name))>>
    [] s.n = "app-runtime" -> app_runtime(s)
    [] s.n = "dbus" -> <<bus("bus")>>
    [] s.n = "system-bus" -> <<bus("system")>>
    [] s.n = "a11y" -> <<bus("a11y")>>
    [] s.n = "portals" -> portals
    [] s.n = "camera" -> IF s.nodes THEN camera_nodes(~Has("gamepad")) ELSE <<>>
    [] OTHER -> <<>>

(* The variables the grants set, none of which a config's env may name, each   *)
(* as the words of its name.                                                   *)
RESERVED_ENV == {<<"HOME">>, <<"PATH">>, <<"WAYLAND", "DISPLAY">>, <<"DISPLAY">>, <<"XAUTHORITY">>, <<"HTTPS", "PROXY">>}

(* ---- the whole argument list ---------------------------------------------- *)
PathShares == SelectSeq([i \in DOMAIN Services |-> IF Services[i].n = "path-share" THEN path_share(Services[i]) ELSE Absent],
                        LAMBDA b : b.is = "bound")
HomeShares == SelectSeq([i \in DOMAIN Services |-> IF Services[i].n = "home-share" THEN home_share(Services[i]) ELSE Absent],
                        LAMBDA b : b.is = "bound")
Flags == [i \in DOMAIN cfg.shares |-> share_paths(cfg.shares[i])]
PathSharesOverlap == \E i, j \in DOMAIN PathShares : i < j /\ Overlap(PathShares[i], PathShares[j])
FlagsSame == \E i \in DOMAIN Flags : \/ Flags[i].is = "refused"
                                    \/ \E j \in 1..(i - 1) : Flags[i].dst = Flags[j].dst
FlagsOverlap ==
  \E i \in DOMAIN Flags :
    \/ Flags[i].is = "refused"
    \/ \E j \in 1..(i - 1) : Overlap(Flags[i], Flags[j])
    \/ \E k \in DOMAIN PathShares : Overlap(Flags[i], PathShares[k])
    \/ \E k \in DOMAIN HomeShares : Overlap(Flags[i], HomeShares[k])

InitBin == <<"usr", "init">>
build_refused ==
  \/ ~IsType(InitBin, "file")
  \/ \E i \in DOMAIN Services : Refused(Services[i])
  \/ RawHid /\ ~IfThere(<<"sys", "hidraw">>, "dir")
  \/ PathSharesOverlap \/ FlagsOverlap
  \/ cfg.env \cap RESERVED_ENV # {}
apply_all ==
  FlattenSeq([i \in DOMAIN Services |-> Applied(Services[i])])
    \o (LET raw == IF RawHid THEN hidraw ELSE <<>> IN IF Has("gamepad") THEN gamepad(Of("gamepad"), raw) ELSE raw)
    \o FlattenSeq([i \in DOMAIN PathShares |-> AsOps(PathShares[i])])
apply_shares == FlattenSeq([i \in DOMAIN Flags |-> AsOps(Flags[i])])
build_args ==
  emit(baseline(cfg.etc),
       apply_all \o apply_shares \o <<Op("ro", InitBin, <<"run", "bubbler-init">>)>>,
       IF Has("dri") THEN mask_dirs(Of("dri")) ELSE <<>>)

(* The sidecars' argument lists: each gets the one socket it forwards.         *)
HostBus(b) == Env.buses[b]
BusesNeeded == {b \in DOMAIN Sockets : plan(Services)[b].served}
proxy_refused == \E b \in BusesNeeded : ~outside_our_runtime(HostBus(b))
Sidecars ==
  (IF Planned(Services) THEN {proxy_baseline(SetToSeq({resolve(HostBus(b)) : b \in BusesNeeded}), Ours("dbus"))} ELSE {})
    \cup (IF Has("wayland") /\ Of("wayland").mode # "host"
            THEN {wl_proxy_baseline(IF Env.context THEN Ours("wayland-context") ELSE Runtime("wayland-0"))} ELSE {})
    \cup (IF Has("pipewire") \/ Has("pulseaudio") THEN {pw_context_baseline(Runtime("pipewire-0"), Ours("pipewire"))} ELSE {})
    \cup (IF Has("pulseaudio") THEN {pw_pulse_baseline(Ours("pipewire-0"), Ours("pulse-dir"))} ELSE {})
\* The sockets those sidecars leave for the sandbox.
Served == {Ours(s) : s \in buses(plan(Services))
                       \cup (IF Has("wayland") /\ Of("wayland").mode # "host" THEN {"wayland"} ELSE {})
                       \cup (IF Has("pipewire") \/ Has("pulseaudio") THEN {"pipewire-0"} ELSE {})
                       \cup (IF Has("pulseaudio") THEN {"pulse"} ELSE {})}
\* What the launcher makes before the start, and the document portal on a lookup.
Made == Served \cup {Env.runtime \o <<"app", Services[i].id>> : i \in {j \in DOMAIN Services : Services[j].n = "app-runtime"}}
               \cup {Runtime("doc") \o <<"by-app", "i">>}

(* ---- the launch ------------------------------------------------------------ *)
Build ==
  /\ pc = "start"
  /\ IF build_refused \/ proxy_refused
       THEN pc' = "refused" /\ UNCHANGED <<ops, sides>>
       ELSE pc' = "built" /\ ops' = build_args /\ sides' = Sidecars
  /\ UNCHANGED <<host, cfg, gone, planted, late>>

(* The trees an application may write: its home, an application id's shared    *)
(* directory, the documents it was given.                                      *)
IsTree(op) == /\ op.how \in {"rw", "ro"}
              /\ \/ op.dst = SandboxHome \/ op.dst = Runtime("doc")
                 \/ op.dst # <<>> /\ Front(op.dst) = Runtime("app")
writable_trees == {ops[i] : i \in {j \in DOMAIN ops : IsTree(ops[j])}}
destinations == {ops[i].dst : i \in {j \in DOMAIN ops : ops[j].how \in Creates}}
\* The components of one destination below a tree's root, where they are on the host.
Below(tree, d) == {tree.src \o SubSeq(d, Len(tree.dst) + 1, n) : n \in (Len(tree.dst) + 1)..Len(d)}
sweep_destinations ==
  /\ pc = "built"
  /\ pc' = IF \E t \in writable_trees : \E d \in destinations : Under(d, t.dst) /\ Below(t, d) \cap planted # {}
             THEN "refused" ELSE "swept"
  /\ UNCHANGED <<host, cfg, ops, sides, gone, planted, late>>

\* bwrap fails on a source that is not there, unless it may be missing, and on
\* a mount point it cannot make.
Fails(i) == (ops[i].src \notin Made /\ Missing(ops[i], gone)) \/ Unmade(ops, i)
Exec ==
  /\ pc = "swept"
  /\ pc' = IF \E i \in DOMAIN ops : Fails(i) THEN "failed" ELSE "running"
  /\ UNCHANGED <<host, cfg, ops, sides, gone, planted, late>>

Unplug(d) ==
  /\ pc \in {"built", "swept"} /\ d \notin gone
  /\ gone' = gone \cup {d}
  /\ UNCHANGED <<host, cfg, pc, ops, sides, planted, late>>

\* An earlier run of the instance, another one that shares an id, or one still live.
Plantable == {Append(InstanceHome, "docs"), Append(InstanceHome, ".Xauthority")}
Plant(p) ==
  /\ pc \in {"start", "built", "swept"} /\ planted = {}
  /\ planted' = {p}
  /\ late' = IF pc = "swept" THEN {p} ELSE late
  /\ UNCHANGED <<host, cfg, pc, ops, sides, gone>>

SandboxNext ==
  \/ Build \/ sweep_destinations \/ Exec
  \/ \E d \in {Dev(x) : x \in host.hidraw \cup host.video} : Unplug(d)
  \/ \E p \in Plantable : Plant(p)
SandboxSpec == SandboxInit /\ [][SandboxNext]_bxvars

-----------------------------------------------------------------------------
(* Which arguments of a command name host files (plan() of forward.rs): one    *)
(* to ask the document portal for, one the sandbox sees under another name,    *)
(* one it sees where it was named, and the ones that are left alone.  An       *)
(* argument is written as [scheme, auth, shape, path, nul], each component of  *)
(* its path plain or percent-escaped; what registers the candidates is         *)
(* Forward's.                                                                  *)

BASELINE_ROOTS == <<<<"usr">>, <<"opt">>>>
REFUSED_ROOTS == {<<"proc">>, <<"sys">>, <<"dev">>}

(* ---- the path an argument names --------------------------------------------- *)
\* What an escape is where nothing decodes it: a name of its own.
AsWritten(path) == [i \in DOMAIN path |-> IF path[i].esc THEN "%" ELSE path[i].c]
percent_decode(path) == [i \in DOMAIN path |-> path[i].c]
Nothing == [named |-> FALSE]
Named(abs, path) == [named |-> TRUE, abs |-> abs, path |-> path]
host_path(arg) ==
  CASE arg.nul \/ arg.shape = "empty" -> Nothing
    [] ~arg.nul /\ arg.scheme = "file" /\ arg.shape # "empty" ->
         IF arg.auth = "far" \/ (arg.auth # "none" /\ arg.shape # "abs") THEN Nothing
         ELSE Named(arg.shape = "abs", percent_decode(arg.path))
    [] ~arg.nul /\ arg.scheme = "none" /\ arg.shape \in {"abs", "dots"} -> Named(arg.shape = "abs", AsWritten(arg.path))
    [] OTHER -> Nothing

(* ---- the trees the sandbox reaches already ---------------------------------- *)
SameAs(p) == [host |-> p, inside |-> None]
Inside(p, at) == [host |-> p, inside |-> at]
\* A source that is a link: the tree behind it is at the path that was written.
\* Mutant: the tree behind it is taken to be where it is on the host.
AddInPlace(r, keep) ==
  LET real == canonicalize(r.host)
  IN (IF real \notin {None, r.host, Root} /\ keep THEN <<[r EXCEPT !.host = real]>> ELSE <<>>) \o <<r>>
add_root(r, keep) ==
  LET real == canonicalize(r.host)
  IN (IF real \notin {None, r.host, Root} /\ keep THEN <<Inside(real, IF r.inside = None THEN r.host ELSE r.inside)>> ELSE <<>>)
     \o <<r>>
reserved(p) == denied_root(Resolved(p), p)
InHome(p) == Under(Resolved(p), Env.home)
ShareRoots(s) ==
  CASE s.n \in {"home-share", "path-share"} /\ s.optional
         /\ file_type(IF s.n = "home-share" THEN Env.home \o s.path ELSE s.path) = "absent" -> <<>>
    [] s.n = "home-share" /\ ~(s.optional /\ file_type(Env.home \o s.path) = "absent") ->
         add_root(Inside(Env.home \o s.path, SandboxHome \o s.path), InHome(Env.home \o s.path))
    [] s.n = "path-share" /\ ~(s.optional /\ file_type(s.path) = "absent") -> add_root(SameAs(s.path), ~reserved(s.path))
    [] s.n = "etc-share" -> add_root(SameAs(Etc(s.name)), Under(Resolved(Etc(s.name)), <<"etc">>))
    [] OTHER -> <<>>
FlagRoots(s) ==
  IF Under(s.path, Env.home)
  THEN add_root(Inside(s.path, SandboxHome \o SubSeq(s.path, Len(Env.home) + 1, Len(s.path))), InHome(s.path))
  ELSE add_root(SameAs(s.path), ~reserved(s.path))
visible_roots ==
  SelectSeq(add_root(Inside(InstanceHome, SandboxHome), TRUE)
            \o FlattenSeq([i \in DOMAIN BASELINE_ROOTS |-> add_root(SameAs(BASELINE_ROOTS[i]), TRUE)])
            \o FlattenSeq([i \in DOMAIN ETC_ALLOWLIST |-> add_root(SameAs(ETC_ALLOWLIST[i]), TRUE)])
            \o FlattenSeq([i \in DOMAIN Services |-> ShareRoots(Services[i])])
            \o FlattenSeq([i \in DOMAIN cfg.shares |-> FlagRoots(cfg.shares[i])]),
            LAMBDA r : r.host # Root)

(* ---- one argument ------------------------------------------------------------ *)
Untouched == [is |-> "untouched"]
Skip(why) == [is |-> "skip", why |-> why]
\* The longest root over a path, the last of them.
Covering(roots, p) == {i \in DOMAIN roots : Under(p, roots[i].host)}
Longest(roots, p) == CHOOSE i \in Covering(roots, p) :
                       \A j \in Covering(roots, p) : Len(roots[j].host) < Len(roots[i].host)
                                                      \/ (Len(roots[j].host) = Len(roots[i].host) /\ j <= i)
refused(p) == \E r \in REFUSED_ROOTS : Under(p, r)
classify(arg, roots) ==
  LET name == host_path(arg)
      given == name.path
      real == Resolved(given)
      root == roots[Longest(roots, real)]
      inside == root.inside \o SubSeq(real, Len(root.host) + 1, Len(real))
  IN CASE ~name.named -> Untouched
       [] name.named /\ ~name.abs -> Skip("relative")
       [] name.named /\ name.abs /\ (\E i \in DOMAIN given : given[i] = "..") -> Skip("dotdot")
       [] OTHER ->
            CASE refused(given) \/ refused(real) -> Skip("refused")
              [] ~refused(given) /\ ~refused(real) /\ Covering(roots, real) # {} ->
                   IF root.inside = None \/ inside = given THEN Skip("visible")
                   ELSE [is |-> "rename", host |-> given, inside |-> inside]
              [] OTHER -> CASE file_type(real) = "dir" -> Skip("directory")
                            [] file_type(real) # "file" -> Skip("not a file")
                            [] OTHER -> [is |-> "forward", given |-> given, host |-> real, name |-> Last(real),
                                         write |-> real \in host.writable]
plan_args(args) == [i \in DOMAIN args |-> IF i = 1 THEN Untouched ELSE classify(args[i], visible_roots)]

-----------------------------------------------------------------------------
(* A `dri` without `kms` shows no directory of a primary node - the monitors'  *)
(* EDID, the framebuffer's geometry - whatever else is granted and in          *)
(* whichever order: `gamepad` binds the whole of /sys/devices, and the masks   *)
(* are laid after it (mask_dir() and emit(), bwrap.rs).                        *)
MasksHold ==
  pc = "running" /\ Has("dri") /\ ~Of("dri").kms
    => \A g \in Gpus : \A h \in DOMAIN host.tree : Under(h, DrmDir(g)) => ~Visible(ops, h)

(* No sandbox of a run shows the instance store beyond the instance's own      *)
(* home, a profile layer or a control socket, through whichever links a share  *)
(* or a bus address leads there (env_roots() and denied_root(), service.rs;    *)
(* outside_our_runtime(), dbus.rs).                                            *)
Private(h) ==
  \/ \E dir \in {Env.data_home, Env.config_home} : Under(h, Resolved(Bubbler(dir))) /\ ~Under(h, Resolved(InstanceHome))
  \/ \E dir \in Env.profile_dir : Under(h, Resolved(dir))
  \/ h = Resolved(Ours("control"))
StoreHidden ==
  pc = "running" => \A o \in {ops} \cup sides : \A h \in DOMAIN host.tree : Private(h) => ~Visible(o, h)

(* A path-share and a --share show at their place what they bind, in their own *)
(* mode, whatever the order: nothing else is mounted there or inside, before   *)
(* or after, so none hides another (the overlap rules of path_shares() and     *)
(* share_plan(), service.rs; the X11 cookie is the one bind they do not see).  *)
Shares == {PathShares[i] : i \in DOMAIN PathShares} \cup {Flags[i] : i \in DOMAIN Flags}
SharesShown ==
  pc = "running" => \A sh \in Shares :
    /\ ops[Top(ops, sh.dst)] = Op(sh.mode, sh.src, sh.dst)
    /\ \A i \in DOMAIN ops : Under(ops[i].dst, sh.dst) => ops[i] = Op(sh.mode, sh.src, sh.dst) \/ ops[i].src = Cookie

(* A sandbox that started was given no destination behind a link planted in a  *)
(* tree an application writes, but for one planted after the sweep, the window *)
(* only bwrap 0.12.0 closes (sweep_destinations(), service.rs).                *)
SweptClean ==
  pc = "running" => \A t \in writable_trees, d \in destinations :
    Under(d, t.dst) => \A n \in (Len(t.dst) + 1)..Len(d) :
      t.src \o SubSeq(d, Len(t.dst) + 1, n) \notin planted \ late

(* A list that was built starts: every source bwrap is named was probed, or is *)
(* a socket the plan of this run has a sidecar serve, or is a device that may  *)
(* go in the moment before the exec; and every mount point is there or can be  *)
(* made, what lies in the read-only /usr and /etc included (dev_bind_try(),    *)
(* flatpak_spawn_shim() and bind_host_etc(), bwrap.rs).  The one that may not  *)
(* be is the resolv.conf of a run that shows the host's own /etc, in which     *)
(* there is no tmpfs to lay it in (network(), service.rs:217).                 *)
StartsOnceBuilt == pc = "failed" => \A i \in DOMAIN ops : Fails(i) => ops[i].dst = Resolv /\ cfg.etc = "host"

(* What the application is not given it does not see, in whichever order the   *)
(* services, the shares and the user's links come (bwrap.rs, service.rs).      *)
KeptOut == MasksHold /\ StoreHidden /\ SweptClean

(* What it is given it gets: a list that was built starts, and every share is  *)
(* there in its own mode (service.rs).                                         *)
Delivered == SharesShown /\ StartsOnceBuilt

Outcome(arg) == plan_args(<<arg, arg>>)[2]
GivenOf(arg) == host_path(arg).path

(* The command finds in the sandbox the file its argument named: a renamed      *)
(* argument opens, inside, what the given one resolves to on the host, and so   *)
(* does one left alone because it names, without a link, what a share shows     *)
(* (visible_roots() mirrors the binds of service.rs and bwrap.rs).              *)
ArgumentsReach ==
  pc = "running" => \A arg \in Args :
    LET out == Outcome(arg)
        real == canonicalize(GivenOf(arg))
    IN /\ out.is = "rename" /\ real # None => Opens(ops, out.inside) = real
       /\ out = Skip("visible") /\ real = GivenOf(arg) => Opens(ops, GivenOf(arg)) = real
(* "Already reachable inside *at the same path*" (the comment of                *)
(* Skip::AlreadyVisible, forward.rs:101): an argument left alone for being      *)
(* visible opens inside, whatever links it was named by.                        *)
VisibleReach ==
  pc = "running" => \A arg \in Args :
    Outcome(arg) = Skip("visible") /\ canonicalize(GivenOf(arg)) # None => Opens(ops, GivenOf(arg)) # None
=============================================================================
