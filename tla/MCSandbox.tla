----------------------------- MODULE MCSandbox ------------------------------
(* Configs of up to three grants on hosts whose directories are plain or       *)
(* behind links.                                                               *)
EXTENDS Lint

\* A small host: directories, the files the services probe, and two GPUs.
Dirs == {<<>>, <<"usr">>, <<"usr", "bin">>, <<"etc">>, <<"dev">>, <<"dev", "dri">>, <<"dev", "input">>, <<"dev", "v4l">>,
         <<"sys">>, <<"sys", "char">>, <<"sys", "input">>, <<"sys", "hidraw">>, <<"sys", "devices">>, <<"sys", "devices", "cpu">>,
         <<"sys", "devices", "gpu0">>, <<"sys", "devices", "gpu0", "drm">>, <<"sys", "devices", "gpu0", "drm", "card0">>,
         <<"sys", "devices", "gpu1">>, <<"sys", "devices", "gpu1", "drm">>, <<"sys", "devices", "gpu1", "drm", "card1">>,
         <<"run">>, <<"run", "udev">>, <<"run", "media">>, <<"run", "media", "disk">>, <<"run", "u">>, <<"run", "u", "bubbler">>,
         <<"run", "u", "bubbler", "i">>, <<"run", "u", "doc">>, <<"tmp">>, <<"home">>, <<"home", "u">>, <<"home", "u", "docs">>,
         <<"home", "u", "docs", "sub">>, <<"mnt">>, <<"mnt", "a">>, <<"mnt", "a", "b">>, <<"srv">>}
FilesHere == {<<"usr", "init">>, <<"usr", "xwayland">>, <<"usr", "pw-container">>, <<"usr", "pulse-module">>, <<"usr", "net-proxy">>,
              <<"etc", "hosts">>, <<"etc", "resolv.conf">>, <<"etc", "passwd-">>, <<"etc", "passwd">>, <<"etc", "group">>, <<"run", "stub">>, <<"home", "u", ".Xauthority">>, <<"mnt", "a", "b", "f">>, <<"home", "u", "docs", "f">>}
Socks == {<<"tmp", "X0">>, <<"run", "u", "wayland-0">>, <<"run", "u", "pipewire-0">>, <<"run", "u", "bus">>, <<"run", "system_bus">>,
          <<"run", "u", "a11y">>, <<"run", "u", "bubbler", "i", "control">>}
Chars == {<<"dev", "hidraw0">>, <<"dev", "video0">>, <<"dev", "uinput">>, <<"dev", "ntsync">>, <<"dev", "nvidia0">>,
          <<"dev", "dri", "renderD128">>, <<"dev", "dri", "renderD129">>, <<"dev", "dri", "card0">>, <<"dev", "dri", "card1">>}
Tree(more) == [p \in Dirs \cup FilesHere \cup Socks \cup Chars \cup more |->
                 CASE p \in FilesHere -> "file" [] p \in Socks -> "socket" [] p \in Chars -> "char" [] OTHER -> "dir"]
Below2(dir) == {Append(dir, "bubbler"), dir \o <<"bubbler", "i">>, dir \o <<"bubbler", "i", "home">>, dir \o <<"bubbler", "secret">>}
HomeEnv == [home |-> <<"home", "u">>, runtime |-> <<"run", "u">>, data_home |-> <<"home", "u", "data">>,
            config_home |-> <<"home", "u", "config">>, profile_dir |-> {}, xauthority |-> None, display |-> ":0",
            plain_display |-> TRUE, context |-> TRUE,
            config_dirs |-> <<>>, data_dirs |-> <<<<"usr", "share">>>>, search_path |-> {<<"usr", "bin">>},
            buses |-> [session |-> <<"run", "u", "bus">>, system |-> <<"run", "system_bus">>, a11y |-> <<"run", "u", "a11y">>]]
Gpu(r, c, d, nv) == [render |-> r, card |-> c, dir |-> <<"sys", "devices", d>>, nvidia |-> nv]
Host(tree, links, env) ==
  [tree |-> tree, links |-> links, env |-> env, doc |-> TRUE, hidraw |-> {"hidraw0"}, video |-> {"video0"},
   mounts |-> {<<"run", "media", "disk">>}, writable |-> {<<"mnt", "a", "b", "f">>},
   read |-> [p \in {<<"usr", "share", "50-bubbler.conf">>, <<"usr", "share", "refuse-links.lua">>} |-> "ours"],
   gpus |-> {Gpu("renderD128", "card0", "gpu0", FALSE), Gpu("renderD129", "card1", "gpu1", TRUE)}]
Data2 == {<<"home", "u", "data">>, <<"home", "u", "config">>, <<"home", "u", "config", "bubbler">>} \cup Below2(<<"home", "u", "data">>)
NoLinks == [p \in {} |-> p]
PlainHost == Host(Tree(Data2), NoLinks, HomeEnv)
\* The data home is a link out of the home, to where a share may look.
Moved == {<<"srv", "d">>, <<"home", "u", "config">>, <<"home", "u", "config", "bubbler">>} \cup Below2(<<"srv", "d">>)
MovedHost == Host(Tree(Moved), [p \in {<<"home", "u", "data">>} |-> <<"srv", "d">>], HomeEnv)
\* Only the store itself is a link, the profile layer is elsewhere, /mnt/l leads into the home, and
\* the resolver's file is under /run.
StoreLink == [p \in {<<"home", "u", "data", "bubbler">>, <<"srv", "k">>, <<"home", "u", "n">>, <<"mnt", "l">>, <<"home", "u", "l">>, <<"home", "u", "m">>, <<"run", "u", "evil">>, Resolv} |->
                CASE p \in {<<"home", "u", "m">>, <<"srv", "k">>} -> <<"mnt", "a">> [] p = <<"home", "u", "n">> -> <<"etc", "hosts">>
                  [] p = Resolv -> <<"run", "stub">> [] p = <<"mnt", "l">> -> <<"home", "u", "docs">> [] p = <<"home", "u", "l">> -> <<"srv", "s">>
                  [] p = <<"run", "u", "evil">> -> <<"run", "u", "bubbler", "i", "control">> [] OTHER -> <<"srv", "s">>]
LinkedHost ==
  Host(Tree({<<"home", "u", "data">>, <<"home", "u", "config">>, <<"home", "u", "config", "bubbler">>, <<"mnt", "p">>,
             <<"srv", "s">>, <<"srv", "s", "i">>, <<"srv", "s", "i", "home">>, <<"srv", "s", "secret">>}),
       StoreLink, [HomeEnv EXCEPT !.profile_dir = {<<"mnt", "p">>}, !.context = FALSE, !.xauthority = <<"home", "u", ".Xauthority">>,
                                  !.buses.session = <<"run", "u", "evil">>])
\* A bare host: nothing a service probes is there.
Least == {<<"usr", "init">>} \cup ToSet(ACCOUNTS)
BareHost == [Host([p \in Dirs \cup Data2 \cup Least |-> IF p \in Least THEN "file" ELSE "dir"], NoLinks,
                  [HomeEnv EXCEPT !.display = "none", !.plain_display = FALSE])
             EXCEPT !.gpus = {}, !.hidraw = {}, !.video = {}, !.doc = FALSE, !.read = [p \in {} |-> "ours"]]

N(n) == [n |-> n]
Home(p, m, o) == [n |-> "home-share", path |-> p, mode |-> m, optional |-> o]
PathSh(p, m, o) == [n |-> "path-share", path |-> p, mode |-> m, optional |-> o]
Grants == {[n |-> "wayland", mode |-> "host"], [n |-> "wayland", mode |-> "sandboxed"],
           [n |-> "x11", mode |-> "host"], [n |-> "x11", mode |-> "nested"],
           [n |-> "network", mode |-> "isolated", dns |-> FALSE, hosts |-> TRUE], [n |-> "network", mode |-> "host", dns |-> FALSE, hosts |-> FALSE],
           [n |-> "network", mode |-> "none", dns |-> FALSE, hosts |-> FALSE], [n |-> "network", mode |-> "isolated", dns |-> TRUE, hosts |-> FALSE],
           [n |-> "dri", kms |-> FALSE], [n |-> "dri", kms |-> TRUE], N("pipewire"), N("pulseaudio"),
           [n |-> "etc-share", name |-> "hosts"], [n |-> "app-runtime", id |-> "org.a", mode |-> "rw"],
           [n |-> "dbus", rules |-> <<Rule("talk", <<"fd", "secrets">>), Rule("own", <<"org", "*">>)>>], [n |-> "system-bus", rules |-> <<>>], [n |-> "portals", children |-> {"screencast"}],
           [n |-> "portals", children |-> {"camera"}, nodes |-> TRUE], [n |-> "camera", nodes |-> FALSE],
           [n |-> "camera", nodes |-> TRUE], [n |-> "gamepad", hidraw |-> TRUE, uinput |-> TRUE],
           [n |-> "gamepad", hidraw |-> FALSE, uinput |-> FALSE], N("hidraw"), N("notify"), N("a11y"), N("input-method")}
ShareNodes == {Home(<<"docs">>, "ro", FALSE), Home(<<"data">>, "ro", FALSE), Home(<<"l">>, "rw", TRUE), Home(<<"gone">>, "ro", TRUE),
               PathSh(<<"mnt", "a">>, "rw", FALSE), PathSh(<<"mnt", "a", "b">>, "ro", FALSE), PathSh(<<"srv">>, "rw", FALSE),
               PathSh(<<"mnt">>, "ro", FALSE), PathSh(<<"mnt", "l">>, "ro", TRUE), PathSh(<<"run", "media", "disk">>, "rw", TRUE),
               PathSh(<<"run">>, "ro", FALSE), PathSh(<<"srv", "k">>, "ro", FALSE), PathSh(<<"home", "u", "m">>, "ro", FALSE),
               PathSh(<<"home", "u", "gone">>, "ro", TRUE), PathSh(<<"tmp", "X0">>, "rw", FALSE)}
Flag(p, m) == [path |-> p, mode |-> m]
FlagSets == {<<>>, <<Flag(<<"home", "u", ".Xauthority">>, "ro")>>, <<Flag(<<"home", "u", "docs">>, "rw")>>, <<Flag(<<"mnt", "a", "b">>, "ro")>>, <<Flag(<<"srv">>, "rw"), Flag(<<"mnt">>, "rw")>>,
             <<Flag(<<"home", "u", "docs", "sub">>, "rw"), Flag(<<"home", "u", "docs">>, "rw")>>}
\* A node of a kind that is not repeated is the last layer's.
Merged(nodes) ==
  LET kept == SelectSeq([i \in DOMAIN nodes |-> i],
                        LAMBDA i : nodes[i].n \in REPEATABLE \/ \A j \in DOMAIN nodes : nodes[j].n = nodes[i].n => j <= i)
  IN [k \in DOMAIN kept |-> nodes[kept[k]]]
Cfg(layers, shares) ==
  LET nodes == Merged(FlattenSeq([i \in DOMAIN layers |-> flat(layers[i])]))
      named(n) == SelectSeq(nodes, LAMBDA x : x.n = n)
  IN [layers |-> layers, shares |-> shares,
      services |-> SelectSeq(nodes, LAMBDA x : x.n \notin {"etc", "env", "tty", "seccomp", "userns", "command", "desktop", "lint-allow"}),
      etc |-> IF named("etc") = <<>> THEN "list" ELSE Last(named("etc")).mode,
      env |-> {named("env")[i].key : i \in DOMAIN named("env")}]
EtcHost == [n |-> "etc", mode |-> "host"]
EnvVar(key, value) == [n |-> "env", key |-> key, value |-> value]
Allow(id) == [n |-> "lint-allow", id |-> id]
Bus3 == <<[n |-> "dbus", rules |-> <<>>], [n |-> "portals", children |-> {"secrets"}]>>
\* Layers about what a build does not read: the terminal, the filter, the command, what is accepted.
Others == {<<<<[n |-> "tty", mode |-> "passthrough"], Allow("tty-passthrough"), Allow("etc-host")>>, <<[n |-> "seccomp", disable |-> TRUE]>>>>,
           <<<<[n |-> "userns", mode |-> "disable"], [n |-> "command", argv0 |-> <<"firefox">>]>>, <<[n |-> "desktop", name |-> "a"]>>>>,
           <<<<[n |-> "command", argv0 |-> SandboxHome \o <<"docs">>], Home(<<"docs">>, "ro", FALSE), EnvVar(<<"API", "KEY">>, "x")>>>>,
           <<<<[n |-> "block", lines |-> <<PathSh(<<"srv">>, "rw", FALSE), PathSh(<<"mnt">>, "ro", TRUE)>>], EnvVar(<<"ELECTRON", "OZONE">>, "ghp_")>>>>,
           <<<<[n |-> "dbus", rules |-> <<Rule("talk", <<"fd", "*">>)>>], [n |-> "system-bus", rules |-> <<Rule("talk", <<"fd", "UDisks2">>)>>]>>,
             <<[n |-> "dbus", rules |-> <<Rule("see", <<"fd", "*">>)>>], [n |-> "mpris", name |-> "*"], [n |-> "tray"]>>>>,
           <<<<[n |-> "dbus", rules |-> <<>>]>>, <<[n |-> "wayland", mode |-> "sandboxed", clipboard |-> "open"]>>>>}
\* A plain path, a file URI with an escape in it, and what names no path.
Plain(p) == [scheme |-> "none", auth |-> "none", shape |-> "abs", nul |-> FALSE, path |-> [i \in DOMAIN p |-> [c |-> p[i], esc |-> FALSE]]]
Uri(p, auth) == [Plain(p) EXCEPT !.scheme = "file", !.auth = auth, !.path[1].esc = TRUE]
MCArgs == {Plain(p) : p \in {<<"mnt", "a", "b", "f">>, <<"srv", "k", "b", "f">>, <<"home", "u", "docs", "f">>, <<"home", "u", "m", "b", "f">>,
                             <<"home", "u", "n">>, <<"etc", "hosts">>, <<"mnt", "l", "f">>, <<"dev", "dri">>,
                             <<"home", "u", "data", "bubbler", "i", "home">>}}
  \cup {Uri(<<"mnt", "a", "b", "f">>, "localhost"), Uri(<<"home", "u", "docs">>, "far"), Uri(<<"mnt", "..", "etc">>, "none"),
        [Plain(<<"docs">>) EXCEPT !.shape = "dots"], [Plain(<<"docs">>) EXCEPT !.shape = "word"],
        [Plain(<<"mnt", "a">>) EXCEPT !.path[2].esc = TRUE], [Plain(<<"mnt">>) EXCEPT !.nul = TRUE]}
Pairs(set) == {<<a, b>> : a \in set, b \in set} \ {<<a, a>> : a \in set}
MCSetups ==
  {[host |-> h, cfg |-> Cfg(<<<<g, EtcHost>>>>, <<>>)] : g \in Grants, h \in {PlainHost, LinkedHost, BareHost}}
    \cup {[host |-> PlainHost, cfg |-> Cfg(<<<<gs[1]>>, <<gs[2], EnvVar(<<"LANG">>, "x")>>>>, <<>>)] :
            gs \in {p \in Pairs(Grants) : p[1].n # p[2].n}}
    \cup {[host |-> h, cfg |-> Cfg(<<Append(Bus3, g)>>, <<>>)] : g \in {x \in Grants : x.n \notin {"dbus", "portals"}}, h \in {PlainHost, LinkedHost}}
    \cup {[host |-> h, cfg |-> Cfg(<<ss>>, fs)] :
            ss \in {<<s>> : s \in ShareNodes}, fs \in FlagSets, h \in {PlainHost, MovedHost, LinkedHost}}
    \cup {[host |-> h, cfg |-> Cfg(<<ss>>, fs)] : ss \in Pairs(ShareNodes), fs \in {<<>>, <<Flag(<<"mnt", "a", "b">>, "ro")>>}, h \in {PlainHost, MovedHost, LinkedHost}}
    \cup {[host |-> PlainHost, cfg |-> Cfg(<<<<[n |-> "x11", mode |-> "host"], s>>>>, fs)] : s \in ShareNodes, fs \in FlagSets}
    \cup {[host |-> h, cfg |-> Cfg(ls, <<>>)] : ls \in Others, h \in {PlainHost, BareHost}}
    \cup {[host |-> PlainHost, cfg |-> Cfg(<<<<EnvVar(<<"PATH">>, "x")>>>>, <<>>)]}
=============================================================================
