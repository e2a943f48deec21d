------------------------------ MODULE MCConfig ------------------------------
(* Configs and profiles, part by part: a behaviour is one of the editor's pane, *)
(* one of a profile being resolved or one of the text interface around the     *)
(* pane.  No part reads a variable of another.                                 *)
EXTENDS Profile, App

MCValid == [app |-> {"org.a"}, etc |-> {"hosts"}, bus |-> {"b1", "b2"}, busrule |-> {"b1=r"},
            mpris |-> {"m"}, portal |-> {"documents", "inhibit"}, geometry |-> {"1280x720", "800x600"},
            wm |-> {"twm"}, ip |-> {"1.1.1.1", "::2", "127.0.0.1"}, cidr |-> {"10.0.0.0/8", "::2"},
            host |-> {"example.org"}, tty |-> {"pty", "none", "passthrough"}, userns |-> {"allow", "disable"},
            syscall |-> {"keyctl", "bpf", "prctl"}, errno |-> {"EPERM", "ENOSYS"}, envkey |-> {"A", "B"},
            text |-> {"x", "y"}, check |-> {"c1", "c2"}, desktop |-> {"a.desktop"}]
MCRel == [s \in {"docs", "docs/", "music"} |-> IF s = "music" THEN "music" ELSE "docs"]
MCAbs == [s \in {"/srv"} |-> s]
MCKiB == [w \in {"0K", "1G", "64G", "65G", "1024M", "3M", "3K"} |->
            CASE w = "0K" -> <<0, "K">> [] w = "1G" -> <<1, "G">> [] w = "64G" -> <<64, "G">>
              [] w = "65G" -> <<65, "G">> [] w = "1024M" -> <<1024, "M">> [] w = "3M" -> <<3, "M">>
              [] w = "3K" -> <<3, "K">>]

S(x) == Arg(Str(x))
P(p, x) == Prop(p, Str(x))
T(p) == Prop(p, Bool(TRUE))
\* One node of every kind and spelling, and lines their parsers refuse.
Shares == {Leaf("home-share", <<S("docs")>>), Leaf("home-share", <<S("docs/"), P("mode", "rw"), T("optional")>>),
           Leaf("home-share", <<S("music"), P("mode", "rw"), P("mode", "ro")>>),
           Leaf("path-share", <<S("/srv"), T("optional")>>), Leaf("path-share", <<S("docs")>>),
           Leaf("etc-share", <<S("hosts")>>), Leaf("etc-share", <<S("passwd")>>),
           Leaf("app-runtime", <<S("org.a"), P("mode", "rw")>>), Leaf("app-runtime", <<S("org.a"), T("optional")>>),
           Block("home-share", <<>>, <<Leaf("docs", <<P("mode", "rw")>>), Leaf("music", <<>>)>>),
           Block("home-share", <<S("docs")>>, <<>>), Block("etc-share", <<>>, <<>>)}
Buses == {Leaf("dbus", <<>>), Block("dbus", <<>>, <<Leaf("talk", <<S("b1")>>), Leaf("own", <<S("b2")>>),
                                                    Leaf("call", <<S("b1=r")>>)>>),
          Block("dbus", <<>>, <<Leaf("talk", <<S("b1")>>), Leaf("see", <<S("b1")>>)>>),
          Block("system-bus", <<>>, <<Leaf("broadcast", <<S("b1=r")>>)>>), Leaf("system-bus", <<>>),
          Block("system-bus", <<>>, <<Leaf("own", <<S("b1")>>)>>),
          Leaf("portals", <<>>), Block("portals", <<>>, <<Leaf("inhibit", <<>>), Leaf("camera", <<T("nodes")>>)>>),
          Block("portals", <<>>, <<Leaf("inhibit", <<>>), Leaf("inhibit", <<>>)>>),
          Leaf("notify", <<>>), Leaf("mpris", <<P("name", "m")>>), Leaf("camera", <<>>)}
Devices == {Leaf("dri", <<>>), Leaf("dri", <<T("kms")>>), Leaf("pipewire", <<>>), Leaf("hidraw", <<>>),
            Block("pipewire", <<>>, <<Leaf("microphone", <<>>)>>), Block("pulseaudio", <<>>, <<>>),
            Leaf("gamepad", <<T("uinput"), Prop("hidraw", Bool(FALSE))>>), Leaf("gamepad", <<T("uinput"), T("uinput")>>),
            Leaf("wayland", <<>>), Leaf("wayland", <<S("host")>>), Leaf("wayland", <<P("clipboard", "open")>>),
            Leaf("wayland", <<S("host"), P("clipboard", "open")>>),
            Leaf("x11", <<>>), Leaf("x11", <<S("host")>>),
            Leaf("x11", <<P("geometry", "800x600"), T("grab"), P("wm", "twm")>>), Leaf("x11", <<P("geometry", "1280x720")>>)}
Net(kids) == Block("network", <<>>, kids)
Deny == Leaf("outbound", <<S("deny")>>)
Networks == {Leaf("network", <<>>), Leaf("network", <<S("host")>>), Block("network", <<S("none")>>, <<>>),
             Block("network", <<S("none")>>, <<Leaf("dns", <<S("1.1.1.1")>>)>>),
             Block("network", <<S("host")>>, <<Leaf("dns", <<S("127.0.0.1")>>)>>),
             Net(<<Leaf("dns", <<S("127.0.0.1")>>)>>),
             Net(<<Leaf("allow-port", <<Arg(Num(80))>>), Leaf("allow-port", <<Arg(Num(80)), T("udp")>>), Leaf("outbound", <<S("allow")>>)>>),
             Net(<<Leaf("no-ipv6", <<>>), Leaf("dns", <<S("::2")>>)>>), Net(<<Leaf("no-ipv6", <<>>), Leaf("dns", <<S("1.1.1.1")>>)>>),
             Net(<<Leaf("allow-out", <<S("10.0.0.0/8"), Prop("port", Num(53)), P("proto", "udp")>>), Deny>>),
             Net(<<Leaf("allow-out", <<S("::2")>>)>>),
             Net(<<Deny, Leaf("allow-host", <<S("example.org")>>), Leaf("allow-host", <<S("example.org"), Prop("port", Num(8443))>>)>>),
             Net(<<Deny, Leaf("allow-host", <<S("example.org"), Prop("port", Num(443))>>), Leaf("allow-port", <<Arg(Num(3128))>>)>>),
             Net(<<Leaf("allow-port", <<Arg(Num(0))>>)>>)}
Settings == {Leaf("etc", <<>>), Leaf("etc", <<S("host")>>), Leaf("tmp", <<P("size", "1024M")>>), Leaf("tmp", <<P("size", "3M")>>),
             Leaf("tmp", <<P("size", "65G")>>), Leaf("tmp", <<P("size", "0K")>>), Leaf("tmp", <<P("size", "3K")>>),
             Leaf("tmp", <<P("size", "64G")>>),
             Leaf("tty", <<S("pty")>>), Leaf("tty", <<S("none")>>), Leaf("userns", <<S("disable")>>), Leaf("userns", <<S("allow")>>),
             Block("seccomp", <<>>, <<Leaf("allow", <<S("bpf")>>), Leaf("deny", <<S("keyctl"), S("bpf"), P("errno", "ENOSYS")>>),
                                      Leaf("allow", <<S("keyctl")>>), Leaf("disable", <<>>)>>),
             Block("seccomp", <<>>, <<Leaf("deny", <<S("prctl")>>)>>), Leaf("seccomp", <<>>),
             Leaf("env", <<P("A", "x"), P("B", "y")>>), Leaf("env", <<P("A", "x"), P("A", "y")>>),
             Block("env", <<>>, <<Leaf("A", <<S("x")>>)>>), Leaf("env", <<>>),
             Leaf("lint-allow", <<S("c1"), P("reason", "x")>>), Leaf("lint-allow", <<S("c1")>>),
             Block("lint-allow", <<>>, <<Leaf("c1", <<P("reason", "x")>>), Leaf("c2", <<P("reason", "x")>>)>>),
             Leaf("desktop", <<S("a.desktop")>>), Leaf("command", <<S("x"), S("y")>>), Leaf("command", <<>>),
             Leaf("include", <<S("base")>>), Leaf("nonsense", <<>>),
             [Leaf("dri", <<>>) EXCEPT !.ty = TRUE]}
AllNodes == Shares \cup Buses \cup Devices \cup Networks \cup Settings
Line(off, n) == [off |-> off, node |-> n]
\* Every node alone, on or off, above and below a node of two other sections.
Around == {<<Line(FALSE, Leaf("dbus", <<>>)), Line(FALSE, Leaf("env", <<P("B", "y")>>)), Line(o, n)>> :
             o \in BOOLEAN, n \in AllNodes}
          \cup {<<Line(o, n), Line(TRUE, Leaf("home-share", <<S("music")>>)), Line(FALSE, Leaf("portals", <<>>)),
                 Line(FALSE, Leaf("dbus", <<>>)), Line(TRUE, Leaf("env", <<P("A", "x"), P("B", "y")>>))>> :
             o \in BOOLEAN, n \in AllNodes}
\* Every order of a few lines, on and off, that share sections.
Few == {Leaf("home-share", <<S("docs")>>), Leaf("home-share", <<S("music")>>),
        Leaf("tty", <<S("none")>>), Leaf("tty", <<S("pty")>>)}
Mixed == [1..3 -> {Line(o, n) : o \in BOOLEAN, n \in Few}]
MCFiles == Around \cup Mixed
MCTexts == {<<Line(FALSE, n)>> : n \in {Leaf("home-share", <<S("docs/"), P("mode", "rw")>>), Leaf("env", <<P("A", "y"), P("B", "y")>>),
                                        Leaf("tty", <<S("passthrough")>>),
                                        Block("lint-allow", <<>>, <<Leaf("c1", <<P("reason", "x")>>), Leaf("c2", <<P("reason", "x")>>)>>)}}

Inc(n) == Line(FALSE, Leaf("include", <<S(n)>>))
MCDocs == {<<Line(FALSE, Leaf("tty", <<S("none")>>)), Line(FALSE, Net(<<Deny>>)), Line(FALSE, Leaf("home-share", <<S("docs")>>))>>,
           <<Inc("b"), Line(FALSE, Leaf("network", <<>>)), Line(TRUE, Leaf("tty", <<S("pty")>>))>>,
           <<Inc("b"), Inc("a"), Line(FALSE, Net(<<Deny, Leaf("allow-host", <<S("example.org")>>)>>)), Line(FALSE, Leaf("tty", <<S("pty")>>))>>,
           <<Inc("a"), Line(FALSE, Leaf("home-share", <<S("docs"), P("mode", "rw")>>))>>,
           <<Line(FALSE, Leaf("dri", <<T("kms")>>)), Inc("b")>>}

MCNames == <<"a", "b">>

VARIABLE part
mcvars == <<part, evars, pvars, appvars>>

NoEditor == disk = <<>> /\ buf = EmptyConfig /\ saved = EmptyConfig /\ opened = FALSE /\ edits = 0
NoProfile == /\ layers = <<>> /\ call = <<>> /\ chain = <<>> /\ done = <<>> /\ outcome = "idle"
             /\ edited = 0 /\ acc = [cfg |-> EmptyConfig, conflict |-> FALSE]
Init == /\ \/ part = "editor" /\ EditorInit /\ NoProfile
           \/ part = "profile" /\ ProfileInit /\ NoEditor
           \/ part = "app" /\ NoEditor /\ NoProfile
        /\ AppInit /\ (part # "app" => Listed(file) = <<>>)
Next == /\ UNCHANGED part
        /\ \/ part = "editor" /\ EditorNext /\ UNCHANGED <<pvars, appvars>>
           \/ part = "profile" /\ ProfileNext /\ UNCHANGED <<evars, appvars>>
           \/ part = "app" /\ AppNext /\ UNCHANGED <<evars, pvars>>
Spec == Init /\ [][Next]_mcvars
=============================================================================
