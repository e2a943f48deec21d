----------------------------- MODULE ConfigProofs -----------------------------
(***************************************************************************)
(* InputKept of the text interface and IncludedFirst of the profiles, each *)
(* about its module's own specification.                                   *)
(***************************************************************************)
EXTENDS Profile, App, SequenceTheorems, TLAPS

-----------------------------------------------------------------------------
(***************************************************************************)
(* InputKept, for any instances, buffers and screens' lengths, any number  *)
(* of children and any changes under them: an edit is dropped by its user  *)
(* alone, and a line being typed is for the row it was asked for.          *)
(***************************************************************************)

IsUi(u) ==
  u = [stack |-> u.stack, rows |-> u.rows, instance |-> u.instance, profile |-> u.profile, detail |-> u.detail,
       viewer |-> u.viewer, dialog |-> u.dialog, help |-> u.help, quit |-> u.quit]
IsDetail(d) == d = [name |-> d.name, buf |-> d.buf, saved |-> d.saved, selected |-> d.selected]

(* The screens there can be one on another.                                *)
Below == {<<"instances">>, <<"instances", "profiles">>, <<"instances", "detail">>}
Read == {<<"instances", "viewer">>, <<"instances", "profiles", "viewer">>, <<"instances", "detail", "viewer">>}
Stacks == Below \cup Read
(* Under a buffer lies its own screen.                                     *)
Detailed(u) ==
  u.detail = <<>> \/ /\ u.detail = <<u.detail[1]>> /\ IsDetail(u.detail[1])
                     /\ u.stack \in {<<"instances", "detail">>, <<"instances", "detail", "viewer">>}
(* A line is typed for the row under it, and only a y discards a buffer.   *)
Prompted(u) ==
  u.dialog # <<>> =>
    /\ u.stack \in Below
    /\ u.dialog[1].k = "ask" /\ u.dialog[1].prompt = "node" =>
         /\ u.stack = <<"instances", "detail">> /\ u.detail # <<>>
         /\ u.detail[1].name = u.dialog[1].name /\ u.detail[1].selected = u.dialog[1].row
    /\ u.dialog[1].k = "choose" => \A c \in u.dialog[1].choices : c[2][1] = "discard" => c[1] = "y"
UiOK(u) == IsUi(u) /\ u.stack \in Stacks /\ Detailed(u) /\ Prompted(u)

(* What a buffer holds is as it was.                                       *)
Blank(d) == [d EXCEPT !.selected = 0]
Kept(u, v) == v.detail # <<>> /\ Blank(v.detail[1]) = Blank(u.detail[1])
(* What a handler may make of the interface and of an edited buffer.       *)
Fair(u, k, r) ==
  /\ UiOK(r.ui) /\ r.ui.quit = u.quit
  /\ r.act # <<>> => r.ui.dialog = <<>> /\ (r.act[1].do = "quit" => r.ui.detail = <<>>)
  /\ dirty(u) => \/ Kept(u, r.ui)
                 \/ Meant(k) = "edits" /\ r.act = <<>> /\ r.ui.detail # <<>>
                 \/ Meant(k) = "confirms" /\ u.dialog # <<>>

-----------------------------------------------------------------------------
(* The stacks.                                                             *)
LEMMA StackFacts ==
  /\ Last(<<"instances">>) = "instances" /\ Last(<<"instances", "profiles">>) = "profiles"
  /\ Last(<<"instances", "detail">>) = "detail" /\ Last(<<"instances", "viewer">>) = "viewer"
  /\ Last(<<"instances", "profiles", "viewer">>) = "viewer" /\ Last(<<"instances", "detail", "viewer">>) = "viewer"
BY DEF Last

Screens == {"instances", "profiles", "detail", "viewer"}
LEMMA AppendAt ==
  ASSUME NEW s \in Seq(Screens), NEW b \in Screens
  PROVE  /\ Append(s, b) \in Seq(Screens) /\ Len(Append(s, b)) = Len(s) + 1
         /\ Append(s, b)[Len(s) + 1] = b /\ \A i \in 1..Len(s) : Append(s, b)[i] = s[i]
BY AppendProperties
LEMMA TwoScreens ==
  ASSUME NEW a \in Screens, NEW b \in Screens
  PROVE  Append(<<a>>, b) = <<a, b>> /\ Front(<<a, b>>) = <<a>>
<1> DEFINE s == <<a>>  t == <<a, b>>  p == Append(s, b)  q == SubSeq(t, 1, 1)
<1>1. s \in Seq(Screens) /\ t \in Seq(Screens) /\ Len(s) = 1 /\ Len(t) = 2 /\ s[1] = a /\ t[1] = a /\ t[2] = b
  OBVIOUS
<1>2. p \in Seq(Screens) /\ Len(p) = 2 /\ p[1] = a /\ p[2] = b
  <2> HIDE DEF s, t
  <2>1. /\ p \in Seq(Screens) /\ Len(p) = Len(s) + 1 /\ p[Len(s) + 1] = b
        /\ \A i \in 1..Len(s) : p[i] = s[i]
    BY <1>1, AppendAt
  <2> HIDE DEF p
  <2> QED BY <1>1, <2>1
<1>3. q \in Seq(Screens) /\ Len(q) = 1 /\ q[1] = a
  <2> HIDE DEF s, t
  <2>1. \A i \in 1..1 : t[i] \in Screens
    BY <1>1
  <2> QED BY <1>1, <2>1, SubSeqProperties
<1>4. \A i \in 1..2 : i = 1 \/ i = 2
  OBVIOUS
<1> HIDE DEF s, t, p, q
<1>5. p = t
  BY <1>1, <1>2, <1>4, SeqEqual
<1>6. q = s
  BY <1>1, <1>3, SeqEqual
<1>7. Front(t) = q
  BY <1>1 DEF Front, q
<1> QED BY <1>5, <1>6, <1>7 DEF s, t, p
LEMMA ThreeScreens ==
  ASSUME NEW a \in Screens, NEW b \in Screens, NEW c \in Screens
  PROVE  Append(<<a, b>>, c) = <<a, b, c>> /\ Front(<<a, b, c>>) = <<a, b>>
<1> DEFINE s == <<a, b>>  t == <<a, b, c>>  p == Append(s, c)  q == SubSeq(t, 1, 2)
<1>1. /\ s \in Seq(Screens) /\ t \in Seq(Screens) /\ Len(s) = 2 /\ Len(t) = 3
      /\ s[1] = a /\ s[2] = b /\ t[1] = a /\ t[2] = b /\ t[3] = c
  OBVIOUS
<1>2. p \in Seq(Screens) /\ Len(p) = 3 /\ p[1] = a /\ p[2] = b /\ p[3] = c
  <2> HIDE DEF s, t
  <2>1. /\ p \in Seq(Screens) /\ Len(p) = Len(s) + 1 /\ p[Len(s) + 1] = c
        /\ \A i \in 1..Len(s) : p[i] = s[i]
    BY <1>1, AppendAt
  <2> HIDE DEF p
  <2> QED BY <1>1, <2>1
<1>3. q \in Seq(Screens) /\ Len(q) = 2 /\ q[1] = a /\ q[2] = b
  <2> HIDE DEF s, t
  <2>1. \A i \in 1..2 : t[i] \in Screens
    BY <1>1
  <2> QED BY <1>1, <2>1, SubSeqProperties
<1>4. (\A i \in 1..2 : i = 1 \/ i = 2) /\ (\A i \in 1..3 : i = 1 \/ i = 2 \/ i = 3)
  OBVIOUS
<1> HIDE DEF s, t, p, q
<1>5. p = t
  BY <1>1, <1>2, <1>4, SeqEqual
<1>6. q = s
  BY <1>1, <1>3, <1>4, SeqEqual
<1>7. Front(t) = q
  BY <1>1 DEF Front, q
<1> QED BY <1>5, <1>6, <1>7 DEF s, t, p

LEMMA FrontFacts ==
  /\ Front(<<"instances", "profiles">>) = <<"instances">> /\ Front(<<"instances", "detail">>) = <<"instances">>
  /\ Front(<<"instances", "viewer">>) = <<"instances">>
  /\ Front(<<"instances", "profiles", "viewer">>) = <<"instances", "profiles">>
  /\ Front(<<"instances", "detail", "viewer">>) = <<"instances", "detail">>
BY TwoScreens, ThreeScreens DEF Screens

LEMMA AppendFacts ==
  /\ Append(<<"instances">>, "profiles") = <<"instances", "profiles">>
  /\ Append(<<"instances">>, "detail") = <<"instances", "detail">>
  /\ Append(<<"instances">>, "viewer") = <<"instances", "viewer">>
  /\ Append(<<"instances", "profiles">>, "viewer") = <<"instances", "profiles", "viewer">>
  /\ Append(<<"instances", "detail">>, "viewer") = <<"instances", "detail", "viewer">>
BY TwoScreens, ThreeScreens DEF Screens

LEMMA LenFacts ==
  /\ Len(<<"instances">>) = 1
  /\ \A s \in Stacks \ {<<"instances">>} : Len(s) > 1
BY DEF Stacks, Below, Read

LEMMA DifferFacts ==
  \A s \in Stacks :
    /\ Last(s) = "instances" <=> s = <<"instances">>
    /\ Last(s) = "profiles" <=> s = <<"instances", "profiles">>
    /\ Last(s) = "detail" <=> s = <<"instances", "detail">>
    /\ Last(s) = "viewer" <=> s \in Read
    /\ s \in Below <=> s \notin Read
BY StackFacts DEF Stacks, Below, Read

(* Setting a field of the interface leaves the others.                     *)
LEMMA SetStack ==
  ASSUME NEW u, IsUi(u), NEW x
  PROVE  LET v == [u EXCEPT !.stack = x]
         IN IsUi(v) /\ v.stack = x /\ v.detail = u.detail /\ v.dialog = u.dialog /\ v.quit = u.quit
BY DEF IsUi
LEMMA SetDetail ==
  ASSUME NEW u, IsUi(u), NEW x
  PROVE  LET v == [u EXCEPT !.detail = x]
         IN IsUi(v) /\ v.stack = u.stack /\ v.detail = x /\ v.dialog = u.dialog /\ v.quit = u.quit
BY DEF IsUi
LEMMA SetDialog ==
  ASSUME NEW u, IsUi(u), NEW x
  PROVE  LET v == [u EXCEPT !.dialog = x]
         IN IsUi(v) /\ v.stack = u.stack /\ v.detail = u.detail /\ v.dialog = x /\ v.quit = u.quit
BY DEF IsUi
LEMMA SetQuit ==
  ASSUME NEW u, IsUi(u), NEW x
  PROVE  LET v == [u EXCEPT !.quit = x]
         IN IsUi(v) /\ v.stack = u.stack /\ v.detail = u.detail /\ v.dialog = u.dialog /\ v.quit = x
BY DEF IsUi

(* The fields no property is about.                                        *)
Alike(u, v) == IsUi(v) /\ v.stack = u.stack /\ v.detail = u.detail /\ v.dialog = u.dialog /\ v.quit = u.quit
LEMMA AlikeFacts ==
  ASSUME NEW u, IsUi(u), NEW x, NEW y, NEW z
  PROVE  /\ Alike(u, [u EXCEPT !.instance = x]) /\ Alike(u, [u EXCEPT !.profile = x])
         /\ Alike(u, [u EXCEPT !.viewer = x]) /\ Alike(u, [u EXCEPT !.help = x])
         /\ Alike(u, [u EXCEPT !.rows = x, !.instance = y, !.profile = z])
<1>1. Alike(u, [u EXCEPT !.instance = x])
  BY DEF Alike, IsUi
<1>2. Alike(u, [u EXCEPT !.profile = x])
  BY DEF Alike, IsUi
<1>3. Alike(u, [u EXCEPT !.viewer = x])
  BY DEF Alike, IsUi
<1>4. Alike(u, [u EXCEPT !.help = x])
  BY DEF Alike, IsUi
<1>5. Alike(u, [u EXCEPT !.rows = x, !.instance = y, !.profile = z])
  <2> DEFINE a == [u EXCEPT !.rows = x]  b == [a EXCEPT !.instance = y]  c == [b EXCEPT !.profile = z]
  <2>1. Alike(u, a)
    BY DEF Alike, IsUi
  <2>2. Alike(a, b)
    <3> HIDE DEF a
    <3> QED BY <2>1 DEF Alike, IsUi
  <2>3. Alike(b, c)
    <3> HIDE DEF a, b
    <3> QED BY <2>2 DEF Alike, IsUi
  <2>4. Alike(u, c)
    <3> HIDE DEF a, b, c
    <3> QED BY <2>1, <2>2, <2>3 DEF Alike
  <2>5. c = [u EXCEPT !.rows = x, !.instance = y, !.profile = z]
    OBVIOUS
  <2> QED BY <2>4, <2>5
<1> QED BY <1>1, <1>2, <1>3, <1>4, <1>5

LEMMA AlikeOK ==
  ASSUME NEW u, UiOK(u), NEW v, Alike(u, v)
  PROVE  UiOK(v) /\ (dirty(u) => Kept(u, v)) /\ (dirty(v) <=> dirty(u))
BY DEF UiOK, Alike, Detailed, Prompted, Kept, dirty

-----------------------------------------------------------------------------
(* back(), reload() and show().                                            *)
LEMMA BackOK ==
  ASSUME NEW u, UiOK(u), u.dialog = <<>>
  PROVE  /\ UiOK(back(u)) /\ back(u).dialog = <<>> /\ back(u).quit = u.quit
         /\ u.stack \in Read /\ u.detail # <<>> => back(u).detail = u.detail
<1> DEFINE s == IF Len(u.stack) > 1 THEN Front(u.stack) ELSE u.stack
           w == IF Last(s) = "viewer" THEN u.viewer ELSE <<>>
           d == IF Last(s) \in {"instances", "profiles"} THEN <<>> ELSE u.detail
           a == [u EXCEPT !.stack = s]  b == [a EXCEPT !.viewer = w]  c == [b EXCEPT !.detail = d]
<1>1. s \in Below
  <2>1. CASE u.stack = <<"instances">>
    BY <2>1, LenFacts DEF Below
  <2>2. CASE u.stack \in Stacks \ {<<"instances">>}
    <3>1. s = Front(u.stack)
      BY <2>2, LenFacts
    <3> HIDE DEF s
    <3> QED BY <2>2, <3>1, FrontFacts DEF Stacks, Below, Read
  <2> QED BY <2>1, <2>2 DEF UiOK
<1>2. IsUi(u) /\ Detailed(u)
  BY DEF UiOK
<1>3. c = back(u)
  BY DEF back
<1>4. IsUi(a) /\ a.stack = s /\ a.detail = u.detail /\ a.dialog = u.dialog /\ a.quit = u.quit
  <2> HIDE DEF s
  <2> QED BY <1>2, SetStack
<1>5. Alike(a, b)
  <2> HIDE DEF a, w
  <2> QED BY <1>4, AlikeFacts
<1>6. IsUi(c) /\ c.stack = b.stack /\ c.detail = d /\ c.dialog = b.dialog /\ c.quit = b.quit
  <2>1. IsUi(b)
    <3> HIDE DEF a, b
    <3> QED BY <1>5 DEF Alike
  <2> HIDE DEF b, d
  <2> QED BY <2>1, SetDetail
<1>7. IsUi(c) /\ c.stack = s /\ c.detail = d /\ c.dialog = <<>> /\ c.quit = u.quit
  <2> HIDE DEF a, b, c, d, s
  <2> QED BY <1>4, <1>5, <1>6 DEF Alike
<1>8. d # <<>> => s = <<"instances", "detail">>
  BY <1>1, StackFacts DEF Below
<1>9. UiOK(c)
  <2> HIDE DEF a, b, c, s
  <2> QED BY <1>1, <1>2, <1>7, <1>8 DEF UiOK, Detailed, Prompted, Stacks
<1>10. u.stack \in Read /\ u.detail # <<>> => d = u.detail
  <2> SUFFICES ASSUME u.stack \in Read, u.detail # <<>> PROVE d = u.detail
    OBVIOUS
  <2>1. u.stack = <<"instances", "detail", "viewer">>
    BY <1>2 DEF Detailed, Read
  <2>2. s = <<"instances", "detail">>
    BY <2>1, FrontFacts
  <2> QED BY <2>2, StackFacts
<1> HIDE DEF a, b, c, d, s
<1> QED BY <1>3, <1>7, <1>9, <1>10

LEMMA StoreAlike ==
  ASSUME NEW u, IsUi(u), NEW f
  PROVE  Alike(u, reload_store(u, f))
BY AlikeFacts DEF reload_store

LEMMA ReloadOK ==
  ASSUME NEW u, UiOK(u), u.dialog = <<>>, NEW f
  PROVE  LET v == reload(u, f)
         IN UiOK(v) /\ v.dialog = <<>> /\ v.quit = u.quit /\ (dirty(u) => v.detail = u.detail)
<1> DEFINE s == reload_store(u, f)
<1>1. Alike(u, s) /\ UiOK(s) /\ (dirty(s) <=> dirty(u))
  BY StoreAlike, AlikeOK DEF UiOK
<1>2. s.dialog = <<>> /\ s.detail = u.detail /\ s.quit = u.quit
  BY <1>1 DEF Alike
<1> HIDE DEF s
<1>3. CASE s.detail = <<>> \/ dirty(s)
  BY <1>1, <1>2, <1>3 DEF reload, s
<1>4. CASE s.detail # <<>> /\ ~dirty(s) /\ Opens(f, s.detail[1].name)
  <2> DEFINE d == <<open_detail(f, s.detail[1].name)>>  v == [s EXCEPT !.detail = d]
  <2>1. d # <<>> /\ d = <<d[1]>> /\ IsDetail(d[1])
    BY DEF IsDetail, open_detail
  <2>2. IsUi(v) /\ v.stack = s.stack /\ v.detail = d /\ v.dialog = s.dialog /\ v.quit = s.quit
    <3> HIDE DEF d
    <3> QED BY <1>1, SetDetail DEF UiOK
  <2>3. v = reload(u, f)
    BY <1>4 DEF reload, s
  <2> HIDE DEF d, v
  <2>4. UiOK(v)
    BY <1>1, <1>2, <1>4, <2>1, <2>2 DEF UiOK, Detailed, Prompted
  <2> QED BY <1>1, <1>2, <1>4, <2>2, <2>3, <2>4
<1>5. CASE s.detail # <<>> /\ ~dirty(s) /\ ~Opens(f, s.detail[1].name)
  <2> DEFINE e == <<>>  v == [s EXCEPT !.detail = e]
  <2>1. IsUi(v) /\ v.stack = s.stack /\ v.detail = e /\ v.dialog = s.dialog /\ v.quit = s.quit
    <3> HIDE DEF e
    <3> QED BY <1>1, SetDetail DEF UiOK
  <2>2. back(v) = reload(u, f)
    BY <1>5 DEF reload, s
  <2> HIDE DEF v
  <2>3. UiOK(v)
    BY <1>1, <1>2, <2>1 DEF UiOK, Detailed, Prompted
  <2> QED BY <1>1, <1>2, <1>5, <2>1, <2>2, <2>3, BackOK
<1> QED BY <1>3, <1>4, <1>5

LEMMA ShowOK ==
  ASSUME NEW u, UiOK(u), u.dialog = <<>>, NEW e, NEW z
  PROVE  LET v == show(u, e, z)
         IN UiOK(v) /\ v.dialog = <<>> /\ v.quit = u.quit /\ v.detail = u.detail
<1> DEFINE w == <<[len |-> Report, offset |-> IF z THEN last_page(Report) ELSE 0, explain |-> e]>>
           a == [u EXCEPT !.viewer = w]  b == [a EXCEPT !.stack = Append(a.stack, "viewer")]
<1>1. Alike(u, a) /\ UiOK(a)
  <2> HIDE DEF w
  <2>1. Alike(u, a)
    BY AlikeFacts DEF UiOK
  <2> QED BY <2>1, AlikeOK
<1>2. a.stack = u.stack /\ a.detail = u.detail /\ a.dialog = <<>> /\ a.quit = u.quit /\ IsUi(a)
  BY <1>1 DEF Alike
<1>3. CASE screen(u) = "viewer"
  <2>1. show(u, e, z) = a
    BY <1>3 DEF show
  <2> HIDE DEF a
  <2> QED BY <1>1, <1>2, <2>1
<1>4. CASE screen(u) # "viewer"
  <2>1. show(u, e, z) = b
    BY <1>4 DEF show, push
  <2> HIDE DEF a
  <2> DEFINE t == Append(a.stack, "viewer")
  <2>2. IsUi(b) /\ b.stack = t /\ b.detail = a.detail /\ b.dialog = a.dialog /\ b.quit = a.quit
    <3>1. b = [a EXCEPT !.stack = t]
      OBVIOUS
    <3> HIDE DEF t, b
    <3> QED BY <1>2, <3>1, SetStack
  <2>3. u.stack \in Below
    BY <1>4, DifferFacts DEF screen, UiOK
  <2>4. t \in Read /\ (u.detail # <<>> => t = <<"instances", "detail", "viewer">>)
    <3>1. CASE u.stack = <<"instances">>
      BY <1>2, <3>1, AppendFacts DEF Read, UiOK, Detailed
    <3>2. CASE u.stack = <<"instances", "profiles">>
      BY <1>2, <3>2, AppendFacts DEF Read, UiOK, Detailed
    <3>3. CASE u.stack = <<"instances", "detail">>
      BY <1>2, <3>3, AppendFacts DEF Read
    <3> QED BY <2>3, <3>1, <3>2, <3>3 DEF Below
  <2> HIDE DEF b, t
  <2>5. UiOK(b)
    BY <1>2, <2>2, <2>4 DEF UiOK, Detailed, Prompted, Stacks
  <2> QED BY <1>2, <2>1, <2>2, <2>5
<1> QED BY <1>3, <1>4

-----------------------------------------------------------------------------
(* What a handler hands back.                                              *)
LEMMA HandBack ==
  ASSUME NEW u, NEW f, NEW a
  PROVE  /\ Done(u, f).ui = u /\ Done(u, f).act = <<>> /\ Done(u, f).file = f
         /\ Does(u, a, f).ui = u /\ Does(u, a, f).act # <<>> /\ Does(u, a, f).act[1] = a /\ Does(u, a, f).file = f
BY DEF Done, Does

LEMMA FairDone ==
  ASSUME NEW u, UiOK(u), NEW v, Alike(u, v), NEW k, NEW f
  PROVE  Fair(u, k, Done(v, f))
BY HandBack, AlikeOK DEF Fair, Alike

LEMMA FairSame ==
  ASSUME NEW u, UiOK(u), NEW k, NEW f
  PROVE  Fair(u, k, Done(u, f))
BY FairDone DEF Alike, UiOK

LEMMA FairDoes ==
  ASSUME NEW u, UiOK(u), u.dialog = <<>>, NEW a, a.do = "quit" => u.detail = <<>>, NEW k, NEW f
  PROVE  Fair(u, k, Does(u, a, f))
<1>1. Alike(u, u)
  BY DEF Alike, UiOK
<1> QED BY <1>1, HandBack, AlikeOK DEF Fair, Alike

LEMMA ActionsDo ==
  ASSUME NEW args, NEW name, NEW b, NEW e
  PROVE  /\ capture(args).do = "capture" /\ run_log(name, b).do = "capture" /\ explain_action(e).do = "capture"
         /\ detached(name).do = "detached" /\ attached(args).do = "attached"
BY DEF capture, run_log, explain_action, detached, attached

(* A prompt on the screen it belongs to.                                   *)
LEMMA FairAsk ==
  ASSUME NEW u, UiOK(u), u.stack \in Below, NEW p, NEW n, NEW k, NEW f,
         p = "node" => u.stack = <<"instances", "detail">> /\ u.detail # <<>> /\ n = u.detail[1].name
  PROVE  Fair(u, k, Done(ask(u, p, n), f))
<1> DEFINE d == [k |-> "ask", prompt |-> p, name |-> n, row |-> IF u.detail = <<>> THEN 0 ELSE u.detail[1].selected]
           ds == <<d>>  v == [u EXCEPT !.dialog = ds]
<1>1. v = ask(u, p, n)
  BY DEF ask
<1>2. d.k = "ask" /\ d.prompt = p /\ d.name = n /\ (u.detail # <<>> => d.row = u.detail[1].selected)
  OBVIOUS
<1> HIDE DEF d
<1>3. IsUi(v) /\ v.stack = u.stack /\ v.detail = u.detail /\ v.dialog = ds /\ v.quit = u.quit
  <2> HIDE DEF ds
  <2> QED BY SetDialog DEF UiOK
<1> HIDE DEF v
<1>4. ds # <<>> /\ ds[1] = d
  OBVIOUS
<1>5. UiOK(v)
  <2> HIDE DEF ds
  <2> QED BY <1>2, <1>3, <1>4 DEF UiOK, Detailed, Prompted
<1>6. dirty(u) => Kept(u, v)
  BY <1>3 DEF dirty, Kept
<1> QED BY <1>1, <1>3, <1>5, <1>6, HandBack DEF Fair

LEMMA FairChoose ==
  ASSUME NEW u, UiOK(u), u.stack \in Below, NEW cs, \A c \in cs : c[2][1] = "discard" => c[1] = "y", NEW k, NEW f
  PROVE  Fair(u, k, Done(choose(u, cs), f))
<1> DEFINE d == [k |-> "choose", choices |-> cs]  ds == <<d>>  v == [u EXCEPT !.dialog = ds]
<1>1. v = choose(u, cs)
  BY DEF choose
<1>2. d.k = "choose" /\ d.choices = cs
  OBVIOUS
<1> HIDE DEF d
<1>3. IsUi(v) /\ v.stack = u.stack /\ v.detail = u.detail /\ v.dialog = ds /\ v.quit = u.quit
  <2> HIDE DEF ds
  <2> QED BY SetDialog DEF UiOK
<1> HIDE DEF v
<1>4. ds # <<>> /\ ds[1] = d
  OBVIOUS
<1>5. UiOK(v)
  <2> HIDE DEF ds
  <2> QED BY <1>2, <1>3, <1>4 DEF UiOK, Detailed, Prompted
<1>6. dirty(u) => Kept(u, v)
  BY <1>3 DEF dirty, Kept
<1> QED BY <1>1, <1>3, <1>5, <1>6, HandBack DEF Fair

LEMMA FairClean ==
  ASSUME NEW u, ~dirty(u), NEW v, UiOK(v), v.quit = u.quit, NEW k, NEW f
  PROVE  Fair(u, k, Done(v, f))
BY HandBack DEF Fair

LEMMA FairBack ==
  ASSUME NEW u, UiOK(u), u.dialog = <<>>, ~dirty(u) \/ u.stack \in Read, NEW k, NEW f
  PROVE  Fair(u, k, Done(back(u), f))
<1>1. dirty(u) => Kept(u, back(u))
  BY BackOK DEF dirty, Kept
<1> QED BY <1>1, BackOK, HandBack DEF Fair

(* An edit of the buffer, or a move within it.                             *)
LEMMA FairWith ==
  ASSUME NEW u, UiOK(u), u.dialog = <<>>, u.detail # <<>>, NEW d, IsDetail(d), NEW k, NEW f,
         Blank(d) = Blank(u.detail[1]) \/ Meant(k) = "edits"
  PROVE  Fair(u, k, Done(with_detail(u, d), f)) /\ UiOK(with_detail(u, d)) /\ with_detail(u, d).detail = <<d>>
<1> DEFINE ds == <<d>>  v == [u EXCEPT !.detail = ds]
<1>1. v = with_detail(u, d) /\ ds # <<>> /\ ds[1] = d
  BY DEF with_detail
<1> HIDE DEF ds
<1>2. IsUi(v) /\ v.stack = u.stack /\ v.detail = ds /\ v.dialog = u.dialog /\ v.quit = u.quit
  BY SetDetail DEF UiOK
<1>3. ds = <<ds[1]>>
  BY DEF ds
<1> HIDE DEF v
<1>4. UiOK(v)
  BY <1>1, <1>2, <1>3 DEF UiOK, Detailed, Prompted
<1>5. Fair(u, k, Done(v, f))
  BY <1>1, <1>2, <1>4, HandBack DEF Fair, Kept
<1> QED BY <1>1, <1>2, <1>4, <1>5 DEF ds

LEMMA DetailSet ==
  ASSUME NEW d, IsDetail(d), NEW x
  PROVE  /\ IsDetail([d EXCEPT !.buf = x]) /\ IsDetail([d EXCEPT !.saved = x]) /\ IsDetail([d EXCEPT !.selected = x])
         /\ Blank([d EXCEPT !.selected = x]) = Blank(d)
<1>1. IsDetail([d EXCEPT !.buf = x])
  BY DEF IsDetail
<1>2. IsDetail([d EXCEPT !.saved = x])
  BY DEF IsDetail
<1>3. IsDetail([d EXCEPT !.selected = x])
  BY DEF IsDetail
<1>4. [[d EXCEPT !.selected = x] EXCEPT !.selected = 0] = [d EXCEPT !.selected = 0]
  <2> DEFINE e == [d EXCEPT !.selected = x]
             z == [name |-> d.name, buf |-> d.buf, saved |-> d.saved, selected |-> 0]
  <2>1. [d EXCEPT !.selected = 0] = z
    BY DEF IsDetail
  <2>2. IsDetail(e) /\ e.name = d.name /\ e.buf = d.buf /\ e.saved = d.saved
    BY DEF IsDetail
  <2>3. [e EXCEPT !.selected = 0] = z
    <3> HIDE DEF e
    <3> QED BY <2>2 DEF IsDetail
  <2> QED BY <2>1, <2>3
<1> QED BY <1>1, <1>2, <1>3, <1>4 DEF Blank

(* A dialog that is shut.                                                  *)
LEMMA ShutFair ==
  ASSUME NEW u, UiOK(u), NEW s, s = [u EXCEPT !.dialog = <<>>]
  PROVE  /\ UiOK(s) /\ s.dialog = <<>> /\ s.detail = u.detail /\ s.stack = u.stack /\ s.quit = u.quit
         /\ \A k, r : Fair(s, k, r) => Fair(u, k, r)
<1> DEFINE e == <<>>
<1>1. s = [u EXCEPT !.dialog = e]
  OBVIOUS
<1> HIDE DEF e
<1>2. IsUi(s) /\ s.stack = u.stack /\ s.detail = u.detail /\ s.dialog = e /\ s.quit = u.quit
  <2> DEFINE v == [u EXCEPT !.dialog = e]
  <2>1. IsUi(v) /\ v.stack = u.stack /\ v.detail = u.detail /\ v.dialog = e /\ v.quit = u.quit
    BY SetDialog DEF UiOK
  <2> QED BY <1>1, <2>1
<1>3. UiOK(s)
  BY <1>2 DEF UiOK, Detailed, Prompted, e
<1> QED BY <1>2, <1>3 DEF Fair, dirty, Kept, e

LEMMA NoDetail ==
  ASSUME NEW u, UiOK(u)
  PROVE  /\ u.stack = <<"instances">> \/ u.stack = <<"instances", "profiles">> => u.detail = <<>>
         /\ u.detail = <<>> => ~dirty(u)
BY DEF UiOK, Detailed, dirty

(* ------------------------------ the handlers ---------------------------- *)

LEMMA EnterFair ==
  ASSUME NEW u, UiOK(u), u.dialog = <<>>, u.stack = <<"instances">>, NEW k, NEW f, NEW name
  PROVE  Fair(u, k, Done(push([u EXCEPT !.detail = <<open_detail(f, name)>>], "detail"), f))
<1> DEFINE d == <<open_detail(f, name)>>  a == [u EXCEPT !.detail = d]
           t == Append(a.stack, "detail")  b == [a EXCEPT !.stack = t]
<1>1. d # <<>> /\ d = <<d[1]>> /\ IsDetail(d[1])
  BY DEF IsDetail, open_detail
<1>2. push([u EXCEPT !.detail = <<open_detail(f, name)>>], "detail") = b
  BY DEF push
<1> HIDE DEF d
<1>3. IsUi(a) /\ a.stack = u.stack /\ a.detail = d /\ a.dialog = u.dialog /\ a.quit = u.quit
  BY SetDetail DEF UiOK
<1> HIDE DEF a
<1>4. t = <<"instances", "detail">>
  BY <1>3, AppendFacts
<1> HIDE DEF t
<1>5. IsUi(b) /\ b.stack = t /\ b.detail = a.detail /\ b.dialog = a.dialog /\ b.quit = a.quit
  BY <1>3, SetStack
<1> HIDE DEF b
<1>6. UiOK(b)
  BY <1>1, <1>3, <1>4, <1>5 DEF UiOK, Detailed, Prompted, Stacks, Below
<1>7. b.quit = u.quit /\ ~dirty(u)
  BY <1>3, <1>5, NoDetail
<1>8. Fair(u, k, Done(b, f))
  BY <1>6, <1>7, FairClean
<1> QED BY <1>2, <1>8

LEMMA ProfilesFair ==
  ASSUME NEW u, UiOK(u), u.dialog = <<>>, u.stack = <<"instances">>, NEW k, NEW f
  PROVE  Fair(u, k, Done(push(u, "profiles"), f))
<1> DEFINE t == Append(u.stack, "profiles")  b == [u EXCEPT !.stack = t]
<1>1. push(u, "profiles") = b
  BY DEF push
<1>2. t = <<"instances", "profiles">>
  BY AppendFacts
<1> HIDE DEF t
<1>3. IsUi(b) /\ b.stack = t /\ b.detail = u.detail /\ b.dialog = u.dialog /\ b.quit = u.quit
  BY SetStack DEF UiOK
<1> HIDE DEF b
<1>4. UiOK(b) /\ ~dirty(u)
  BY <1>2, <1>3, NoDetail DEF UiOK, Detailed, Prompted, Stacks, Below
<1>5. Fair(u, k, Done(b, f))
  BY <1>3, <1>4, FairClean
<1> QED BY <1>1, <1>5

LEMMA ActionFair ==
  ASSUME NEW u, UiOK(u), u.dialog = <<>>, u.stack = <<"instances">>, NEW key, NEW f, NEW name
  PROVE  Fair(u, key.k, instance_action(u, key, name, f))
<1>0. u.stack \in Below
  BY DEF Below
<1>1. CASE key.k = "enter"
  <2>1. CASE Opens(f, name)
    BY <1>1, <2>1, EnterFair DEF instance_action
  <2>2. CASE ~Opens(f, name)
    BY <1>1, <2>2, FairSame DEF instance_action
  <2> QED BY <2>1, <2>2
<1>2. CASE key.k \in {"r", "o"}
  <2>1. detached(name).do # "quit"
    BY ActionsDo
  <2> QED BY <1>2, <2>1, FairDoes DEF instance_action
<1>3. CASE key.k = "x"
  BY <1>0, <1>3, FairAsk DEF instance_action
<1>4. CASE key.k = "t"
  BY <1>0, <1>4, FairAsk DEF instance_action
<1>5. CASE key.k = "e"
  <2>1. attached(<<"edit", name>>).do # "quit"
    BY ActionsDo
  <2> QED BY <1>5, <2>1, FairDoes DEF instance_action
<1>6. CASE key.k = "l"
  <2>1. capture(<<"lint", name>>).do # "quit"
    BY ActionsDo
  <2> QED BY <1>6, <2>1, FairDoes DEF instance_action
<1>7. CASE key.k = "L"
  <2>1. run_log(name, FALSE).do # "quit"
    BY ActionsDo
  <2> QED BY <1>7, <2>1, FairDoes DEF instance_action
<1>8. CASE key.k = "X"
  <2>1. explain_action([name |-> name, full |-> FALSE, proxy |-> FALSE]).do # "quit"
    BY ActionsDo
  <2> QED BY <1>8, <2>1, FairDoes DEF instance_action
<1>9. CASE key.k = "d"
  <2> DEFINE cs == {<<"y", <<"delete", name>>>>}
  <2>1. \A c \in cs : c[2][1] = "discard" => c[1] = "y"
    OBVIOUS
  <2>2. instance_action(u, key, name, f) = Done(choose(u, cs), f)
    BY <1>9 DEF instance_action
  <2> HIDE DEF cs
  <2> QED BY <1>0, <2>1, <2>2, FairChoose
<1>10. CASE key.k = "R"
  <2> DEFINE cs == {<<"y", <<"reseed", name>>>>}
  <2>1. \A c \in cs : c[2][1] = "discard" => c[1] = "y"
    OBVIOUS
  <2>2. instance_action(u, key, name, f) = Done(choose(u, cs), f)
    BY <1>10 DEF instance_action
  <2> HIDE DEF cs
  <2> QED BY <1>0, <2>1, <2>2, FairChoose
<1>11. CASE key.k = "D"
  <2> DEFINE cs == {<<c, <<"desktop", name>>>> : c \in {"w", "r", "x"}}
  <2>1. \A c \in cs : c[2][1] = "discard" => c[1] = "y"
    OBVIOUS
  <2>2. instance_action(u, key, name, f) = Done(choose(u, cs), f)
    BY <1>11 DEF instance_action
  <2> HIDE DEF cs
  <2> QED BY <1>0, <2>1, <2>2, FairChoose
<1>12. CASE key.k = "W"
  <2>1. CASE key.x = "unreadable"
    BY <1>12, <2>1, FairSame DEF instance_action
  <2>2. CASE key.x = "some"
    <3> DEFINE cs == {<<"u", <<"unwrap", name>>>>, <<"a", <<"wrap_as", name>>>>}
    <3>1. \A c \in cs : c[2][1] = "discard" => c[1] = "y"
      OBVIOUS
    <3>2. instance_action(u, key, name, f) = Done(choose(u, cs), f)
      BY <1>12, <2>2 DEF instance_action
    <3> HIDE DEF cs
    <3> QED BY <1>0, <3>1, <3>2, FairChoose
  <2>3. CASE key.x \notin {"unreadable", "some"}
    <3>1. instance_action(u, key, name, f) = Done(ask(u, "wrap", name), f)
      BY <1>12, <2>3 DEF instance_action
    <3> QED BY <1>0, <3>1, FairAsk
  <2> QED BY <2>1, <2>2, <2>3
<1>13. CASE key.k \notin {"enter", "r", "o", "x", "t", "e", "l", "L", "X", "d", "R", "D", "W"}
  <2>1. instance_action(u, key, name, f) = Done(u, f)
    BY <1>13 DEF instance_action
  <2> QED BY <2>1, FairSame
<1> QED BY <1>1, <1>2, <1>3, <1>4, <1>5, <1>6, <1>7, <1>8, <1>9, <1>10, <1>11, <1>12, <1>13

LEMMA InstancesFair ==
  ASSUME NEW u, UiOK(u), u.dialog = <<>>, u.stack = <<"instances">>, NEW key, NEW f
  PROVE  Fair(u, key.k, instances_key(u, key, f))
<1>0. u.detail = <<>> /\ IsUi(u)
  BY NoDetail DEF UiOK
<1>1. CASE key.k \in Moves
  <2> DEFINE x == common_key(key.k, Len(u.rows), u.instance)  v == [u EXCEPT !.instance = x]
  <2>1. instances_key(u, key, f) = Done(v, f)
    BY <1>1 DEF instances_key, Moves
  <2> HIDE DEF x
  <2>2. Alike(u, v)
    BY <1>0, AlikeFacts
  <2> HIDE DEF v
  <2> QED BY <2>1, <2>2, FairDone
<1>2. CASE key.k \in {"q", "esc"}
  <2>1. instances_key(u, key, f) = Does(u, [do |-> "quit"], f)
    BY <1>2 DEF instances_key, Moves
  <2> QED BY <1>0, <2>1, FairDoes
<1>3. CASE key.k = "?"
  BY <1>0, <1>3, AlikeFacts, FairDone DEF instances_key, Moves
<1>4. CASE key.k \in {"p", "n"}
  BY <1>4, ProfilesFair DEF instances_key, Moves
<1>5. CASE key.k \notin Moves \cup {"q", "esc", "?", "p", "n"}
  <2>1. CASE selected(u) = <<>>
    BY <1>5, <2>1, FairSame DEF instances_key
  <2>2. CASE selected(u) # <<>>
    <3>1. instances_key(u, key, f) = instance_action(u, key, selected(u)[1], f)
      BY <1>5, <2>2 DEF instances_key
    <3> QED BY <3>1, ActionFair
  <2> QED BY <2>1, <2>2
<1> QED BY <1>1, <1>2, <1>3, <1>4, <1>5

LEMMA SaveFair ==
  ASSUME NEW u, UiOK(u), u.dialog = <<>>, u.detail # <<>>, NEW f
  PROVE  Fair(u, "s", save_detail(u, f))
<1> DEFINE d == u.detail[1]  e == [d EXCEPT !.saved = d.buf]  v == with_detail(u, e)
           g == [f EXCEPT ![d.name] = d.buf]  w == reload_store(v, g)
<1>1. CASE f[d.name] = "absent" \/ d.buf = "bad"
  BY <1>1, FairSame DEF save_detail
<1>2. CASE ~(f[d.name] = "absent" \/ d.buf = "bad")
  <2>1. save_detail(u, f) = Done(w, g)
    BY <1>2 DEF save_detail
  <2>2. IsDetail(e)
    BY DetailSet DEF UiOK, Detailed
  <2>3. Meant("s") = "edits"
    BY DEF Meant
  <2> HIDE DEF e
  <2>4. UiOK(v) /\ v.detail = <<e>> /\ Fair(u, "s", Done(v, f))
    BY <2>2, <2>3, FairWith
  <2> HIDE DEF v, g
  <2>5. Alike(v, w) /\ UiOK(w)
    BY <2>4, StoreAlike, AlikeOK DEF UiOK
  <2>6. v.quit = u.quit /\ v.detail # <<>>
    BY <2>4, HandBack DEF Fair
  <2>7. w.quit = u.quit /\ w.detail # <<>>
    BY <2>5, <2>6 DEF Alike
  <2> HIDE DEF w
  <2> QED BY <2>1, <2>3, <2>5, <2>7, HandBack DEF Fair
<1> QED BY <1>1, <1>2

LEMMA DetailFair ==
  ASSUME NEW u, UiOK(u), u.dialog = <<>>, u.stack = <<"instances", "detail">>, NEW key, NEW f
  PROVE  Fair(u, key.k, detail_key(u, key, f))
<1> DEFINE d == u.detail[1]  k == key.k
<1>0. u.stack \in Below /\ IsUi(u) /\ (u.detail # <<>> => IsDetail(d))
  BY DEF Below, UiOK, Detailed
<1>1. CASE u.detail = <<>>
  BY <1>1, FairSame DEF detail_key
<1> SUFFICES ASSUME u.detail # <<>> PROVE Fair(u, k, detail_key(u, key, f))
  BY <1>1
<1> HIDE DEF d
<1>2. CASE k \in Moves
  <2> DEFINE e == [d EXCEPT !.selected = common_key(k, PaneRows, d.selected)]
  <2>1. detail_key(u, key, f) = Done(with_detail(u, e), f)
    BY <1>2 DEF detail_key, Moves, d
  <2>2. IsDetail(e) /\ Blank(e) = Blank(d)
    BY <1>0, DetailSet
  <2>3. Blank(e) = Blank(u.detail[1])
    BY <2>2 DEF d
  <2> HIDE DEF e
  <2> QED BY <2>1, <2>2, <2>3, FairWith
<1>3. CASE k \in {"space", "delete", "u"}
  <2> DEFINE e == [d EXCEPT !.buf = IF k = "u" THEN d.saved ELSE IF key.x \in Buffers THEN key.x ELSE d.buf]
  <2>1. detail_key(u, key, f) = Done(with_detail(u, e), f)
    BY <1>3 DEF detail_key, Moves, d
  <2>2. IsDetail(e) /\ Meant(k) = "edits"
    BY <1>0, <1>3, DetailSet DEF Meant
  <2> HIDE DEF e
  <2> QED BY <2>1, <2>2, FairWith
<1>4. CASE k = "enter"
  <2>1. detail_key(u, key, f) = Done(ask(u, "node", d.name), f)
    BY <1>4 DEF detail_key, Moves, d
  <2> QED BY <1>0, <2>1, FairAsk DEF d
<1>5. CASE k = "s"
  <2>1. detail_key(u, key, f) = save_detail(u, f)
    BY <1>5 DEF detail_key, Moves
  <2> QED BY <1>5, <2>1, SaveFair
<1>6. CASE k = "?"
  <2> DEFINE v == [u EXCEPT !.help = TRUE]
  <2>1. detail_key(u, key, f) = Done(v, f)
    BY <1>6 DEF detail_key, Moves
  <2>2. Alike(u, v)
    BY <1>0, AlikeFacts
  <2> HIDE DEF v
  <2> QED BY <2>1, <2>2, FairDone
<1>7. CASE k = "e"
  <2>1. detail_key(u, key, f) = Does(u, attached(<<"edit", d.name>>), f)
    BY <1>7 DEF detail_key, Moves, d
  <2>2. attached(<<"edit", d.name>>).do # "quit"
    BY ActionsDo
  <2> QED BY <2>1, <2>2, FairDoes
<1>8. CASE k = "l"
  <2>1. detail_key(u, key, f) = Does(u, capture(<<"lint", d.name>>), f)
    BY <1>8 DEF detail_key, Moves, d
  <2>2. capture(<<"lint", d.name>>).do # "quit"
    BY ActionsDo
  <2> QED BY <2>1, <2>2, FairDoes
<1>9. CASE k = "X"
  <2> DEFINE e == explain_action([name |-> d.name, full |-> FALSE, proxy |-> FALSE])
  <2>1. detail_key(u, key, f) = Does(u, e, f)
    BY <1>9 DEF detail_key, Moves, d
  <2>2. e.do # "quit"
    BY ActionsDo
  <2> HIDE DEF e
  <2> QED BY <2>1, <2>2, FairDoes
<1>10. CASE k \in {"q", "esc"}
  <2>1. CASE dirty(u)
    <3> DEFINE cs == {<<"y", <<"discard">>>>}
    <3>1. \A c \in cs : c[2][1] = "discard" => c[1] = "y"
      OBVIOUS
    <3>2. detail_key(u, key, f) = Done(choose(u, cs), f)
      BY <1>10, <2>1 DEF detail_key, Moves
    <3> HIDE DEF cs
    <3> QED BY <1>0, <3>1, <3>2, FairChoose
  <2>2. CASE ~dirty(u)
    <3>1. detail_key(u, key, f) = Done(back(u), f)
      BY <1>10, <2>2 DEF detail_key, Moves
    <3> QED BY <2>2, <3>1, FairBack
  <2> QED BY <2>1, <2>2
<1>11. CASE k \notin Moves \cup {"space", "delete", "u", "enter", "s", "?", "e", "l", "X", "q", "esc"}
  <2>1. detail_key(u, key, f) = Done(u, f)
    BY <1>11 DEF detail_key
  <2> QED BY <2>1, FairSame
<1> HIDE DEF k
<1> QED BY <1>2, <1>3, <1>4, <1>5, <1>6, <1>7, <1>8, <1>9, <1>10, <1>11

LEMMA ProfileScreenFair ==
  ASSUME NEW u, UiOK(u), u.dialog = <<>>, u.stack = <<"instances", "profiles">>, NEW key, NEW f
  PROVE  Fair(u, key.k, profiles_key(u, key, f))
<1> DEFINE k == key.k
<1>0. u.stack \in Below /\ IsUi(u) /\ ~dirty(u)
  BY NoDetail DEF Below, UiOK
<1>1. CASE k \in Moves
  <2> DEFINE x == common_key(key.k, ProfileRows, u.profile)  v == [u EXCEPT !.profile = x]
  <2>1. profiles_key(u, key, f) = Done(v, f)
    BY <1>1 DEF profiles_key, Moves
  <2> HIDE DEF x
  <2>2. Alike(u, v)
    BY <1>0, AlikeFacts
  <2> HIDE DEF v
  <2> QED BY <2>1, <2>2, FairDone
<1>2. CASE k = "?"
  <2> DEFINE v == [u EXCEPT !.help = TRUE]
  <2>1. profiles_key(u, key, f) = Done(v, f)
    BY <1>2 DEF profiles_key, Moves
  <2>2. Alike(u, v)
    BY <1>0, AlikeFacts
  <2> HIDE DEF v
  <2> QED BY <2>1, <2>2, FairDone
<1>3. CASE k \in {"q", "esc"}
  <2>1. profiles_key(u, key, f) = Done(back(u), f)
    BY <1>3 DEF profiles_key, Moves
  <2> QED BY <1>0, <2>1, FairBack
<1>4. CASE k \in {"enter", "l"} /\ ProfileRows > 0
  <2>1. profiles_key(u, key, f) = Does(u, capture(<<"profile", u.profile>>), f)
    BY <1>4 DEF profiles_key, Moves
  <2>2. capture(<<"profile", u.profile>>).do # "quit"
    BY ActionsDo
  <2> QED BY <2>1, <2>2, FairDoes
<1>5. CASE k = "e" /\ ProfileRows > 0
  <2>1. profiles_key(u, key, f) = Does(u, attached(<<"profile", u.profile>>), f)
    BY <1>5 DEF profiles_key, Moves
  <2>2. attached(<<"profile", u.profile>>).do # "quit"
    BY ActionsDo
  <2> QED BY <2>1, <2>2, FairDoes
<1>6. CASE k = "c" /\ ProfileRows > 0
  <2>1. profiles_key(u, key, f) = Done(ask(u, "create", ""), f)
    BY <1>6 DEF profiles_key, Moves
  <2> QED BY <1>0, <2>1, FairAsk
<1>7. CASE k \notin Moves \cup {"?", "q", "esc"} /\ ~(k \in {"enter", "l", "e", "c"} /\ ProfileRows > 0)
  <2>1. profiles_key(u, key, f) = Done(u, f)
    BY <1>7 DEF profiles_key
  <2> QED BY <2>1, FairSame
<1> HIDE DEF k
<1> QED BY <1>1, <1>2, <1>3, <1>4, <1>5, <1>6, <1>7

LEMMA ViewerAlike ==
  ASSUME NEW u, IsUi(u), NEW o
  PROVE  Alike(u, [u EXCEPT !.viewer[1].offset = o])
<1> DEFINE x == [u.viewer EXCEPT ![1] = [u.viewer[1] EXCEPT !.offset = o]]
<1>1. [u EXCEPT !.viewer[1].offset = o] = [u EXCEPT !.viewer = x]
  OBVIOUS
<1> HIDE DEF x
<1> QED BY <1>1, AlikeFacts

LEMMA ViewerFair ==
  ASSUME NEW u, UiOK(u), u.dialog = <<>>, u.stack \in Read, NEW key, NEW f
  PROVE  Fair(u, key.k, viewer_key(u, key, f))
<1> DEFINE v == u.viewer[1]  e == v.explain[1]  k == key.k
<1>0. IsUi(u)
  BY DEF UiOK
<1>1. CASE u.viewer = <<>>
  BY <1>1, FairSame DEF viewer_key
<1> SUFFICES ASSUME u.viewer # <<>> PROVE Fair(u, k, viewer_key(u, key, f))
  BY <1>1
<1>2. CASE k \in Moves
  <2>1. PICK o : viewer_key(u, key, f) = Done([u EXCEPT !.viewer[1].offset = o], f)
    <3>1. CASE k = "down"
      BY <3>1 DEF viewer_key
    <3>2. CASE k = "up"
      BY <3>2 DEF viewer_key
    <3>3. CASE k = "home"
      BY <3>3 DEF viewer_key
    <3>4. CASE k = "end"
      BY <3>4 DEF viewer_key
    <3> QED BY <1>2, <3>1, <3>2, <3>3, <3>4 DEF Moves
  <2> QED BY <1>0, <2>1, ViewerAlike, FairDone
<1>3. CASE k = "?"
  <2> DEFINE w == [u EXCEPT !.help = TRUE]
  <2>1. viewer_key(u, key, f) = Done(w, f)
    BY <1>3 DEF viewer_key
  <2>2. Alike(u, w)
    BY <1>0, AlikeFacts
  <2> HIDE DEF w
  <2> QED BY <2>1, <2>2, FairDone
<1>4. CASE k \in {"q", "esc"}
  <2>1. viewer_key(u, key, f) = Done(back(u), f)
    BY <1>4 DEF viewer_key
  <2> QED BY <2>1, FairBack
<1>5. CASE k \in {"f", "p"} /\ v.explain # <<>>
  <2>1. PICK x : viewer_key(u, key, f) = Does(u, explain_action(x), f)
    <3>1. CASE k = "f"
      BY <1>5, <3>1 DEF viewer_key
    <3>2. CASE k = "p"
      BY <1>5, <3>2 DEF viewer_key
    <3> QED BY <1>5, <3>1, <3>2
  <2>2. explain_action(x).do # "quit"
    BY ActionsDo
  <2> QED BY <2>1, <2>2, FairDoes
<1>6. CASE k \notin Moves \cup {"?", "q", "esc"} /\ ~(k \in {"f", "p"} /\ v.explain # <<>>)
  <2>1. viewer_key(u, key, f) = Done(u, f)
    BY <1>6 DEF viewer_key, Moves
  <2> QED BY <2>1, FairSame
<1> HIDE DEF k, v
<1> QED BY <1>2, <1>3, <1>4, <1>5, <1>6

(* ------------------------------- the dialogs ---------------------------- *)

LEMMA ConfirmedFair ==
  ASSUME NEW u, UiOK(u), u.dialog # <<>>, NEW c, NEW k, c[1] = "discard" => k = "y", NEW f
  PROVE  Fair(u, k, confirmed([u EXCEPT !.dialog = <<>>], c, f))
<1> DEFINE s == [u EXCEPT !.dialog = <<>>]
<1>0. /\ UiOK(s) /\ s.dialog = <<>> /\ s.detail = u.detail /\ s.stack = u.stack /\ s.quit = u.quit
      /\ \A r : Fair(s, k, r) => Fair(u, k, r)
  BY ShutFair
<1> SUFFICES Fair(u, k, confirmed(s, c, f))
  OBVIOUS
<1> HIDE DEF s
<1>1. s.stack \in Below
  BY <1>0 DEF UiOK, Prompted
<1>2. CASE c[1] = "wrap_as"
  <2>1. confirmed(s, c, f) = Done(ask(s, "wrap", c[2]), f)
    BY <1>2 DEF confirmed
  <2>2. Fair(s, k, Done(ask(s, "wrap", c[2]), f))
    BY <1>0, <1>1, FairAsk
  <2> QED BY <1>0, <2>1, <2>2
<1>3. CASE c[1] = "discard"
  <2> DEFINE e == <<>>  v == [s EXCEPT !.detail = e]
  <2>1. confirmed(s, c, f) = Done(back(v), f)
    BY <1>3 DEF confirmed
  <2>2. IsUi(v) /\ v.stack = s.stack /\ v.detail = e /\ v.dialog = s.dialog /\ v.quit = s.quit
    <3>1. IsUi(s)
      BY <1>0 DEF UiOK
    <3> HIDE DEF e
    <3> QED BY <3>1, SetDetail
  <2> HIDE DEF v
  <2>3. UiOK(v)
    BY <1>0, <2>2 DEF UiOK, Detailed, Prompted
  <2>4. UiOK(back(v)) /\ back(v).quit = u.quit
    BY <1>0, <2>2, <2>3, BackOK
  <2>5. Meant(k) = "confirms"
    BY <1>3 DEF Meant
  <2> QED BY <2>1, <2>4, <2>5, HandBack DEF Fair
<1>4. CASE c[1] \notin {"wrap_as", "discard"}
  <2>1. confirmed(s, c, f) = Does(s, capture(c), f)
    BY <1>4 DEF confirmed
  <2>2. capture(c).do # "quit"
    BY ActionsDo
  <2>3. Fair(s, k, Does(s, capture(c), f))
    BY <1>0, <2>2, FairDoes
  <2> QED BY <1>0, <2>1, <2>3
<1> QED BY <1>2, <1>3, <1>4

LEMMA AnsweredFair ==
  ASSUME NEW u, UiOK(u), u.dialog # <<>>, NEW x, NEW f
  PROVE  Fair(u, "enter", answered(u, x, f))
<1> DEFINE d == u.dialog[1]  s == [u EXCEPT !.dialog = <<>>]
<1>0. /\ UiOK(s) /\ s.dialog = <<>> /\ s.detail = u.detail
      /\ \A r : Fair(s, "enter", r) => Fair(u, "enter", r)
  BY ShutFair
<1>1. CASE d.prompt \in {"create", "wrap"}
  <2> DEFINE a == capture(<<d.prompt, d.name>>)
  <2>1. answered(u, x, f) = Does(s, a, f)
    BY <1>1 DEF answered
  <2>2. a.do # "quit"
    BY ActionsDo
  <2> HIDE DEF s, a
  <2>3. Fair(s, "enter", Does(s, a, f))
    BY <1>0, <2>2, FairDoes
  <2> QED BY <1>0, <2>1, <2>3
<1>2. CASE x = "refused" /\ d.prompt \notin {"create", "wrap"}
  <2>1. answered(u, x, f) = Done(u, f)
    BY <1>2 DEF answered
  <2> QED BY <2>1, FairSame
<1>3. CASE x # "refused" /\ d.prompt \in {"exec", "try"}
  <2> DEFINE a == attached(<<d.prompt, d.name>>)
  <2>1. answered(u, x, f) = Does(s, a, f)
    BY <1>3 DEF answered
  <2>2. a.do # "quit"
    BY ActionsDo
  <2> HIDE DEF s, a
  <2>3. Fair(s, "enter", Does(s, a, f))
    BY <1>0, <2>2, FairDoes
  <2> QED BY <1>0, <2>1, <2>3
<1>4. CASE x # "refused" /\ d.prompt \notin {"create", "wrap", "exec", "try"}
  <2>1. CASE u.detail = <<>>
    <3>1. answered(u, x, f) = Done(u, f)
      BY <1>4, <2>1 DEF answered
    <3> QED BY <3>1, FairSame
  <2>2. CASE u.detail # <<>>
    <3> DEFINE e == [u.detail[1] EXCEPT !.buf = x]
    <3>1. answered(u, x, f) = Done(with_detail(s, e), f)
      BY <1>4, <2>2 DEF answered
    <3>2. IsDetail(e) /\ Meant("enter") = "edits"
      BY <2>2, DetailSet DEF Meant, UiOK, Detailed
    <3> HIDE DEF s, e
    <3>3. Fair(s, "enter", Done(with_detail(s, e), f))
      BY <1>0, <2>2, <3>2, FairWith
    <3> QED BY <1>0, <3>1, <3>3
  <2> QED BY <2>1, <2>2
<1> QED BY <1>1, <1>2, <1>3, <1>4

LEMMA DialogFair ==
  ASSUME NEW u, UiOK(u), u.dialog # <<>>, NEW key, NEW f
  PROVE  Fair(u, key.k, dialog_key(u, key, f))
<1> DEFINE d == u.dialog[1]  s == [u EXCEPT !.dialog = <<>>]  found == {c \in d.choices : c[1] = key.k}
<1>0. Fair(u, key.k, Done(s, f))
  <2>1. UiOK(s) /\ (Fair(s, key.k, Done(s, f)) => Fair(u, key.k, Done(s, f)))
    BY ShutFair
  <2> HIDE DEF s
  <2> QED BY <2>1, FairSame
<1>1. CASE d.k = "choose" /\ key.k \in {"esc", "n"}
  <2>1. dialog_key(u, key, f) = Done(s, f)
    BY <1>1 DEF dialog_key
  <2> QED BY <1>0, <2>1
<1>2. CASE d.k = "choose" /\ key.k \notin {"esc", "n"} /\ found = {}
  <2>1. dialog_key(u, key, f) = Done(u, f)
    BY <1>2 DEF dialog_key
  <2> QED BY <2>1, FairSame
<1>3. CASE d.k = "choose" /\ key.k \notin {"esc", "n"} /\ found # {}
  <2> DEFINE c == CHOOSE c \in found : TRUE
  <2>1. dialog_key(u, key, f) = confirmed(s, c[2], f)
    BY <1>3 DEF dialog_key
  <2>2. c \in found
    BY <1>3
  <2>3. c \in d.choices /\ c[1] = key.k
    <3> HIDE DEF c
    <3> QED BY <2>2
  <2> HIDE DEF c, found
  <2>4. c[2][1] = "discard" => key.k = "y"
    BY <1>3, <2>3 DEF UiOK, Prompted
  <2>5. Fair(u, key.k, confirmed(s, c[2], f))
    BY <2>4, ConfirmedFair
  <2> QED BY <2>1, <2>5
<1>4. CASE d.k # "choose" /\ key.k = "esc"
  <2>1. dialog_key(u, key, f) = Done(s, f)
    BY <1>4 DEF dialog_key
  <2> QED BY <1>0, <2>1
<1>5. CASE d.k # "choose" /\ key.k = "enter"
  <2>1. dialog_key(u, key, f) = answered(u, key.x, f)
    BY <1>5 DEF dialog_key
  <2> QED BY <1>5, <2>1, AnsweredFair
<1>6. CASE d.k # "choose" /\ key.k \notin {"esc", "enter"}
  <2>1. dialog_key(u, key, f) = Done(u, f)
    BY <1>6 DEF dialog_key
  <2> QED BY <2>1, FairSame
<1> HIDE DEF d, found
<1> QED BY <1>1, <1>2, <1>3, <1>4, <1>5, <1>6

LEMMA KeyFair ==
  ASSUME NEW u, UiOK(u), NEW key, NEW f
  PROVE  Fair(u, key.k, on_key(u, key, f))
<1>1. CASE u.help
  <2> DEFINE v == [u EXCEPT !.help = FALSE]
  <2>1. on_key(u, key, f) = Done(v, f)
    BY <1>1 DEF on_key
  <2>2. Alike(u, v)
    BY AlikeFacts DEF UiOK
  <2> HIDE DEF v
  <2> QED BY <2>1, <2>2, FairDone
<1>2. CASE ~u.help /\ u.dialog # <<>>
  <2>1. on_key(u, key, f) = dialog_key(u, key, f)
    BY <1>2 DEF on_key
  <2> QED BY <1>2, <2>1, DialogFair
<1>3. CASE ~u.help /\ u.dialog = <<>> /\ key.k = "^r"
  <2>1. on_key(u, key, f) = Does(u, [do |-> "reload"], f)
    BY <1>3 DEF on_key
  <2> QED BY <1>3, <2>1, FairDoes
<1>4. CASE ~u.help /\ u.dialog = <<>> /\ key.k # "^r"
  <2>0. on_key(u, key, f) = CASE screen(u) = "instances" -> instances_key(u, key, f)
                              [] screen(u) = "detail" -> detail_key(u, key, f)
                              [] screen(u) = "profiles" -> profiles_key(u, key, f)
                              [] OTHER -> viewer_key(u, key, f)
    BY <1>4 DEF on_key
  <2>1. CASE u.stack = <<"instances">>
    <3>1. on_key(u, key, f) = instances_key(u, key, f)
      BY <2>0, <2>1, StackFacts DEF screen
    <3> QED BY <1>4, <2>1, <3>1, InstancesFair
  <2>2. CASE u.stack = <<"instances", "detail">>
    <3>1. on_key(u, key, f) = detail_key(u, key, f)
      BY <2>0, <2>2, StackFacts DEF screen
    <3> QED BY <1>4, <2>2, <3>1, DetailFair
  <2>3. CASE u.stack = <<"instances", "profiles">>
    <3>1. on_key(u, key, f) = profiles_key(u, key, f)
      BY <2>0, <2>3, StackFacts DEF screen
    <3> QED BY <1>4, <2>3, <3>1, ProfileScreenFair
  <2>4. CASE u.stack \in Read
    <3>1. screen(u) = "viewer"
      BY <2>4, DifferFacts DEF screen, UiOK
    <3>2. on_key(u, key, f) = viewer_key(u, key, f)
      BY <2>0, <3>1
    <3> QED BY <1>4, <2>4, <3>2, ViewerFair
  <2> QED BY <2>1, <2>2, <2>3, <2>4 DEF UiOK, Stacks, Below
<1> QED BY <1>1, <1>2, <1>3, <1>4

-----------------------------------------------------------------------------
(* The steps.                                                              *)
EditsStep ==
  dirty(ui) =>
    \/ ui'.detail # <<>> /\ [ui'.detail[1] EXCEPT !.selected = 0] = [ui.detail[1] EXCEPT !.selected = 0] /\ ~ui'.quit
    \/ pressed' = "edits" /\ ui'.detail # <<>>
    \/ pressed' = "confirms" /\ ui.dialog # <<>>
    \/ pressed' = "signal"

LEMMA KeptDirty ==
  ASSUME NEW u, UiOK(u), dirty(u), NEW v, UiOK(v), Kept(u, v)
  PROVE  dirty(v)
<1> DEFINE d == u.detail[1]  e == v.detail[1]
<1>1. IsDetail(d) /\ IsDetail(e) /\ Blank(e) = Blank(d)
  BY DEF UiOK, Detailed, Kept, dirty
<1>2. d.buf # d.saved
  BY DEF dirty
<1> HIDE DEF d, e
<1>3. Blank(d).buf = d.buf /\ Blank(d).saved = d.saved
  BY <1>1 DEF IsDetail, Blank
<1>4. Blank(e).buf = e.buf /\ Blank(e).saved = e.saved
  BY <1>1 DEF IsDetail, Blank
<1>5. e.buf # e.saved
  BY <1>1, <1>2, <1>3, <1>4
<1> QED BY <1>5 DEF e, dirty, Kept

(* A reload after a handler keeps what the handler kept.                   *)
LEMMA ReloadKeeps ==
  ASSUME NEW u, UiOK(u), NEW v, UiOK(v), v.dialog = <<>>, v.quit = u.quit, ~u.quit, NEW f
  PROVE  LET w == reload(v, f) IN UiOK(w) /\ ~w.quit /\ (dirty(u) /\ Kept(u, v) => Kept(u, w))
<1> DEFINE w == reload(v, f)
<1>1. UiOK(w) /\ w.quit = v.quit /\ (dirty(v) => w.detail = v.detail)
  BY ReloadOK
<1> HIDE DEF w
<1>2. dirty(u) /\ Kept(u, v) => dirty(v)
  BY KeptDirty
<1>3. dirty(u) /\ Kept(u, v) => Kept(u, w)
  BY <1>1, <1>2 DEF Kept
<1> QED BY <1>1, <1>3 DEF w

LEMMA ShowKeeps ==
  ASSUME NEW u, UiOK(u), NEW v, UiOK(v), v.dialog = <<>>, v.quit = u.quit, ~u.quit, NEW e, NEW z, NEW f
  PROVE  LET w == reload(show(v, e, z), f) IN UiOK(w) /\ ~w.quit /\ (dirty(u) /\ Kept(u, v) => Kept(u, w))
<1> DEFINE a == show(v, e, z)
<1>1. UiOK(a) /\ a.dialog = <<>> /\ a.quit = u.quit /\ a.detail = v.detail
  BY ShowOK
<1> HIDE DEF a
<1>2. Kept(u, v) => Kept(u, a)
  BY <1>1 DEF Kept
<1>3. LET w == reload(a, f) IN UiOK(w) /\ ~w.quit /\ (dirty(u) /\ Kept(u, a) => Kept(u, w))
  BY <1>1, ReloadKeeps
<1> QED BY <1>2, <1>3 DEF a

LEMMA SpendOK ==
  ASSUME UiOK(ui), ~ui.quit, NEW k, NEW r, Fair(ui, k, r), Spend(r), pressed' = Meant(k)
  PROVE  UiOK(ui') /\ EditsStep
<1> DEFINE a == r.act[1]  u == ui'
<1>1. /\ UiOK(r.ui) /\ r.ui.quit = ui.quit
      /\ r.act # <<>> => r.ui.dialog = <<>> /\ (a.do = "quit" => r.ui.detail = <<>>)
      /\ dirty(ui) => \/ Kept(ui, r.ui)
                      \/ Meant(k) = "edits" /\ r.act = <<>> /\ r.ui.detail # <<>>
                      \/ Meant(k) = "confirms" /\ ui.dialog # <<>>
  BY DEF Fair
<1>2. CASE r.act = <<>>
  <2>1. ui' = r.ui
    BY <1>2 DEF Spend
  <2> QED BY <1>1, <2>1 DEF EditsStep, Kept, Blank
<1>3. ASSUME r.act # <<>>, ~ui'.quit, UiOK(ui'), dirty(ui) /\ Kept(ui, r.ui) => Kept(ui, ui')
      PROVE  UiOK(ui') /\ EditsStep
  BY <1>1, <1>3 DEF EditsStep, Kept, Blank
<1>4. CASE r.act # <<>> /\ a.do = "quit"
  <2>1. ui' = [r.ui EXCEPT !.quit = TRUE]
    BY <1>4 DEF Spend
  <2> DEFINE v == r.ui  w == [v EXCEPT !.quit = TRUE]
  <2>2. IsUi(w) /\ w.stack = v.stack /\ w.detail = v.detail /\ w.dialog = v.dialog /\ w.quit = TRUE
    <3>1. IsUi(v)
      BY <1>1 DEF UiOK
    <3> HIDE DEF v
    <3> QED BY <3>1, SetQuit
  <2>3. UiOK(v) /\ v.dialog = <<>> /\ v.detail = <<>>
    BY <1>1, <1>4
  <2>4. UiOK(w)
    <3> HIDE DEF v, w
    <3> QED BY <2>2, <2>3 DEF UiOK, Detailed, Prompted
  <2>5. dirty(ui) => pressed' = "confirms" /\ ui.dialog # <<>>
    BY <1>1, <1>4, <2>3 DEF Kept
  <2> QED BY <2>1, <2>4, <2>5 DEF EditsStep
<1>5. CASE r.act # <<>> /\ a.do = "reload"
  <2>1. ui' = reload(r.ui, r.file)
    BY <1>5 DEF Spend
  <2>2. UiOK(ui') /\ ~ui'.quit /\ (dirty(ui) /\ Kept(ui, r.ui) => Kept(ui, ui'))
    BY <1>1, <1>5, <2>1, ReloadKeeps
  <2> QED BY <1>3, <1>5, <2>2
<1>6. CASE r.act # <<>> /\ a.do = "detached"
  <2>1. ui' = r.ui
    BY <1>6 DEF Spend
  <2> QED BY <1>1, <1>3, <1>6, <2>1
<1>7. CASE r.act # <<>> /\ a.do = "attached"
  <2>1. ui' = reload(r.ui, file')
    BY <1>7 DEF Spend
  <2>2. UiOK(ui') /\ ~ui'.quit /\ (dirty(ui) /\ Kept(ui, r.ui) => Kept(ui, ui'))
    BY <1>1, <1>7, <2>1, ReloadKeeps
  <2> QED BY <1>3, <1>7, <2>2
<1>8. CASE r.act # <<>> /\ a.do \notin {"quit", "reload", "detached", "attached"}
  <2>1. ui' = r.ui \/ ui' = reload(show(r.ui, a.explain, a.at_end), file') \/ ui' = reload(r.ui, file')
    BY <1>8 DEF Spend
  <2>2. CASE ui' = r.ui
    BY <1>1, <1>3, <1>8, <2>2
  <2>3. CASE ui' = reload(show(r.ui, a.explain, a.at_end), file')
    <3>1. UiOK(ui') /\ ~ui'.quit /\ (dirty(ui) /\ Kept(ui, r.ui) => Kept(ui, ui'))
      BY <1>1, <1>8, <2>3, ShowKeeps
    <3> QED BY <1>3, <1>8, <3>1
  <2>4. CASE ui' = reload(r.ui, file')
    <3>1. UiOK(ui') /\ ~ui'.quit /\ (dirty(ui) /\ Kept(ui, r.ui) => Kept(ui, ui'))
      BY <1>1, <1>8, <2>4, ReloadKeeps
    <3> QED BY <1>3, <1>8, <3>1
  <2> QED BY <2>1, <2>2, <2>3, <2>4
<1> HIDE DEF a
<1> QED BY <1>2, <1>4, <1>5, <1>6, <1>7, <1>8

LEMMA SameStep ==
  ASSUME UiOK(ui), ~ui.quit, Alike(ui, ui')
  PROVE  UiOK(ui') /\ EditsStep
<1>1. UiOK(ui') /\ (dirty(ui) => Kept(ui, ui'))
  BY AlikeOK
<1> QED BY <1>1 DEF EditsStep, Kept, Blank, Alike

LEMMA ReapOK ==
  ASSUME UiOK(ui), ~ui.quit, Reap
  PROVE  UiOK(ui') /\ EditsStep
<1>1. PICK n \in started, ok \in BOOLEAN :
        LET r == exited(ui, n, ok, file)
            a == r.act[1]
        IN IF r.act = <<>> THEN ui' = r.ui ELSE ui' \in {r.ui, reload(show(r.ui, a.explain, a.at_end), file)}
  BY DEF Reap
<1> DEFINE r == exited(ui, n, ok, file)  a == r.act[1]  v == [ui EXCEPT !.help = FALSE]
<1>2. CASE ok \/ ui.dialog # <<>>
  <2>1. r = Done(ui, file)
    BY <1>2 DEF exited
  <2>2. r.act = <<>> /\ r.ui = ui
    BY <2>1 DEF Done
  <2>3. ui' = ui
    BY <1>1, <2>2
  <2> QED BY <2>3, SameStep DEF Alike, UiOK
<1>3. CASE ~(ok \/ ui.dialog # <<>>)
  <2>1. r.ui = v /\ r.act # <<>>
    <3>1. r = Does(v, run_log(n, TRUE), file)
      BY <1>3 DEF exited
    <3> HIDE DEF v
    <3> QED BY <3>1 DEF Does
  <2>2. ui' = v \/ ui' = reload(show(v, a.explain, a.at_end), file)
    BY <1>1, <2>1
  <2>3. Alike(ui, v)
    BY AlikeFacts DEF UiOK
  <2>4. UiOK(v) /\ (dirty(ui) => Kept(ui, v)) /\ v.dialog = <<>> /\ v.quit = ui.quit
    <3> HIDE DEF v
    <3> QED BY <1>3, <2>3, AlikeOK DEF Alike
  <2> HIDE DEF v, a
  <2>5. CASE ui' = v
    BY <2>3, <2>5, SameStep
  <2>6. CASE ui' = reload(show(v, a.explain, a.at_end), file)
    <3>1. UiOK(ui') /\ ~ui'.quit /\ (dirty(ui) /\ Kept(ui, v) => Kept(ui, ui'))
      BY <2>4, <2>6, ShowKeeps
    <3> QED BY <2>4, <3>1 DEF EditsStep, Kept, Blank
  <2> QED BY <2>2, <2>5, <2>6
<1> QED BY <1>2, <1>3

LEMMA StopOK ==
  ASSUME UiOK(ui), Stop
  PROVE  UiOK(ui') /\ EditsStep
<1> DEFINE v == [ui EXCEPT !.quit = TRUE]
<1>1. IsUi(v) /\ v.stack = ui.stack /\ v.detail = ui.detail /\ v.dialog = ui.dialog
  BY SetQuit DEF UiOK
<1>2. ui' = v /\ pressed' = "signal"
  BY DEF Stop
<1>3. UiOK(v)
  <2> HIDE DEF v
  <2> QED BY <1>1 DEF UiOK, Detailed, Prompted
<1> QED BY <1>2, <1>3 DEF EditsStep

LEMMA StepOK ==
  ASSUME UiOK(ui), AppNext
  PROVE  UiOK(ui') /\ EditsStep
<1>0. ~ui.quit
  BY DEF AppNext
<1>1. CASE KeyPress
  <2>1. PICK key \in AllKeys : Spend(on_key(ui, key, file)) /\ pressed' = Meant(key.k)
    BY <1>1 DEF KeyPress
  <2>2. Fair(ui, key.k, on_key(ui, key, file))
    BY KeyFair
  <2> QED BY <1>0, <2>1, <2>2, SpendOK
<1>2. CASE Reap
  BY <1>0, <1>2, ReapOK
<1>3. CASE Stop
  BY <1>3, StopOK
<1>4. CASE Outside
  <2>1. ui' = ui
    BY <1>4 DEF Outside
  <2> QED BY <1>0, <2>1, SameStep DEF Alike, UiOK
<1> QED BY <1>1, <1>2, <1>3, <1>4 DEF AppNext

LEMMA InitOK ==
  ASSUME AppInit
  PROVE  UiOK(ui)
<1>1. /\ IsUi(ui) /\ ui.stack = <<"instances">> /\ ui.detail = <<>> /\ ui.dialog = <<>>
  BY DEF AppInit, IsUi
<1> QED BY <1>1 DEF UiOK, Detailed, Prompted, Stacks, Below

LEMMA PromptsStand ==
  ASSUME UiOK(ui)
  PROVE  PromptStands
<1> SUFFICES ASSUME ui.dialog # <<>>
             PROVE  /\ screen(ui) # "viewer"
                    /\ ui.dialog[1].k = "ask" => (ui.dialog[1].prompt = "node" =>
                         /\ screen(ui) = "detail" /\ ui.detail # <<>>
                         /\ ui.detail[1].name = ui.dialog[1].name /\ ui.detail[1].selected = ui.dialog[1].row)
  BY DEF PromptStands
<1>1. ui.stack \in Below /\ ui.stack \in Stacks
  BY DEF UiOK, Prompted
<1>2. screen(ui) # "viewer"
  BY <1>1, DifferFacts DEF screen
<1>3. ui.stack = <<"instances", "detail">> => screen(ui) = "detail"
  BY StackFacts DEF screen
<1> QED BY <1>2, <1>3 DEF UiOK, Prompted

(* Whatever other processes do to the files, however children end and      *)
(* whatever the keys before: an edited buffer is changed or dropped only   *)
(* by a key that edits, saves, undoes or confirms, and a line being typed  *)
(* keeps the row it was asked for (App::reload(), App::exited()).          *)
THEOREM InputKeptHolds == AppSpec => InputKept
<1>1. AppInit => UiOK(ui)
  BY InitOK
<1>2. UiOK(ui) /\ [AppNext]_appvars => UiOK(ui)'
  <2>1. CASE UNCHANGED appvars
    BY <2>1 DEF appvars
  <2> QED BY <2>1, StepOK
<1>3. UiOK(ui) /\ [AppNext]_appvars => [EditsStep]_appvars
  BY StepOK
<1>4. UiOK(ui) => PromptStands
  BY PromptsStand
<1>5. AppSpec => []UiOK(ui) /\ [][EditsStep]_appvars
  BY <1>1, <1>2, <1>3, PTL DEF AppSpec
<1>6. AppSpec => []PromptStands
  BY <1>4, <1>5, PTL
<1>7. AppSpec => EditsKept
  BY <1>5 DEF EditsKept, EditsStep
<1> QED BY <1>6, <1>7 DEF InputKept

-----------------------------------------------------------------------------
(***************************************************************************)
(* IncludedFirst, for any profiles, texts and depth: a layer is merged     *)
(* once, after every name its text includes.                               *)
(***************************************************************************)
LayerIds == Profiles \X {"user", "system", "builtin"}
Held == {<<>>} \cup {<<d>> : d \in AllDocs}
RawDocs == {parse_doc(d, TRUE) : d \in AllDocs}
Frames == [id : LayerIds, skip : Nat, below : Int, raw : RawDocs, next : Nat \ {0}]
LayerTypes ==
  /\ layers \in [Profiles -> [user : Held, system : Held, builtin : Held]]
  /\ call = <<>> \/ (call = <<call[1], call[2]>> /\ call[2] \in Nat)
  /\ chain \in Seq(Frames) /\ done \in Seq(LayerIds)

There(id) == layers[id[1]][id[2]] # <<>>
IncludesOf(id) == parse_doc(Doc(id), TRUE).includes
(* A layer that is being read, or was merged, is there, and its text stays. *)
Standing ==
  /\ \A i \in DOMAIN done : There(done[i])
  /\ \A i \in DOMAIN chain : There(chain[i].id) /\ chain[i].raw = parse_doc(Doc(chain[i].id), TRUE)
(* A layer is in one place of the chain or of what is merged.              *)
OncePlaced ==
  /\ Distinct(done)
  /\ \A i, j \in DOMAIN chain : chain[i].id = chain[j].id => i = j
  /\ \A i \in DOMAIN chain, j \in DOMAIN done : chain[i].id # done[j]
(* What a layer includes is merged, but for the one at hand.               *)
MergedName(n) == \E j \in DOMAIN done : done[j][1] = n
AtHand(i, n) == IF i < Len(chain) THEN chain[i + 1].id[1] = n ELSE call # <<>> /\ call[1] = n
Followed ==
  \A i \in DOMAIN chain : \A k \in 1..(chain[i].next - 1) :
    MergedName(chain[i].raw.includes[k]) \/ (k = chain[i].next - 1 /\ AtHand(i, chain[i].raw.includes[k]))
IncludesMerged ==
  \A i \in DOMAIN done : LET inc == IncludesOf(done[i])
                         IN \A k \in DOMAIN inc : \E j \in 1..(i - 1) : done[j][1] = inc[k]
LayerInv ==
  /\ LayerTypes /\ Standing /\ OncePlaced /\ IncludesMerged
  /\ outcome = "idle" => chain = <<>>
  /\ outcome = "resolving" => Followed

-----------------------------------------------------------------------------
OriginsOf(name) == {o \in {"user", "system", "builtin"} : name \in Profiles /\ layers[name][o] # <<>>}
LEMMA LayerAtSeq ==
  ASSUME NEW name, NEW o \in {"user", "system", "builtin"}
  PROVE  LayerAt(name, o) \in Seq(OriginsOf(name))
<1>1. CASE name \in Profiles /\ layers[name][o] # <<>>
  <2>1. o \in OriginsOf(name) /\ LayerAt(name, o) = <<o>>
    BY <1>1 DEF OriginsOf, LayerAt
  <2> QED BY <2>1
<1>2. CASE ~(name \in Profiles /\ layers[name][o] # <<>>)
  <2>1. LayerAt(name, o) = <<>>
    BY <1>2 DEF LayerAt
  <2> QED BY <2>1
<1> QED BY <1>1, <1>2

LEMMA LookupSeq ==
  ASSUME NEW name
  PROVE  lookup(name) \in Seq(OriginsOf(name)) /\ Len(lookup(name)) \in Nat
<1> DEFINE O == OriginsOf(name)
           a == LayerAt(name, "user")  b == LayerAt(name, "system")  c == LayerAt(name, "builtin")
<1>1. a \in Seq(O) /\ b \in Seq(O) /\ c \in Seq(O)
  BY LayerAtSeq
<1>2. lookup(name) = (a \o b) \o c
  BY DEF lookup, Origins
<1>3. (a \o b) \o c \in Seq(O)
  <2> HIDE DEF a, b, c, O
  <2>1. a \o b \in Seq(O)
    BY <1>1, ConcatProperties
  <2> QED BY <1>1, <2>1, ConcatProperties
<1>4. lookup(name) \in Seq(O)
  BY <1>2, <1>3
<1>5. Len(lookup(name)) \in Nat
  <2> HIDE DEF O
  <2> QED BY <1>4
<1> QED BY <1>4, <1>5

LEMMA LookupFacts ==
  ASSUME NEW name, NEW i \in 1..Len(lookup(name))
  PROVE  LET id == <<name, lookup(name)[i]>> IN id \in LayerIds /\ There(id)
<1>1. lookup(name)[i] \in OriginsOf(name)
  BY LookupSeq, ElementOfSeq
<1> QED BY <1>1 DEF OriginsOf, LayerIds, There

LEMMA DocFacts ==
  ASSUME LayerTypes, NEW id \in LayerIds, There(id)
  PROVE  /\ Doc(id) \in AllDocs /\ parse_doc(Doc(id), TRUE) \in RawDocs
         /\ IncludesOf(id) \in Seq(STRING) /\ DOMAIN IncludesOf(id) = 1..Len(IncludesOf(id))
<1>1. layers[id[1]][id[2]] \in Held
  BY DEF LayerTypes, LayerIds
<1>2. Doc(id) \in AllDocs
  BY <1>1 DEF Held, Doc, There
<1>3. parse_doc(Doc(id), TRUE) \in RawDocs
  BY <1>2 DEF RawDocs
<1>4. IncludesOf(id) \in Seq(STRING)
  BY <1>2, ProfileAssumption DEF IncludesOf
<1>5. \A s \in Seq(STRING) : DOMAIN s = 1..Len(s)
  OBVIOUS
<1> QED BY <1>2, <1>3, <1>4, <1>5

LEMMA LayersInit == ProfileInit => LayerInv
<1> SUFFICES ASSUME ProfileInit PROVE LayerInv
  OBVIOUS
<1>1. LayerTypes
  <2>1. layers \in [Profiles -> [user : Held, system : Held, builtin : Held]]
    BY DEF ProfileInit, Held, AllDocs
  <2> QED BY <2>1 DEF ProfileInit, LayerTypes
<1>2. done = <<>> /\ chain = <<>> /\ outcome = "idle"
  BY DEF ProfileInit
<1> QED BY <1>1, <1>2 DEF LayerInv, Standing, OncePlaced, IncludesMerged, Distinct

LEMMA Pushed ==
  ASSUME NEW S, NEW s \in Seq(S), NEW e \in S
  PROVE  /\ Append(s, e) \in Seq(S) /\ Len(Append(s, e)) = Len(s) + 1 /\ DOMAIN Append(s, e) = 1..(Len(s) + 1)
         /\ Append(s, e)[Len(s) + 1] = e /\ \A i \in 1..Len(s) : Append(s, e)[i] = s[i]
<1>1. \A t \in Seq(S) : DOMAIN t = 1..Len(t)
  OBVIOUS
<1> QED BY <1>1, AppendProperties

LEMMA Popped ==
  ASSUME NEW S, NEW s \in Seq(S), s # <<>>
  PROVE  /\ Front(s) \in Seq(S) /\ Len(Front(s)) = Len(s) - 1 /\ DOMAIN Front(s) = 1..(Len(s) - 1)
         /\ \A i \in 1..(Len(s) - 1) : Front(s)[i] = s[i]
<1> DEFINE n == Len(s)  q == SubSeq(s, 1, n - 1)
<1>1. n \in Nat /\ n > 0 /\ \A i \in 1..n : s[i] \in S
  BY EmptySeq, ElementOfSeq
<1>2. Front(s) = q
  BY DEF Front
<1> HIDE DEF n
<1>3. \A i \in 1..(n - 1) : s[i] \in S
  BY <1>1
<1>4. /\ q \in Seq(S) /\ Len(q) = IF 1 <= n - 1 THEN (n - 1) - 1 + 1 ELSE 0
      /\ \A i \in 1..((n - 1) - 1 + 1) : q[i] = s[1 + i - 1]
  BY <1>1, <1>3, SubSeqProperties
<1> HIDE DEF q
<1>5. Len(q) = n - 1
  BY <1>1, <1>4
<1>6. \A i \in 1..(n - 1) : q[i] = s[i]
  BY <1>1, <1>4
<1>7. DOMAIN q = 1..Len(q)
  BY <1>4
<1> QED BY <1>2, <1>4, <1>5, <1>6, <1>7 DEF n

(* ------------------------------- the steps ------------------------------ *)

(* Nothing of the files and of what is merged is touched.                  *)
LEMMA SameMerged ==
  ASSUME layers' = layers, done' = done, IncludesMerged
  PROVE  IncludesMerged'
<1>1. \A id : IncludesOf(id)' = IncludesOf(id)
  BY DEF IncludesOf, Doc
<1> QED BY <1>1 DEF IncludesMerged

LEMMA LayersFail ==
  ASSUME LayerInv, NEW why, why \notin {"idle", "resolving"}, Failed(why)
  PROVE  LayerInv'
<1>1. /\ layers' = layers /\ chain' = chain /\ done' = done /\ call' = <<>>
      /\ outcome' \notin {"idle", "resolving"}
  BY DEF Failed
<1>2. LayerTypes'
  BY <1>1 DEF LayerInv, LayerTypes
<1>3. Standing'
  BY <1>1 DEF LayerInv, Standing, There, Doc
<1>4. OncePlaced'
  BY <1>1 DEF LayerInv, OncePlaced, Distinct
<1>5. IncludesMerged'
  BY <1>1, SameMerged DEF LayerInv
<1> QED BY <1>1, <1>2, <1>3, <1>4, <1>5 DEF LayerInv

LEMMA LayersResolve ==
  ASSUME LayerInv, NEW name \in Profiles, resolve(name)
  PROVE  LayerInv'
<1>1. /\ layers' = layers /\ chain' = chain /\ done' = done /\ call' = <<name, 0>>
      /\ outcome = "idle" /\ outcome' = "resolving"
  BY DEF resolve
<1>2. LayerTypes'
  BY <1>1 DEF LayerInv, LayerTypes
<1>3. Standing'
  BY <1>1 DEF LayerInv, Standing, There, Doc
<1>4. OncePlaced'
  BY <1>1 DEF LayerInv, OncePlaced, Distinct
<1>5. IncludesMerged'
  BY <1>1, SameMerged DEF LayerInv
<1>6. Followed'
  BY <1>1 DEF LayerInv, Followed
<1> QED BY <1>1, <1>2, <1>3, <1>4, <1>5, <1>6 DEF LayerInv

LEMMA LayersInclude ==
  ASSUME LayerInv, include
  PROVE  LayerInv'
<1> DEFINE n == Len(chain)  inc == Top.raw.includes[Top.next]
<1>0. LayerTypes /\ outcome = "resolving" /\ call = <<>> /\ chain # <<>> /\ Followed
  BY DEF include, LayerInv
<1>1. n \in Nat /\ n > 0 /\ DOMAIN chain = 1..n /\ Len(chain) = n /\ Top = chain[n] /\ Top \in Frames
  BY <1>0, EmptySeq, ElementOfSeq DEF LayerTypes, Top
<1> HIDE DEF n
<1>2. CASE inc = Top.id[1] /\ Top.below = 0
  <2>1. Failed("self_include_at_bottom")
    BY <1>2 DEF include
  <2> QED BY <2>1, LayersFail
<1>3. CASE ~(inc = Top.id[1] /\ Top.below = 0)
  <2> DEFINE skip == IF inc = Top.id[1] THEN Top.skip + 1 ELSE 0
             f == [Top EXCEPT !.next = Top.next + 1]
  <2>1. layers' = layers /\ done' = done /\ outcome' = outcome /\ call' = <<inc, skip>>
    BY <1>3 DEF include
  <2>0. chain' = [chain EXCEPT ![n] = f]
    BY <1>1, <1>3 DEF include
  <2>2. f \in Frames /\ f.id = Top.id /\ f.raw = Top.raw /\ f.next = Top.next + 1 /\ skip \in Nat
    BY <1>1 DEF Frames
  <2>3. /\ chain' \in Seq(Frames) /\ Len(chain') = n /\ DOMAIN chain' = 1..n /\ chain'[n] = f
        /\ \A i \in 1..n : i # n => chain'[i] = chain[i]
    <3> HIDE DEF f
    <3>1. chain \in Seq(Frames)
      BY <1>0 DEF LayerTypes
    <3> QED BY <1>1, <2>0, <2>2, <3>1, ExceptSeq
  <2> HIDE DEF f, skip
  <2>4. \A i \in 1..n : chain'[i].id = chain[i].id /\ chain'[i].raw = chain[i].raw
    BY <1>1, <2>2, <2>3
  <2>5. LayerTypes'
    BY <1>0, <2>1, <2>2, <2>3 DEF LayerTypes
  <2>6. Standing'
    BY <1>1, <2>1, <2>3, <2>4 DEF LayerInv, Standing, There, Doc
  <2>7. OncePlaced'
    BY <1>1, <2>1, <2>3, <2>4 DEF LayerInv, OncePlaced, Distinct
  <2>8. IncludesMerged'
    BY <2>1, SameMerged DEF LayerInv
  <2>9. Followed'
    <3> SUFFICES ASSUME NEW i \in 1..n, NEW k \in 1..(chain'[i].next - 1)
                 PROVE  \/ MergedName(chain[i].raw.includes[k])'
                        \/ k = chain'[i].next - 1 /\ AtHand(i, chain[i].raw.includes[k])'
      BY <2>3 DEF Followed
    <3>1. \A m : MergedName(m)' <=> MergedName(m)
      BY <2>1 DEF MergedName
    <3>2. CASE i # n
      <4>1. chain'[i] = chain[i] /\ i < n /\ i + 1 \in 1..n
        BY <1>1, <2>3, <3>2
      <4>2. \/ MergedName(chain[i].raw.includes[k])
            \/ k = chain[i].next - 1 /\ AtHand(i, chain[i].raw.includes[k])
        BY <1>0, <1>1, <4>1 DEF Followed
      <4>3. AtHand(i, chain[i].raw.includes[k]) => AtHand(i, chain[i].raw.includes[k])'
        BY <1>1, <2>3, <2>4, <4>1 DEF AtHand
      <4> QED BY <3>1, <4>1, <4>2, <4>3
    <3>3. CASE i = n
      <4>1. chain'[i].next - 1 = Top.next /\ chain'[i].raw = Top.raw
        BY <1>1, <2>2, <2>3, <3>3 DEF Frames
      <4>2. CASE k = Top.next
        <5>1. call' # <<>> /\ call'[1] = inc
          BY <2>1
        <5>2. AtHand(i, chain[i].raw.includes[k])'
          BY <2>3, <3>3, <4>1, <4>2, <5>1 DEF AtHand
        <5> QED BY <4>1, <4>2, <5>2
      <4>3. CASE k # Top.next
        <5>1. k \in 1..(Top.next - 1)
          BY <1>1, <4>1, <4>3 DEF Frames
        <5>2. ~AtHand(n, Top.raw.includes[k])
          BY <1>0, <1>1 DEF AtHand
        <5>3. MergedName(Top.raw.includes[k])
          BY <1>0, <1>1, <5>1, <5>2 DEF Followed
        <5> QED BY <3>1, <4>1, <5>3
      <4> QED BY <4>2, <4>3
    <3> QED BY <3>2, <3>3
  <2> QED BY <1>0, <2>1, <2>5, <2>6, <2>7, <2>8, <2>9 DEF LayerInv
<1> QED BY <1>2, <1>3

LEMMA LayersExpand ==
  ASSUME LayerInv, expand
  PROVE  LayerInv'
<1> DEFINE n == Len(chain)  found == lookup(call[1])  skip == call[2]  id == <<call[1], found[skip + 1]>>
           raw == parse_doc(Doc(id), TRUE)
<1>0. LayerTypes /\ outcome = "resolving" /\ call # <<>> /\ skip \in Nat /\ Followed
  BY DEF expand, LayerInv, LayerTypes
<1>1. CASE Len(found) <= skip
  <2>1. Failed("not_found")
    BY <1>1 DEF expand
  <2> QED BY <2>1, LayersFail
<1>2. CASE ~(Len(found) <= skip) /\ \E i \in DOMAIN chain : chain[i].id = id
  <2>1. Failed("cycle")
    BY <1>2 DEF expand
  <2> QED BY <2>1, LayersFail
<1>3. n \in Nat /\ DOMAIN chain = 1..n /\ Len(chain) = n /\ chain \in Seq(Frames)
  BY <1>0, EmptySeq DEF LayerTypes
<1>4. \A i \in 1..n : chain[i] \in Frames
  BY <1>3, ElementOfSeq
<1>5. CASE /\ ~(Len(found) <= skip) /\ ~(\E i \in DOMAIN chain : chain[i].id = id)
           /\ Seen(id)
  <2>1. layers' = layers /\ done' = done /\ chain' = chain /\ outcome' = outcome /\ call' = <<>>
    BY <1>5 DEF expand
  <2>2. LayerTypes'
    BY <1>0, <2>1 DEF LayerTypes
  <2>3. Standing'
    BY <2>1 DEF LayerInv, Standing, There, Doc
  <2>4. OncePlaced'
    BY <2>1 DEF LayerInv, OncePlaced, Distinct
  <2>5. IncludesMerged'
    BY <2>1, SameMerged DEF LayerInv
  <2>6. MergedName(call[1])
    <3>1. id \in Range(done)
      BY <1>5 DEF Seen
    <3>2. PICK j \in DOMAIN done : done[j] = id
      BY <3>1 DEF Range
    <3> QED BY <3>2 DEF MergedName
  <2> HIDE DEF n, found, skip, id
  <2>7. Followed'
    <3> SUFFICES ASSUME NEW i \in 1..n, NEW k \in 1..(chain[i].next - 1)
                 PROVE  \/ MergedName(chain[i].raw.includes[k])'
                        \/ k = chain[i].next - 1 /\ AtHand(i, chain[i].raw.includes[k])'
      BY <1>3, <2>1 DEF Followed
    <3>1. \A m : MergedName(m)' <=> MergedName(m)
      BY <2>1 DEF MergedName
    <3>2. \/ MergedName(chain[i].raw.includes[k])
          \/ k = chain[i].next - 1 /\ AtHand(i, chain[i].raw.includes[k])
      BY <1>0, <1>3 DEF Followed
    <3>3. CASE MergedName(chain[i].raw.includes[k])
      BY <2>1, <3>1, <3>3 DEF MergedName
    <3>4. CASE k = chain[i].next - 1 /\ AtHand(i, chain[i].raw.includes[k])
      <4>1. CASE i < n
        BY <1>3, <2>1, <3>4, <4>1 DEF AtHand
      <4>2. CASE ~(i < n)
        <5>1. call[1] = chain[i].raw.includes[k]
          BY <1>3, <3>4, <4>2 DEF AtHand
        <5> QED BY <2>1, <2>6, <5>1 DEF MergedName
      <4> QED BY <4>1, <4>2
    <3> QED BY <3>2, <3>3, <3>4
  <2> QED BY <1>0, <2>1, <2>2, <2>3, <2>4, <2>5, <2>7 DEF LayerInv
<1>6. CASE /\ ~(Len(found) <= skip) /\ ~(\E i \in DOMAIN chain : chain[i].id = id)
           /\ ~Seen(id)
  <2>1. CASE Len(chain) >= MaxDepth
    <3>1. Failed("too_deep")
      BY <1>6, <2>1 DEF expand
    <3> QED BY <3>1, LayersFail
  <2>2. CASE ~(Len(chain) >= MaxDepth) /\ raw.error # "none"
    <3>1. Failed("parse")
      BY <1>6, <2>2 DEF expand
    <3> QED BY <3>1, LayersFail
  <2>3. CASE ~(Len(chain) >= MaxDepth) /\ ~(raw.error # "none")
    <3> DEFINE f == [id |-> id, skip |-> skip, below |-> Len(found) - skip - 1, raw |-> raw, next |-> 1]
    <3>1. layers' = layers /\ done' = done /\ outcome' = outcome /\ call' = <<>>
      BY <1>6, <2>3 DEF expand
    <3>2. chain' = Append(chain, f)
      BY <1>6, <2>3 DEF expand
    <3>3. Len(found) \in Nat /\ skip + 1 \in 1..Len(found)
      <4>2. Len(found) \in Nat
        BY LookupSeq
      <4> HIDE DEF found, skip
      <4> QED BY <1>0, <1>6, <4>2
    <3>4. id \in LayerIds /\ There(id)
      <4> HIDE DEF skip
      <4> QED BY <3>3, LookupFacts
    <3>5. raw \in RawDocs
      <4> HIDE DEF id
      <4> QED BY <1>0, <3>4, DocFacts
    <3>6. f \in Frames
      <4> HIDE DEF id, raw, found, skip
      <4> QED BY <1>0, <3>3, <3>4, <3>5 DEF Frames
    <3>7. f.id = id /\ f.raw = raw /\ f.next = 1
      OBVIOUS
    <3> HIDE DEF f, n, found, skip
    <3>8. /\ chain' \in Seq(Frames) /\ Len(chain') = n + 1 /\ DOMAIN chain' = 1..(n + 1)
          /\ chain'[n + 1] = f /\ \A i \in 1..n : chain'[i] = chain[i]
      BY <1>3, <3>2, <3>6, Pushed
    <3>9. \A i \in 1..(n + 1) : i \in 1..n \/ i = n + 1
      BY <1>3
    <3>10. LayerTypes'
      BY <1>0, <3>1, <3>8 DEF LayerTypes
    <3>11. Standing'
      <4>1. \A x : There(x)' <=> There(x)
        BY <3>1 DEF There
      <4>2. \A x : Doc(x)' = Doc(x)
        BY <3>1 DEF Doc
      <4>3. \A i \in 1..n : There(chain[i].id) /\ chain[i].raw = parse_doc(Doc(chain[i].id), TRUE)
        BY <1>3 DEF LayerInv, Standing
      <4>4. \A i \in DOMAIN done : There(done[i])
        BY DEF LayerInv, Standing
      <4> HIDE DEF id
      <4>5. There(f.id) /\ f.raw = parse_doc(Doc(f.id), TRUE)
        BY <3>4, <3>7
      <4>6. \A i \in 1..(n + 1) : There(chain'[i].id) /\ chain'[i].raw = parse_doc(Doc(chain'[i].id), TRUE)
        BY <3>8, <3>9, <4>3, <4>5
      <4> QED BY <3>1, <3>8, <4>1, <4>2, <4>4, <4>6 DEF Standing
    <3>12. OncePlaced'
      <4> HIDE DEF id, raw
      <4>1. \A i \in 1..n : chain[i].id # id
        BY <1>3, <1>6
      <4>2. \A j \in DOMAIN done : done[j] # id
        BY <1>6 DEF Seen, Range
      <4>3. \A i, j \in 1..(n + 1) : chain'[i].id = chain'[j].id => i = j
        BY <1>3, <3>7, <3>8, <3>9, <4>1 DEF LayerInv, OncePlaced
      <4>4. \A i \in 1..(n + 1), j \in DOMAIN done : chain'[i].id # done[j]
        BY <1>3, <3>7, <3>8, <3>9, <4>2 DEF LayerInv, OncePlaced
      <4>5. Distinct(done)'
        BY <3>1 DEF LayerInv, OncePlaced, Distinct
      <4> QED BY <3>1, <3>8, <4>3, <4>4, <4>5 DEF OncePlaced
    <3>13. IncludesMerged'
      BY <3>1, SameMerged DEF LayerInv
    <3>14. Followed'
      <4> SUFFICES ASSUME NEW i \in 1..(n + 1), NEW k \in 1..(chain'[i].next - 1)
                   PROVE  \/ MergedName(chain[i].raw.includes[k])'
                          \/ k = chain'[i].next - 1 /\ AtHand(i, chain[i].raw.includes[k])'
        BY <3>8 DEF Followed
      <4>1. i \in 1..n
        BY <1>3, <3>7, <3>8
      <4>2. chain'[i] = chain[i]
        BY <3>8, <4>1
      <4>3. \/ MergedName(chain[i].raw.includes[k])
            \/ k = chain[i].next - 1 /\ AtHand(i, chain[i].raw.includes[k])
        BY <1>0, <1>3, <4>1, <4>2 DEF Followed
      <4>4. CASE MergedName(chain[i].raw.includes[k])
        BY <3>1, <4>2, <4>4 DEF MergedName
      <4>5. CASE k = chain[i].next - 1 /\ AtHand(i, chain[i].raw.includes[k])
        <5>1. CASE i < n
          <6>1. chain'[i + 1] = chain[i + 1] /\ i < n + 1
            BY <1>3, <3>8, <4>1, <5>1
          <6> QED BY <1>3, <3>8, <4>2, <4>5, <5>1, <6>1 DEF AtHand
        <5>2. CASE i = n
          <6>1. chain'[i + 1].id[1] = call[1]
            BY <3>7, <3>8, <5>2
          <6>2. call[1] = chain[i].raw.includes[k]
            BY <1>3, <4>5, <5>2 DEF AtHand
          <6>3. i < n + 1
            BY <1>3, <5>2
          <6> QED BY <3>8, <4>2, <4>5, <6>1, <6>2, <6>3 DEF AtHand
        <5> QED BY <1>3, <4>1, <5>1, <5>2
      <4> QED BY <4>3, <4>4, <4>5
    <3> QED BY <1>0, <3>1, <3>10, <3>11, <3>12, <3>13, <3>14 DEF LayerInv
  <2> QED BY <2>1, <2>2, <2>3
<1> QED BY <1>1, <1>2, <1>5, <1>6

LEMMA LayersMerge ==
  ASSUME LayerInv, merge_layer
  PROVE  LayerInv'
<1> DEFINE n == Len(chain)  m == Len(done)  id == Top.id
<1>0. LayerTypes /\ outcome = "resolving" /\ call = <<>> /\ chain # <<>> /\ Followed
  BY DEF merge_layer, LayerInv
<1>1. /\ n \in Nat /\ n > 0 /\ DOMAIN chain = 1..n /\ Len(chain) = n /\ chain \in Seq(Frames)
      /\ Top = chain[n] /\ Top \in Frames
  BY <1>0, EmptySeq, ElementOfSeq DEF LayerTypes, Top
<1>2. m \in Nat /\ DOMAIN done = 1..m /\ Len(done) = m /\ done \in Seq(LayerIds)
  BY <1>0, EmptySeq DEF LayerTypes
<1>3. /\ layers' = layers /\ call' = call /\ outcome' # "idle"
      /\ done' = Append(done, id) /\ chain' = Front(chain) /\ Top.next > Len(Top.raw.includes)
  BY DEF merge_layer
<1> HIDE DEF n, m, id
<1>4. id \in LayerIds /\ id = chain[n].id
  BY <1>1 DEF Frames, id
<1>5. /\ done' \in Seq(LayerIds) /\ Len(done') = m + 1 /\ DOMAIN done' = 1..(m + 1)
      /\ done'[m + 1] = id /\ \A i \in 1..m : done'[i] = done[i]
  BY <1>2, <1>3, <1>4, Pushed
<1>6. /\ chain' \in Seq(Frames) /\ Len(chain') = n - 1 /\ DOMAIN chain' = 1..(n - 1)
      /\ \A i \in 1..(n - 1) : chain'[i] = chain[i]
  BY <1>0, <1>1, <1>3, Popped
<1>7. (\A i \in 1..(m + 1) : i \in 1..m \/ i = m + 1) /\ (\A i \in 1..(n - 1) : i \in 1..n /\ i # n)
  BY <1>1, <1>2
<1>8. LayerTypes'
  BY <1>0, <1>3, <1>5, <1>6 DEF LayerTypes
<1>9. There(id) /\ Top.raw = parse_doc(Doc(id), TRUE)
  <2>1. n \in DOMAIN chain
    BY <1>1
  <2> QED BY <1>1, <1>4, <2>1 DEF LayerInv, Standing
<1>10. Standing'
  <2>1. \A x : There(x)' <=> There(x)
    BY <1>3 DEF There
  <2>2. \A x : Doc(x)' = Doc(x)
    BY <1>3 DEF Doc
  <2>3. \A i \in 1..(m + 1) : There(done'[i])
    BY <1>2, <1>5, <1>7, <1>9 DEF LayerInv, Standing
  <2>4. \A i \in 1..(n - 1) : There(chain'[i].id) /\ chain'[i].raw = parse_doc(Doc(chain'[i].id), TRUE)
    BY <1>1, <1>6, <1>7 DEF LayerInv, Standing
  <2> QED BY <1>5, <1>6, <2>1, <2>2, <2>3, <2>4 DEF Standing
<1>11. OncePlaced'
  <2>1. \A j \in 1..m : done[j] # id
    BY <1>1, <1>2, <1>4 DEF LayerInv, OncePlaced
  <2>2. \A i, j \in 1..(m + 1) : done'[i] = done'[j] => i = j
    BY <1>2, <1>5, <1>7, <2>1 DEF LayerInv, OncePlaced, Distinct
  <2>3. \A i, j \in 1..(n - 1) : chain'[i].id = chain'[j].id => i = j
    BY <1>1, <1>6, <1>7 DEF LayerInv, OncePlaced
  <2>4. \A i \in 1..(n - 1) : chain[i].id # id
    BY <1>1, <1>4, <1>7 DEF LayerInv, OncePlaced
  <2>5. \A i \in 1..(n - 1), j \in 1..m : chain'[i].id # done'[j]
    <3>1. \A i \in 1..n, j \in 1..m : chain[i].id # done[j]
      BY <1>1, <1>2 DEF LayerInv, OncePlaced
    <3> QED BY <1>5, <1>6, <1>7, <3>1
  <2>6. \A i \in 1..(n - 1) : chain'[i].id # done'[m + 1]
    BY <1>5, <1>6, <2>4
  <2>7. \A i \in 1..(n - 1), j \in 1..(m + 1) : chain'[i].id # done'[j]
    BY <1>7, <2>5, <2>6
  <2> QED BY <1>5, <1>6, <2>2, <2>3, <2>7 DEF OncePlaced, Distinct
<1>12. \A k \in DOMAIN IncludesOf(id) : MergedName(IncludesOf(id)[k])
  <2> SUFFICES ASSUME NEW k \in DOMAIN IncludesOf(id) PROVE MergedName(IncludesOf(id)[k])
    OBVIOUS
  <2>1. IncludesOf(id) = Top.raw.includes
    BY <1>9 DEF IncludesOf
  <2>2. IncludesOf(id) \in Seq(STRING) /\ DOMAIN IncludesOf(id) = 1..Len(IncludesOf(id))
    BY <1>0, <1>4, <1>9, DocFacts
  <2> DEFINE t == Len(IncludesOf(id))
  <2>3. t \in Nat /\ k \in 1..t
    <3>1. \A s \in Seq(STRING) : Len(s) \in Nat
      OBVIOUS
    <3> QED BY <2>2, <3>1
  <2>4. chain[n].next > t /\ chain[n].next \in Nat
    BY <1>1, <1>3, <2>1 DEF Frames
  <2> HIDE DEF t
  <2>5. k \in 1..(chain[n].next - 1)
    BY <2>3, <2>4
  <2>6. ~AtHand(n, chain[n].raw.includes[k])
    BY <1>0, <1>1 DEF AtHand
  <2>7. MergedName(chain[n].raw.includes[k])
    BY <1>0, <1>1, <2>5, <2>6 DEF Followed
  <2> QED BY <1>1, <2>1, <2>7
<1>13. IncludesMerged'
  <2>1. \A x : IncludesOf(x)' = IncludesOf(x)
    BY <1>3 DEF IncludesOf, Doc
  <2>2. SUFFICES ASSUME NEW i \in 1..(m + 1), NEW k \in DOMAIN IncludesOf(done'[i])
                 PROVE  \E j \in 1..(i - 1) : done'[j][1] = IncludesOf(done'[i])[k]
    BY <1>5, <2>1 DEF IncludesMerged
  <2>3. CASE i \in 1..m
    <3>1. PICK j \in 1..(i - 1) : done[j][1] = IncludesOf(done[i])[k]
      BY <1>2, <1>5, <2>3 DEF LayerInv, IncludesMerged
    <3>2. j \in 1..m
      BY <1>2, <2>3
    <3> QED BY <1>5, <2>3, <3>1, <3>2
  <2>4. CASE i = m + 1
    <3>1. PICK j \in 1..m : done[j][1] = IncludesOf(id)[k]
      BY <1>2, <1>5, <1>12, <2>4 DEF MergedName
    <3>2. j \in 1..(i - 1)
      BY <1>2, <2>4
    <3> QED BY <1>5, <2>4, <3>1, <3>2
  <2> QED BY <1>7, <2>3, <2>4
<1>14. Followed'
  <2> SUFFICES ASSUME NEW i \in 1..(n - 1), NEW k \in 1..(chain'[i].next - 1)
               PROVE  \/ MergedName(chain[i].raw.includes[k])'
                      \/ k = chain'[i].next - 1 /\ AtHand(i, chain[i].raw.includes[k])'
    BY <1>6 DEF Followed
  <2>1. chain'[i] = chain[i] /\ i \in 1..n /\ i < n
    BY <1>1, <1>6
  <2>2. \/ MergedName(chain[i].raw.includes[k])
        \/ k = chain[i].next - 1 /\ AtHand(i, chain[i].raw.includes[k])
    BY <1>0, <1>1, <2>1 DEF Followed
  <2>3. \A x : MergedName(x) => \E j \in 1..(m + 1) : done'[j][1] = x
    <3> SUFFICES ASSUME NEW x, MergedName(x) PROVE \E j \in 1..(m + 1) : done'[j][1] = x
      OBVIOUS
    <3>1. PICK j \in 1..m : done[j][1] = x
      BY <1>2 DEF MergedName
    <3>2. j \in 1..(m + 1)
      BY <1>2
    <3> QED BY <1>5, <3>1, <3>2
  <2>4. CASE MergedName(chain[i].raw.includes[k])
    BY <1>5, <2>1, <2>3, <2>4 DEF MergedName
  <2>5. CASE k = chain[i].next - 1 /\ AtHand(i, chain[i].raw.includes[k])
    <3>1. chain[i + 1].id[1] = chain[i].raw.includes[k]
      BY <1>1, <2>1, <2>5 DEF AtHand
    <3>2. CASE i + 1 = n
      <4>1. done'[m + 1][1] = chain'[i].raw.includes[k] /\ m + 1 \in 1..(m + 1)
        BY <1>2, <1>4, <1>5, <2>1, <3>1, <3>2
      <4> QED BY <1>5, <4>1 DEF MergedName
    <3>3. CASE i + 1 # n
      <4>1. i + 1 \in 1..(n - 1) /\ i < n - 1
        BY <1>1, <2>1, <3>3
      <4>2. chain'[i + 1] = chain[i + 1]
        BY <1>6, <4>1
      <4> QED BY <1>6, <2>1, <2>5, <3>1, <4>1, <4>2 DEF AtHand
    <3> QED BY <3>2, <3>3
  <2> QED BY <2>2, <2>4, <2>5
<1> QED BY <1>3, <1>8, <1>10, <1>11, <1>13, <1>14 DEF LayerInv

LEMMA LayersEdit ==
  ASSUME LayerInv, NEW name \in Profiles, edit_path(name)
  PROVE  LayerInv'
<1> DEFINE t == IF lookup(name) = <<>> THEN <<>> ELSE OwnInclude(name)
           r == [layers[name] EXCEPT !.user = <<t>>]
           Layer == [user : Held, system : Held, builtin : Held]
<1>0. LayerTypes /\ layers \in [Profiles -> Layer]
  BY DEF LayerInv, LayerTypes
<1>1. /\ layers[name].user = <<>> /\ layers' = [layers EXCEPT ![name] = r]
      /\ call' = call /\ chain' = chain /\ done' = done /\ outcome' = outcome
  BY DEF edit_path
<1>2. t \in AllDocs
  BY DEF AllDocs
<1>3. r \in Layer /\ r.system = layers[name].system /\ r.builtin = layers[name].builtin
  <2>1. <<t>> \in Held
    BY <1>2 DEF Held
  <2> HIDE DEF t
  <2> QED BY <1>0, <2>1
<1> HIDE DEF r
<1>4. layers' \in [Profiles -> Layer]
  BY <1>0, <1>1, <1>3
<1>5. \A x \in LayerIds : There(x) => layers'[x[1]][x[2]] = layers[x[1]][x[2]]
  <2> SUFFICES ASSUME NEW p \in Profiles, NEW o \in {"user", "system", "builtin"}, layers[p][o] # <<>>
               PROVE  layers'[p][o] = layers[p][o]
    BY DEF LayerIds, There
  <2>1. CASE p # name
    BY <1>0, <1>1, <2>1
  <2>2. CASE p = name
    <3>1. layers'[p] = r
      BY <1>0, <1>1, <2>2
    <3> QED BY <1>1, <1>3, <2>2, <3>1
  <2> QED BY <2>1, <2>2
<1>6. \A x \in LayerIds : There(x) => There(x)' /\ Doc(x)' = Doc(x) /\ IncludesOf(x)' = IncludesOf(x)
  BY <1>5 DEF There, Doc, IncludesOf
<1>7. (\A i \in DOMAIN done : done[i] \in LayerIds) /\ (\A i \in DOMAIN chain : chain[i].id \in LayerIds)
  <2>1. \A i \in DOMAIN done : done[i] \in LayerIds
    BY <1>0 DEF LayerTypes
  <2>2. \A i \in DOMAIN chain : chain[i] \in Frames
    BY <1>0 DEF LayerTypes
  <2> QED BY <2>1, <2>2 DEF Frames
<1>8. LayerTypes'
  BY <1>0, <1>1, <1>4 DEF LayerTypes
<1>9. Standing'
  BY <1>1, <1>6, <1>7 DEF LayerInv, Standing
<1>10. OncePlaced'
  BY <1>1 DEF LayerInv, OncePlaced, Distinct
<1>11. IncludesMerged'
  <2>1. \A i \in DOMAIN done : IncludesOf(done[i])' = IncludesOf(done[i])
    BY <1>1, <1>6, <1>7 DEF LayerInv, Standing
  <2> QED BY <1>1, <2>1 DEF LayerInv, IncludesMerged
<1>12. Followed' <=> Followed
  BY <1>1 DEF Followed, MergedName, AtHand
<1> QED BY <1>1, <1>8, <1>9, <1>10, <1>11, <1>12 DEF LayerInv

(* However often a profile is edited while it is resolved: a layer is      *)
(* merged once, and after every layer it includes (Resolver::expand()).    *)
THEOREM IncludedFirstHolds == ProfileSpec => []IncludedFirst
<1>1. LayerInv /\ [ProfileNext]_pvars => LayerInv'
  <2> SUFFICES ASSUME LayerInv, [ProfileNext]_pvars PROVE LayerInv'
    OBVIOUS
  <2>1. CASE UNCHANGED pvars
    <3>1. layers' = layers /\ call' = call /\ chain' = chain /\ done' = done /\ outcome' = outcome
      BY <2>1 DEF pvars
    <3>2. LayerTypes' /\ IncludesMerged'
      BY <3>1, SameMerged DEF LayerInv, LayerTypes
    <3>3. Standing'
      BY <3>1 DEF LayerInv, Standing, There, Doc
    <3>4. OncePlaced'
      BY <3>1 DEF LayerInv, OncePlaced, Distinct
    <3>5. Followed' <=> Followed
      BY <3>1 DEF Followed, MergedName, AtHand
    <3> QED BY <3>1, <3>2, <3>3, <3>4, <3>5 DEF LayerInv
  <2> QED BY <2>1, LayersExpand, LayersInclude, LayersMerge, LayersResolve, LayersEdit DEF ProfileNext
<1>2. LayerInv => IncludedFirst
  BY DEF LayerInv, OncePlaced, IncludesMerged, IncludesOf, IncludedFirst
<1> QED BY <1>1, <1>2, LayersInit, PTL DEF ProfileSpec
=============================================================================
