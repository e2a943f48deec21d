------------------------------ MODULE Profile ------------------------------
(***************************************************************************)
(* Profiles (profile.rs): a name is provided by up to three layers, a      *)
(* layer includes others and its own name one layer down, and resolving    *)
(* merges every layer once, the included before the including.  Every      *)
(* lookup reads the files again, so a `profile edit` in another terminal   *)
(* shows up in the middle of a resolve.                                    *)
(***************************************************************************)
EXTENDS ConfigDoc

CONSTANTS Profiles,    \* profile names
          Docs,        \* what a layer may hold: sequences of lines
          MaxDepth,    \* MAX_DEPTH
          MaxEdited    \* bound: `profile edit`s

VARIABLES layers,      \* name -> origin -> <<>> or <<document>>
          call,        \* the layer expand() is called on: <<name, skip>>, or <<>>
          chain,       \* the layers being expanded, outermost first
          done,        \* LayerIds merged, in order
          acc,         \* Merged: a config, and whether a conflict was met
          outcome, edited

\* What edit_path() writes for a name that has a layer below.
OwnInclude(name) == <<[off |-> FALSE, node |-> Leaf("include", <<Arg(Str(name))>>)]>>
AllDocs == Docs \cup {<<>>} \cup {OwnInclude(name) : name \in Profiles}

\* include "<name>" takes a string: parse_include() refuses anything else.
ASSUME ProfileAssumption ==
  MaxDepth \in Nat /\ \A d \in AllDocs : parse_doc(d, TRUE).includes \in Seq(STRING)

pvars == <<layers, call, chain, done, acc, outcome, edited>>

Origins == <<"user", "system", "builtin">>

ProfileInit ==
  /\ layers \in [Profiles -> {[user |-> u, system |-> <<>>, builtin |-> b] :
                                u, b \in {<<>>} \cup {<<d>> : d \in Docs}}]
  /\ call = <<>> /\ chain = <<>> /\ done = <<>> /\ outcome = "idle" /\ edited = 0
  /\ acc = [cfg |-> EmptyConfig, conflict |-> FALSE]

\* Every layer of a name, nearest first.
LayerAt(name, o) == IF name \in Profiles /\ layers[name][o] # <<>> THEN <<o>> ELSE <<>>
lookup(name) == LayerAt(name, Origins[1]) \o LayerAt(name, Origins[2]) \o LayerAt(name, Origins[3])
Doc(id) == layers[id[1]][id[2]][1]

(* ------------------------------- merging ------------------------------- *)

Union(held, more) == held \o SelectSeq(more, LAMBDA x : x \notin Range(held))
Conflict(acc0) == [acc0 EXCEPT !.conflict = TRUE]
At(acc0, i, svc) == [acc0 EXCEPT !.cfg.service[i] = svc]
union_bus_rules(acc0, i, svc) ==
  LET held == acc0.cfg.service[i].rules
      Level(r) == r.kind \in {"see", "talk", "own"}
  IN IF \E r \in Range(held), n \in Range(svc.rules) :
          Level(r) /\ Level(n) /\ r.arg = n.arg /\ r.kind # n.kind
     THEN Conflict(acc0)
     ELSE At(acc0, i, [svc EXCEPT !.rules = Union(held, svc.rules)])
NetworkUnion(held, svc) ==
  [svc EXCEPT !.dns = Union(held.dns, @), !.forwards = Union(held.forwards, @),
              !.allow_out = Union(held.allow_out, @), !.allow_hosts = Union(held.allow_hosts, @),
              !.no_ipv6 = held.no_ipv6 \/ @]
\* A filter is a floor: a layer above may not be silent about it.
NetworkLast(acc0, i, svc) == At(acc0, i, NetworkUnion(acc0.cfg.service[i], svc))
MergeNetwork(acc0, i, svc) ==
  IF acc0.cfg.service[i].outbound = "deny" /\ svc.outbound # "deny" THEN Conflict(acc0)
  ELSE At(acc0, i, NetworkUnion(acc0.cfg.service[i], svc))
holds_share(acc0, i, svc) ==
  IF acc0.cfg.service[i].mode # svc.mode THEN Conflict(acc0)
  ELSE IF "optional" \in DOMAIN svc
       THEN At(acc0, i, [svc EXCEPT !.optional = acc0.cfg.service[i].optional \/ @])
       ELSE acc0
\* The flags of two nodes of a kind are or-ed: what either layer grants.
Flags == [gamepad |-> {"hidraw", "uinput"}, dri |-> {"kms"}, camera |-> {"nodes"},
          pipewire |-> {"microphone"}, pulseaudio |-> {"microphone"}]
Or(held, svc) == [f \in DOMAIN svc |-> IF f \in Flags[svc.svc] THEN held[f] \/ svc[f] ELSE svc[f]]
MergeHeld(acc0, i, svc) ==
  LET held == acc0.cfg.service[i]
  IN CASE svc.svc \in {"home-share", "path-share", "app-runtime"} -> holds_share(acc0, i, svc)
       [] svc.svc \in {"dbus", "system-bus"} -> union_bus_rules(acc0, i, svc)
       [] svc.svc = "network" -> MergeNetwork(acc0, i, svc)
       [] svc.svc \in DOMAIN Flags -> At(acc0, i, Or(held, svc))
       [] svc.svc = "portals" -> At(acc0, i, [svc EXCEPT !.children = Union(held.children, @)])
       [] svc.svc \in {"mpris", "wayland", "x11"} -> At(acc0, i, svc)
       [] OTHER -> acc0
add_service(acc0, svc) ==
  LET held == {i \in DOMAIN acc0.cfg.service :
                 LET h == acc0.cfg.service[i]
                 IN h.svc = svc.svc
                    /\ (svc.svc \in DOMAIN Keyed => h[Keyed[svc.svc]] = svc[Keyed[svc.svc]])}
  IN CASE acc0.conflict -> acc0
       [] held = {} -> [acc0 EXCEPT !.cfg.service = Append(@, svc)]
       [] OTHER -> MergeHeld(acc0, CHOOSE i \in held : \A j \in held : i <= j, svc)
\* An entry of the layer replaces the one with the same field `key`.
Replace(held, more, key) ==
  FoldLeft(LAMBDA s, x : IF \E i \in DOMAIN s : s[i][key] = x[key]
                         THEN [i \in DOMAIN s |-> IF s[i][key] = x[key] THEN x ELSE s[i]]
                         ELSE Append(s, x), held, more)
UnionSeccomp(held, more) ==
  LET a == IF held = <<>> THEN NoSeccomp ELSE held[1]
      b == more[1]
  IN <<[allow |-> Union(a.allow, b.allow), deny |-> Union(a.deny, b.deny),
        disable |-> a.disable \/ b.disable]>>
\* Merged::merge(): one layer over what is under it.
merge(acc0, raw) ==
  LET svcs == FoldLeft(add_service, acc0, raw.cfg.service)
      c == raw.cfg
      m == svcs.cfg
      Set(s) == IF s \in {"etc", "tty", "userns"}
                THEN IF s \in raw.seen THEN c[s] ELSE m[s]
                ELSE IF c[s] # <<>> THEN c[s] ELSE m[s]
  IN [svcs EXCEPT !.cfg =
        [s \in DOMAIN m |->
           CASE s = "service" -> m.service
             [] s = "env" -> Replace(m.env, c.env, 1)
             [] s = "lint_allow" -> Replace(m.lint_allow, c.lint_allow, "id")
             [] s = "disabled" -> m.disabled \o c.disabled
             [] s = "seccomp" -> IF c.seccomp = <<>> THEN m.seccomp ELSE UnionSeccomp(m.seccomp, c.seccomp)
             [] OTHER -> Set(s)]]
\* finish(): section by section, what is turned off after what is granted;
\* and read back, with the checks that need the whole file.
finish(m) ==
  Parse(Render([m EXCEPT !.disabled =
          [d \in DOMAIN @ |-> [m.disabled[d] EXCEPT !.before = Len(m[Sec(m.disabled[d].node)])]]]))

(* ------------------------------- expanding ----------------------------- *)

Failed(why) == /\ outcome' = why /\ call' = <<>> /\ UNCHANGED <<layers, chain, done, acc, edited>>
resolve(name) ==
  /\ outcome = "idle" /\ outcome' = "resolving" /\ call' = <<name, 0>>
  /\ UNCHANGED <<layers, chain, done, acc, edited>>
\* A layer two others include is read once, the first time it is met.
Seen(id) == id \in Range(done)
\* The head of expand(): which layer is meant, and whether it is to be read.
expand ==
  /\ outcome = "resolving" /\ call # <<>>
  /\ LET found == lookup(call[1])
         skip == call[2]
         id == <<call[1], found[skip + 1]>>
         Read(raw) ==
           IF raw.error # "none" THEN Failed("parse")
           ELSE /\ chain' = Append(chain, [id |-> id, skip |-> skip, below |-> Len(found) - skip - 1,
                                           raw |-> raw, next |-> 1])
                /\ call' = <<>> /\ UNCHANGED <<layers, done, acc, outcome, edited>>
     IN IF Len(found) <= skip THEN Failed("not_found")
        ELSE IF \E i \in DOMAIN chain : chain[i].id = id THEN Failed("cycle")
        ELSE IF Seen(id)
             THEN call' = <<>> /\ UNCHANGED <<layers, chain, done, acc, outcome, edited>>
        ELSE IF Len(chain) >= MaxDepth THEN Failed("too_deep")
        ELSE Read(parse_doc(Doc(id), TRUE))
Top == chain[Len(chain)]
\* The next `include`: another profile, or the layer below this one.
include ==
  /\ outcome = "resolving" /\ call = <<>> /\ chain # <<>> /\ Top.next <= Len(Top.raw.includes)
  /\ LET inc == Top.raw.includes[Top.next]
         own == inc = Top.id[1]
     IN IF own /\ Top.below = 0 THEN Failed("self_include_at_bottom")
        ELSE /\ call' = <<inc, IF own THEN Top.skip + 1 ELSE 0>>
             /\ chain' = [chain EXCEPT ![Len(chain)].next = @ + 1]
             /\ UNCHANGED <<layers, done, acc, outcome, edited>>
\* Everything it includes is in: the layer goes over it.
merge_layer ==
  /\ outcome = "resolving" /\ call = <<>> /\ chain # <<>> /\ Top.next > Len(Top.raw.includes)
  /\ acc' = merge(acc, Top.raw) /\ done' = Append(done, Top.id) /\ chain' = Front(chain)
  /\ outcome' = CASE acc'.conflict -> "conflict"
                  [] Len(chain) > 1 -> "resolving"
                  [] finish(acc'.cfg).error # "none" -> "parse"
                  [] OTHER -> "resolved"
  /\ UNCHANGED <<layers, call, edited>>
\* edit_path(), in this terminal or another: a name the user layer does not
\* hold starts as an include of the layer below it.
edit_path(name) ==
  /\ edited < MaxEdited /\ layers[name].user = <<>> /\ edited' = edited + 1
  /\ layers' = [layers EXCEPT ![name].user =
       <<IF lookup(name) = <<>> THEN <<>> ELSE OwnInclude(name)>>]
  /\ UNCHANGED <<call, chain, done, acc, outcome>>

ProfileNext == \/ expand \/ include \/ merge_layer
               \/ \E name \in Profiles : resolve(name) \/ edit_path(name)
ProfileSpec == ProfileInit /\ [][ProfileNext]_pvars

(* ----------------------------- properties ------------------------------ *)

Merged == {parse_doc(Doc(done[i]), TRUE).cfg : i \in DOMAIN done}
Filters(cfg) == \E i \in DOMAIN cfg.service :
                  cfg.service[i].svc = "network" /\ cfg.service[i].outbound = "deny"
\* A profile no layer of which may be unfiltered: where one of the layers
\* says `outbound "deny"`, the profile that resolves says it too, whatever
\* the layers over it write.
FilterIsFloor ==
  outcome = "resolved" /\ (\E cfg \in Merged : Filters(cfg)) => Filters(finish(acc.cfg).cfg)

\* A layer is merged once, and after every layer it includes: what it says
\* is never overridden by what it extends.
IncludedFirst ==
  /\ Distinct(done)
  /\ \A i \in DOMAIN done : LET inc == parse_doc(Doc(done[i]), TRUE).includes
                            IN \A k \in DOMAIN inc : \E j \in 1..(i - 1) : done[j][1] = inc[k]

\* A profile is its layers in order: merged once each, the extended before
\* the extending, and never less filtered than any of them (profile.rs).
ProfileLayers == FilterIsFloor /\ IncludedFirst
=============================================================================
