------------------------------ MODULE Connect ------------------------------
(***************************************************************************)
(* What a CONNECT request asks for and which names are allowed (net-proxy: *)
(* connect.rs, allow.rs).  A request is a sequence of tokens: a character, *)
(* or a word nothing looks into (CONNECT, HTTP/1.1, Host); each counts one *)
(* towards a limit.  A status is its code; 0 asks for more.                *)
(***************************************************************************)
EXTENDS Naturals, Sequences, SequencesExt, FiniteSets, TLC

CONSTANTS MAX_REQUEST_LINE, MAX_TARGET, MAX_HEADERS, MAX_HEADER_COUNT,
          MAX_HOST,      \* HostPattern::MAX_NAME
          MAX_HOST_LABEL, \* HostPattern::MAX_LABEL
          MAX_DIGITS, MAX_PORT

INCOMPLETE == 0
BAD_REQUEST == 400
FORBIDDEN == 403
METHOD_NOT_ALLOWED == 405
URI_TOO_LONG == 414
Digit == "0" :> 0 @@ "4" :> 4
Letters == {"a", "b", "A", "B"}
Words == {"CONNECT", "GET", "HTTP/1.1", "HTTP/1.0", "HTTP/2", "Host", "host", "X"}
Visible == Letters \cup DOMAIN Digit \cup Words \cup {".", ":", "-", "*", "[", "]", "_"}
Token == Letters \cup DOMAIN Digit \cup Words \cup {".", "-", "*", "_"}

Split(s, sep) ==
  LET Between(cuts) == [i \in 1..(Len(cuts) - 1) |-> SubSeq(s, cuts[i] + 1, cuts[i + 1] - 1)]
  IN Between(SetToSortSeq({i \in DOMAIN s : s[i] = sep} \cup {0, Len(s) + 1}, <))
Stripped(s, last) == IF s # <<>> /\ Last(s) = last THEN Front(s) ELSE s
Lower(s) == [i \in DOMAIN s |-> CASE s[i] = "A" -> "a" [] s[i] = "B" -> "b" [] OTHER -> s[i]]

(* --------------------------------- names -------------------------------- *)

check_label(l) ==
  /\ Len(l) \in 1..MAX_HOST_LABEL /\ Range(l) \subseteq Letters \cup DOMAIN Digit \cup {"-"}
  /\ l[1] # "-" /\ Last(l) # "-"
AllDigits(l) == Range(l) \subseteq DOMAIN Digit
\* HostPattern::parse: <<>> or <<[labels, wildcard]>>.
pattern(s) ==
  LET Of(labels, wildcard) ==
        IF labels = <<>> THEN <<>>
        ELSE IF (\E i \in DOMAIN labels : ~check_label(labels[i])) \/ AllDigits(Last(labels)) THEN <<>>
        ELSE <<[labels |-> [i \in DOMAIN labels |-> Lower(labels[i])], wildcard |-> wildcard]>>
      From(all) == Of(IF all[1] = <<"*">> THEN Tail(all) ELSE all, all[1] = <<"*">>)
  IN IF Len(s) > MAX_HOST THEN <<>> ELSE From(Split(Stripped(s, "."), "."))
Join(labels) == Tail(FlattenSeq([i \in DOMAIN labels |-> <<".">> \o labels[i]]))
Display(p) == (IF p.wildcard THEN <<"*", ".">> ELSE <<>>) \o Join(p.labels)
\* Mutant: a wildcard covers every label in front.
pattern_matches_deep(p, host) ==
  LET got == Split(Lower(Stripped(host, ".")), ".")
  IN IF p.wildcard THEN Len(got) > Len(p.labels) /\ IsSuffix(p.labels, got) ELSE got = p.labels
pattern_matches(p, host) ==
  LET Rest(got) == IF p.wildcard THEN Tail(got) ELSE got
      Same(labels) == [i \in DOMAIN labels |-> Lower(labels[i])] = p.labels
      Of(got) == (\A i \in DOMAIN got : check_label(got[i])) /\ Same(Rest(got))
  IN Len(host) <= MAX_HOST /\ Of(Split(Stripped(host, "."), "."))
\* One to five digits, between 1 and 65535: <<>> or <<number>>.
port_of(s) ==
  LET n == FoldLeft(LAMBDA a, d : 10 * a + Digit[d], 0, s)
  IN IF Len(s) \notin 1..MAX_DIGITS \/ ~AllDigits(s) THEN <<>> ELSE IF n \in 1..MAX_PORT THEN <<n>> ELSE <<>>
\* The last colon: <<>> or <<before, after>>.
rsplit(s) ==
  LET At(last) == <<SubSeq(s, 1, last - 1), SubSeq(s, last + 1, Len(s))>>
  IN IF ":" \in Range(s) THEN At(Max({i \in DOMAIN s : s[i] = ":"})) ELSE <<>>
\* Allowlist::entry and ::matches, over the words of the argv.
entry(word) ==
  LET Both(p, n) == IF p = <<>> \/ n = <<>> THEN <<>> ELSE <<[pattern |-> p[1], port |-> n[1]]>>
      Of(at) == IF at = <<>> THEN <<>> ELSE Both(pattern(at[1]), port_of(at[2]))
  IN Of(rsplit(word))
allowlist(words) ==
  LET All(entries) == IF \E i \in DOMAIN entries : entries[i] = <<>> THEN <<>>
                      ELSE <<[i \in DOMAIN entries |-> entries[i][1]]>>
  IN All([i \in DOMAIN words |-> entry(words[i])])
allows(entries, host, port) ==
  \E i \in DOMAIN entries : entries[i].port = port /\ pattern_matches(entries[i].pattern, host)

(* -------------------------------- requests ------------------------------ *)

Say(code) == [s |-> code, host |-> <<>>, port |-> 0, at |-> 0]
split_line(buf, from, window, over) ==
  LET limit == IF Len(buf) - from < window THEN Len(buf) ELSE from + window
      Line(ends) ==
        IF ends = {} THEN [s |-> IF Len(buf) - from > window THEN over ELSE INCOMPLETE, line |-> <<>>, at |-> 0]
        ELSE [s |-> 200, line |-> Stripped(SubSeq(buf, from + 1, Min(ends) - 1), "\r"), at |-> Min(ends)]
  IN Line({i \in (from + 1)..limit : buf[i] = "\n"})
target_of(target) ==
  LET Named(name, labels, port) ==
        IF Last(labels) # <<>> /\ AllDigits(Last(labels)) THEN Say(FORBIDDEN)
        ELSE IF \E i \in DOMAIN labels : ~check_label(labels[i]) THEN Say(BAD_REQUEST)
        ELSE [s |-> 200, host |-> Lower(name), port |-> port, at |-> 0]
      Host(name, port) == IF port = <<>> THEN Say(BAD_REQUEST) ELSE Named(name, Split(name, "."), port[1])
      Of(at) == IF at = <<>> THEN Say(BAD_REQUEST)
                ELSE IF at[1] # <<>> /\ at[1][1] = "[" THEN Say(FORBIDDEN)
                ELSE Host(Stripped(at[1], "."), port_of(at[2]))
  IN IF Len(target) > MAX_TARGET THEN Say(URI_TOO_LONG) ELSE Of(rsplit(target))
request_line(line) ==
  LET Of(words) ==
        IF ~(Range(line) \subseteq Visible \cup {" "}) \/ Len(words) # 3 THEN Say(BAD_REQUEST)
        ELSE IF words[1] # <<"CONNECT">> THEN Say(METHOD_NOT_ALLOWED)
        ELSE IF words[3] \notin {<<"HTTP/1.1">>, <<"HTTP/1.0">>} THEN Say(BAD_REQUEST)
        ELSE target_of(words[2])
  IN Of(Split(line, " "))
\* A field that is none, another, or the Host.
field(line) ==
  LET Kind(name, value) ==
        IF name = <<>> \/ ~(Range(name) \subseteq Token) \/ ~(Range(value) \subseteq Visible \cup {" ", "\t"}) THEN "bad"
        ELSE IF name \in {<<"Host">>, <<"host">>} THEN "host" ELSE "other"
      At(colon) == Kind(SubSeq(line, 1, colon - 1), SubSeq(line, colon + 1, Len(line)))
  IN IF line[1] \in {" ", "\t"} \/ ":" \notin Range(line) THEN "bad"
     ELSE At(Min({i \in DOMAIN line : line[i] = ":"}))
\* The fields from `at` on, until the blank line.
RECURSIVE fields(_, _, _, _, _)
fields(buf, at, n, hosts, r) ==
  LET Field(kind, next) ==
        IF n = MAX_HEADER_COUNT \/ kind = "bad" THEN Say(BAD_REQUEST)
        ELSE fields(buf, next, n + 1, IF kind = "host" THEN hosts + 1 ELSE hosts, r)
      Of(next) ==
        IF next.s # 200 THEN Say(next.s)
        ELSE IF next.line # <<>> THEN Field(field(next.line), next.at)
        ELSE IF hosts = 1 THEN [r EXCEPT !.at = next.at] ELSE Say(BAD_REQUEST)
  IN IF at >= MAX_HEADERS THEN Say(BAD_REQUEST) ELSE Of(split_line(buf, at, MAX_HEADERS - at, BAD_REQUEST))
parse(buf) ==
  LET Asked(r, at) == IF r.s # 200 THEN r ELSE fields(buf, at, 0, 0, r)
      Of(first) == IF first.s # 200 THEN Say(first.s) ELSE Asked(request_line(first.line), first.at)
  IN Of(split_line(buf, 0, MAX_REQUEST_LINE, URI_TOO_LONG))

-----------------------------------------------------------------------------
(* However a request arrives in pieces it is judged the same: a prefix is   *)
(* either no request yet or already the answer, what follows the blank     *)
(* line changes nothing, and no request is more than the reader holds.     *)
JudgedWhole(buf) ==
  LET Alike(whole, parts) ==
        /\ \A n \in DOMAIN parts : parts[n] \in {Say(INCOMPLETE), whole} /\ (parts[n].s = 200 => n >= whole.at)
        /\ Len(buf) > MAX_HEADERS => whole.s # INCOMPLETE
        /\ whole.s = 200 => whole.at <= MAX_HEADERS /\ parse(buf \o <<"X">>) = whole
  IN Alike(parse(buf), [n \in 0..Len(buf) |-> parse(SubSeq(buf, 1, n))])

(* A target is allowed exactly when an entry of the argv writes that name,  *)
(* in any case and with or without the root dot, its first label free      *)
(* under a `*.`, and with that port; and what a config writes down again is *)
(* the same grant.                                                          *)
Written(name) == Split(Lower(Stripped(name, ".")), ".")
AllowedAsWritten(asked, granted, host, port, words) ==
  LET Same(want, have) == /\ Len(have) = Len(want)
                          /\ \A i \in DOMAIN have : have[i] = want[i] \/ (i = 1 /\ have[1] = <<"*">>)
      Names(at) == port_of(at[2]) = port_of(port) /\ Same(Written(host), Written(at[1]))
      Kept(p) == pattern(Display(p)) = <<p>>
  IN granted # <<>> =>
       /\ asked.s = 200 =>
            /\ asked.host = Lower(Stripped(host, ".")) /\ <<asked.port>> = port_of(port)
            /\ allows(granted[1], asked.host, asked.port)
                 = (Len(asked.host) <= MAX_HOST /\ \E i \in DOMAIN words : Names(rsplit(words[i])))
       /\ \A i \in DOMAIN words : Kept(granted[1][i].pattern)
=============================================================================
