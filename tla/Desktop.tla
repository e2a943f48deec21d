------------------------------ MODULE Desktop ------------------------------
(***************************************************************************)
(* Launcher entries (desktop.rs, and `bubbler desktop` in main.rs): an     *)
(* instance's entry is the vendor's own file with every command line led   *)
(* through bubbler, written to the user's applications directory, the only *)
(* one bubbler writes.  Several commands run at once; the user and the     *)
(* package manager change files under them.                                *)
(*                                                                         *)
(* A line is [k, loc, v]: its key, its locale, and its value as a sequence *)
(* of words.  A header has the key "[" and its name as its value, a blank  *)
(* line the key "".  A missing file is <<>>.                               *)
(***************************************************************************)
EXTENDS Naturals, Sequences, SequencesExt, FiniteSets

CONSTANTS Shells,      \* the bubblers running `desktop`
          Instances,   \* instance -> [command, exact, own, hint]: its program, the file
                       \* called after that, the file called after it, <<>> or a hint
          Files,       \* file names that end in .desktop, in name order
          Texts,       \* what a vendor or the user puts into one
          Installed,   \* the system directories to begin with
          Exe,         \* the canonical path of this bubbler
          SearchPath,  \* the `bubbler` of each $PATH directory: [found, real]
          MaxJobs,     \* bound: commands started
          MaxEdits     \* bound: changes by the user or the package manager

VARIABLES user,        \* $XDG_DATA_HOME/applications: file -> text
          system,      \* the system directories, in precedence order
          known,       \* the instances there are
          at, job,     \* where each bubbler is, and what it does
          jobs, edits
dvars == <<user, system, known, at, job, jobs, edits>>

MARKER == "X-Bubbler-Instance"
Key(k, v) == [k |-> k, loc |-> "", v |-> v]
ENTRY == <<"Desktop Entry">>

(* ------------------------------ reading -------------------------------- *)

lookup == <<user>> \o system
header(l) == l.k = "["
\* The lines of the first group of that name, without its header.
group_lines(t, g) ==
  LET Until(rest, next) == IF next = 0 THEN rest ELSE SubSeq(rest, 1, next - 1)
      After(rest) == Until(rest, SelectInSeq(rest, header))
      From(n) == After(IF n = 0 THEN <<>> ELSE SubSeq(t, n + 1, Len(t)))
  IN From(SelectInSeq(t, LAMBDA l : header(l) /\ l.v = g))
head(t) ==
  LET Value(lines, k) ==
        LET own == SelectSeq(lines, LAMBDA l : l.k = k /\ l.loc = "") IN IF own = <<>> THEN <<>> ELSE <<own[1].v>>
      True(lines, k) == Key(k, <<"true">>) \in Range(lines)
      Of(lines) == [exec |-> Value(lines, "Exec"), marker |-> Value(lines, MARKER),
                    no_display |-> True(lines, "NoDisplay"), hidden |-> True(lines, "Hidden")]
  IN Of(group_lines(t, ENTRY))
owner(t) == head(t).marker

\* One argument of an Exec value, character by character.
Reserved == {" ", "'", "\\", "$"}
Escaped == {"'", "\\", "$"}                 \* ' stands for the double quote
exec_quote(s) ==
  LET v == FlattenSeq([i \in DOMAIN s |-> IF s[i] = "%" THEN <<"%", "%">> ELSE <<s[i]>>])
  IN IF Range(v) \cap Reserved = {} THEN v
     ELSE <<"'">> \o FlattenSeq([i \in DOMAIN v |-> IF v[i] \in Escaped THEN <<"\\", v[i]>> ELSE <<v[i]>>])
          \o <<"'">>
\* The first argument of a value, <<>> where its quote is never closed.
exec_program(s) ==
  LET Step(acc, c) ==
        IF acc.done THEN acc
        ELSE IF ~acc.escaped /\ c = "\\" THEN [acc EXCEPT !.escaped = TRUE]
        ELSE IF ~acc.escaped /\ c = "'" THEN [acc EXCEPT !.done = TRUE]
        ELSE [acc EXCEPT !.out = Append(@, c), !.escaped = FALSE]
      read == FoldLeft(Step, [out |-> <<>>, escaped |-> FALSE, done |-> FALSE], Tail(s))
      space == SelectInSeq(s, LAMBDA c : c = " ")
  IN IF s = <<>> THEN <<>>
     ELSE IF s[1] = "'" THEN IF read.done THEN <<read.out>> ELSE <<>>
     ELSE <<IF space = 0 THEN s ELSE SubSeq(s, 1, space - 1)>>

\* The first directory with the file as an entry bubbler did not write.
find(file, shown) ==
  LET Vendors(t, h) == t # <<>> /\ h.marker = <<>> /\ ~(shown /\ h.no_display)
      In(d) == IF d = 0 THEN <<>> ELSE <<[dir |-> d, file |-> file]>>
  IN In(SelectInSeq(lookup, LAMBDA dir : Vendors(dir[file], head(dir[file]))))
command_name(i) == Instances[i].command
\* Every entry that runs the command, one per file name, in lookup order.
scan(command) ==
  LET Runs(h) == /\ h.marker = <<>> /\ ~h.no_display /\ ~h.hidden
                 /\ h.exec # <<>> /\ h.exec[1] # <<>> /\ h.exec[1][1] = command
      Dir(found, d) ==
        FoldLeft(LAMBDA acc, f :
                   IF (\E i \in DOMAIN acc : acc[i].file = f) \/ lookup[d][f] = <<>> \/ ~Runs(head(lookup[d][f]))
                   THEN acc
                   ELSE Append(acc, [dir |-> d, file |-> f]), found, Files)
  IN FoldLeft(Dir, <<>>, [d \in 1..Len(lookup) |-> d])
\* The one vendor entry an instance is for; two candidates are no answer.
source(i) ==
  LET Only(found) == IF Len(found) = 1 THEN found ELSE <<>>
      Or(exact) == IF exact # <<>> THEN exact ELSE Only(scan(command_name(i)))
  IN IF Instances[i].hint # <<>> THEN find(Instances[i].hint[1], FALSE) ELSE Or(find(Instances[i].exact, TRUE))

(* ------------------------------ writing -------------------------------- *)

\* The bare name where a PATH search ends at this very binary.
program ==
  LET first == SelectInSeq(SearchPath, LAMBDA c : c.found)
  IN IF first # 0 /\ SearchPath[first].real = Exe THEN "bubbler" ELSE Exe
added(present, i) ==
  (IF present.try_exec THEN <<>> ELSE <<Key("TryExec", <<program>>)>>)
  \o (IF present.dbus_activatable THEN <<>> ELSE <<Key("DBusActivatable", <<"false">>)>>)
  \o <<Key(MARKER, <<i>>)>>
\* Before the blank lines that end the group.
push_added(out, present, i) ==
  LET n == SelectLastInSeq(out, LAMBDA l : l.k # "")
  IN SubSeq(out, 1, n) \o added(present, i) \o SubSeq(out, n + 1, Len(out))
\* Mutant: the actions keep the vendor's command line.
RewrittenMain(entry, l, i) ==
  CASE entry /\ l.k = "Exec" -> [l EXCEPT !.v = <<program, "open", i, "--">> \o @]
    [] entry /\ l.k = "TryExec" -> [l EXCEPT !.v = <<program>>]
    [] entry /\ l.k = "DBusActivatable" -> [l EXCEPT !.v = <<"false">>]
    [] OTHER -> l
rewritten(entry, l, i) ==
  CASE entry /\ l.k = "Name" -> [l EXCEPT !.v = Append(@, "(bubbler)")]
    [] l.k = "Exec" /\ l.loc = "" -> [l EXCEPT !.v = <<program, "open", i, "--">> \o @]
    [] entry /\ l.k = "TryExec" /\ l.loc = "" -> [l EXCEPT !.v = <<program>>]
    [] entry /\ l.k = "DBusActivatable" /\ l.loc = "" -> [l EXCEPT !.v = <<"false">>]
    [] OTHER -> l
\* <<>> where the text is refused: Generated, NoEntryGroup, NoExec, Hidden.
patch(t, i) ==
  LET Close(acc) == IF acc.group = ENTRY THEN push_added(acc.out, acc, i) ELSE acc.out
      Line(acc, l) ==
        IF header(l) THEN [acc EXCEPT !.out = Append(Close(acc), l), !.group = l.v]
        ELSE LET entry == acc.group = ENTRY
             IN [acc EXCEPT !.out = Append(@, rewritten(entry, l, i)),
                            !.try_exec = @ \/ (entry /\ l.k = "TryExec" /\ l.loc = ""),
                            !.dbus_activatable = @ \/ (entry /\ l.k = "DBusActivatable" /\ l.loc = "")]
      start == [out |-> <<>>, group |-> <<>>, try_exec |-> FALSE, dbus_activatable |-> FALSE]
      Of(h) == IF h.marker # <<>> \/ h.exec = <<>> \/ h.hidden THEN <<>> ELSE Close(FoldLeft(Line, start, t))
  IN Of(head(t))
render(from, i) == patch(lookup[from.dir][from.file], i)
target(i, from, replace) == IF replace THEN from.file ELSE Instances[i].own
\* (file, instance) of every entry bubbler wrote.
generated == {<<f, owner(user[f])[1][1]>> : f \in {g \in DOMAIN user : owner(user[g]) # <<>>}}

(* ------------------------------ commands ------------------------------- *)

Idle == [instance |-> "", file |-> "", text |-> <<>>, todo |-> {}]
DesktopInit ==
  /\ user = [f \in Range(Files) |-> <<>>]
  /\ system = Installed
  /\ known = DOMAIN Instances
  /\ at = [s \in Shells |-> "idle"] /\ job = [s \in Shells |-> Idle]
  /\ jobs = 0 /\ edits = 0

To(s, where, what) == at' = [at EXCEPT ![s] = where] /\ job' = [job EXCEPT ![s] = what]
Start(s, where, what) ==
  /\ at[s] = "idle" /\ jobs < MaxJobs /\ jobs' = jobs + 1 /\ To(s, where, what)
  /\ UNCHANGED <<user, system, known, edits>>
\* The command ends, or goes on with what --refresh has left to do.
Next(s) == To(s, IF at[s] = "write" \/ at[s] = "rename" THEN "idle" ELSE "refresh",
              [Idle EXCEPT !.todo = job[s].todo])

\* build_entry(); the vendor's file is read here and not again.
build_entry(i, from, file, todo) ==
  LET Of(text) == IF text = <<>> THEN <<>> ELSE <<[instance |-> i, file |-> file, text |-> text, todo |-> todo]>>
  IN IF i \notin known \/ from = <<>> THEN <<>> ELSE Of(render(from[1], i))
Desktop(s, i, replace) ==
  \E from \in {source(i)} :
    /\ from # <<>>
    /\ \E built \in {build_entry(i, from, target(i, from[1], replace), {})} :
         built # <<>> /\ Start(s, "write", built[1])
\* --refresh: every entry there is, where it is, one that cannot be built
\* passed over.
refresh_entries(s) == \E all \in {generated} : all # {} /\ Start(s, "refresh", [Idle EXCEPT !.todo = all])
RefreshNext(s) ==
  /\ at[s] = "refresh" /\ UNCHANGED <<user, system, known, jobs, edits>>
  /\ \/ job[s].todo = {} /\ To(s, "idle", Idle)
     \/ \E e \in job[s].todo : \E left \in {job[s].todo \ {e}} :
          \E built \in {build_entry(e[2], source(e[2]), e[1], left)} :
            IF built = <<>> THEN To(s, "refresh", [Idle EXCEPT !.todo = left]) ELSE To(s, "rewrite", built[1])
\* write(): the file there is has to be absent or this instance's own.
Check(s) ==
  /\ at[s] \in {"write", "rewrite"} /\ UNCHANGED <<user, system, known, jobs, edits>>
  /\ IF user[job[s].file] = <<>> \/ owner(user[job[s].file]) = <<<<job[s].instance>>>>
     THEN To(s, IF at[s] = "write" THEN "rename" ELSE "rerename", job[s])
     ELSE Next(s)
write(s) ==
  /\ at[s] \in {"rename", "rerename"} /\ Next(s) /\ UNCHANGED <<system, known, jobs, edits>>
  /\ \/ user' = [user EXCEPT ![job[s].file] = job[s].text]
     \/ UNCHANGED user                                        \* write_atomic() fails
\* remove(): what was listed, one unlink at a time; one that fails ends it.
remove(s, i) ==
  \E mine \in {{e \in generated : e[2] = i}} : mine # {} /\ Start(s, "remove", [Idle EXCEPT !.todo = mine])
RemoveNext(s) ==
  /\ at[s] = "remove" /\ UNCHANGED <<system, known, jobs, edits>>
  /\ \/ job[s].todo = {} /\ To(s, "idle", Idle) /\ UNCHANGED user
     \/ \E e \in job[s].todo :
          \/ /\ user[e[1]] # <<>> /\ user' = [user EXCEPT ![e[1]] = <<>>]
             /\ To(s, "remove", [job[s] EXCEPT !.todo = @ \ {e}])
          \/ To(s, "idle", Idle) /\ UNCHANGED user

\* The user's own copy, a package's file, an instance that is deleted.
Edit(f, t) ==
  /\ edits < MaxEdits /\ edits' = edits + 1 /\ UNCHANGED <<at, job, jobs, known>>
  /\ \/ user' = [user EXCEPT ![f] = t] /\ UNCHANGED system
     \/ \E d \in DOMAIN Installed : system' = [system EXCEPT ![d][f] = t] /\ UNCHANGED user
Delete(i) ==
  /\ edits < MaxEdits /\ edits' = edits + 1 /\ known' = known \ {i}
  /\ UNCHANGED <<user, system, at, job, jobs>>

DesktopNext ==
  \/ \E s \in Shells :
       \/ \E i \in DOMAIN Instances : remove(s, i) \/ \E r \in BOOLEAN : Desktop(s, i, r)
       \/ refresh_entries(s) \/ RefreshNext(s) \/ RemoveNext(s) \/ Check(s) \/ write(s)
  \/ \E f \in Range(Files), t \in Texts \cup {<<>>} : Edit(f, t)
  \/ \E i \in known : Delete(i)

-----------------------------------------------------------------------------
\* What a launcher that follows the specification does with a text: the
\* program each command line starts with, found as a PATH search finds it.
Resolved(word) ==
  IF word # "bubbler" THEN word
  ELSE SearchPath[SelectInSeq(SearchPath, LAMBDA c : c.found)].real
Led(t, i) ==
  /\ \A n \in DOMAIN t : t[n].k = "Exec" /\ t[n].loc = "" =>
       /\ Len(t[n].v) >= 4 /\ Resolved(t[n].v[1]) = Exe
       /\ SubSeq(t[n].v, 2, 4) = <<"open", i, "--">>
       /\ "open" \notin Range(SubSeq(t[n].v, 5, Len(t[n].v)))
  /\ LET main == Range(group_lines(t, ENTRY))
     IN {l.v : l \in {x \in main : x.k = "DBusActivatable" /\ x.loc = ""}} = {<<"false">>}
Owned == {"Name", "Exec", "TryExec", "DBusActivatable", MARKER}
Rest(t) == SelectSeq(t, LAMBDA l : l.k \notin Owned)

(* Whatever was installed, shadowed, refreshed or removed in between, an   *)
(* entry with bubbler's mark starts this bubbler for its own instance and  *)
(* nothing else: every command line of every group, led through once and   *)
(* never twice, with no bus name for the launcher to start instead; the    *)
(* rest of it is the vendor's, line for line.                              *)
Contained ==
  LET Own(t, mark) == mark # <<>> => Led(t, mark[1][1]) /\ \E v \in Texts : Rest(v) = Rest(t)
  IN \A f \in Range(Files) : Own(user[f], owner(user[f]))

(* What a launcher reads of a quoted program is the program, `%%` read as  *)
(* the percent it stands for.                                              *)
Unpercent(s) ==
  FoldLeft(LAMBDA acc, c : IF c = "%" /\ acc.half THEN [acc EXCEPT !.half = FALSE]
                           ELSE [out |-> Append(acc.out, c), half |-> c = "%"],
           [out |-> <<>>, half |-> FALSE], s).out
QuotedReadsBack(s) ==
  LET read == exec_program(exec_quote(s) \o <<" ", "x">>)
  IN read # <<>> /\ Unpercent(read[1]) = s
=============================================================================
