------------------------------ MODULE Seccomp ------------------------------
(***************************************************************************)
(* The syscall filter (seccomp.rs): the denylist every sandbox gets, what  *)
(* a `seccomp` node makes of it, and the program it is compiled into: a    *)
(* hand-written prefix that judges the argument of personality(), and      *)
(* libseccomp's rules behind it.                                           *)
(*                                                                         *)
(* libseccomp is external: a rule is added for a number and holds on the   *)
(* architectures the filter has at that moment; Number says which names it *)
(* knows.  A word of an argument is written as the 32-bit number it is     *)
(* when signed; an architecture is the machine part of its AUDIT_ARCH.     *)
(* The build is the one for x86_64, whose filter carries i386 too.         *)
(***************************************************************************)
EXTENDS Integers, Sequences, SequencesExt, FiniteSets

CONSTANT Number         \* name -> the number libseccomp resolves it to on x86_64

DEFAULT_EPERM == {
  "syslog", "uselib", "acct", "quotactl", "add_key", "keyctl", "request_key", "move_pages", "mbind",
  "get_mempolicy", "set_mempolicy", "migrate_pages", "perf_event_open", "bpf", "userfaultfd",
  "fanotify_init", "lookup_dcookie", "name_to_handle_at", "open_by_handle_at", "kexec_load",
  "kexec_file_load", "init_module", "finit_module", "delete_module", "iopl", "ioperm", "swapon",
  "swapoff", "reboot", "vhangup", "settimeofday", "clock_settime", "clock_settime64", "adjtimex",
  "clock_adjtime", "clock_adjtime64", "sethostname", "setdomainname", "nfsservctl", "vm86", "vm86old",
  "io_uring_setup", "io_uring_enter", "io_uring_register", "pidfd_getfd", "kcmp"}
SINGLE_ARCH_EPERM == {"modify_ldt"}
DEFAULT_ENOSYS == {"clone3", "open_tree", "move_mount", "fsopen", "fsconfig", "fsmount", "fspick"}
DEFAULT_ENOSYS_NUMBERED == [open_tree_attr |-> 467, listns |-> 470, fchroot |-> 472]
TIOCSTI == 21522       \* 0x5412
TIOCLINUX == 21532     \* 0x541C
DEFAULT_IOCTL_EPERM == {TIOCSTI, TIOCLINUX}

X86_64 == 62
I386 == 3
X32 == 63             \* the ABI of x32 calls, for the model alone
X32_BIT == 2 ^ 20      \* __X32_SYSCALL_BIT, above every number
EXTRA_ARCHES == {I386}

-----------------------------------------------------------------------------
(* The rule set of a profile.                                              *)

\* The order of a list matters only where one number is on two of them.
default_set ==
  [eperm |-> DEFAULT_EPERM \cup (IF EXTRA_ARCHES = {} THEN SINGLE_ARCH_EPERM ELSE {}),
   enosys |-> DEFAULT_ENOSYS,
   enosys_numbered |-> {[name |-> n, nr |-> DEFAULT_ENOSYS_NUMBERED[n], errno |-> "ENOSYS"] :
                          n \in DOMAIN DEFAULT_ENOSYS_NUMBERED},
   ioctl_eperm |-> DEFAULT_IOCTL_EPERM, personality |-> TRUE]
remove(set, name) ==
  [set EXCEPT !.eperm = @ \ {name}, !.enosys = @ \ {name},
              !.enosys_numbered = {e \in @ : e.name # name}]
allow(set, name) ==
  LET s == remove(set, name)
  IN [s EXCEPT !.ioctl_eperm = IF name = "ioctl" THEN {} ELSE @,
               !.personality = @ /\ name # "personality"]
deny(set, d) ==
  LET s == [remove(set, d.name) EXCEPT !.ioctl_eperm = IF d.name = "ioctl" THEN {} ELSE @]
  IN IF d.name \in DOMAIN DEFAULT_ENOSYS_NUMBERED
     THEN [s EXCEPT !.enosys_numbered =
             @ \cup {[name |-> d.name, nr |-> DEFAULT_ENOSYS_NUMBERED[d.name], errno |-> d.errno]}]
     ELSE IF d.errno = "EPERM" THEN [s EXCEPT !.eperm = @ \cup {d.name}]
     ELSE [s EXCEPT !.enosys = @ \cup {d.name}]
\* RuleSet::with(): <<>> for a profile that disabled the filter.
with(cfg) ==
  IF cfg.disable THEN <<>>
  ELSE <<FoldLeft(deny, FoldLeft(allow, default_set, cfg.allow), cfg.deny)>>

-----------------------------------------------------------------------------
(* The program.                                                            *)

action(log, errno) == IF log THEN "log" ELSE errno
NumbersOf(names) == {Number[n] : n \in names \cap DOMAIN Number}

Known == {Number[n] : n \in DOMAIN Number}
         \cup {DEFAULT_ENOSYS_NUMBERED[n] : n \in DOMAIN DEFAULT_ENOSYS_NUMBERED}

\* build(): what the filter answers a number with on an architecture, the
\* numbered rules added before the second architecture, each number once.
build(set, log) ==
  LET eperm == NumbersOf(set.eperm)
      enosys == NumbersOf(set.enosys) \ eperm
      numbered == {e.nr : e \in set.enosys_numbered}
      blanket == "ioctl" \in DOMAIN Number /\ Number["ioctl"] \in eperm \cup enosys
      requests == IF "ioctl" \in DOMAIN Number /\ ~blanket THEN set.ioctl_eperm ELSE {}
      Errno(nr, arch) ==
        IF nr \in numbered
        THEN IF arch = X86_64 THEN {e.errno : e \in {x \in set.enosys_numbered : x.nr = nr}} ELSE {}
        ELSE IF nr \in eperm THEN {"EPERM"} ELSE IF nr \in enosys THEN {"ENOSYS"} ELSE {}
  IN [rules |-> Cardinality(eperm \cup enosys \cup numbered) + Cardinality(requests),
      answer |-> [x \in Known \X ({X86_64} \cup EXTRA_ARCHES) |->
                    {action(log, e) : e \in Errno(x[1], x[2])}],
      requests |-> requests, denied |-> action(log, "EPERM")]

\* The prefix, one record per instruction: a jump from i lands at i + 1 + jt
\* or at i + 1 + jf.  LD loads a word of seccomp_data.
NR_PERSONALITY_X86_64 == 135
NR_PERSONALITY_I386 == 136
PERSONALITY_ALLOWED == <<0, 8, 131072, 131080, -1>>
LD(word) == [code |-> "ld", word |-> word, jt |-> 0, jf |-> 0, k |-> 0]
JEQ(jt, jf, k) == [code |-> "jeq", word |-> "", jt |-> jt, jf |-> jf, k |-> k]
JA(k) == [code |-> "ja", word |-> "", jt |-> k, jf |-> k, k |-> 0]
RET == [code |-> "ret", word |-> "", jt |-> 0, jf |-> 0, k |-> 0]
personality_prefix ==
  <<LD("arch"), JEQ(0, 2, X86_64), LD("nr"), JEQ(3, 9, NR_PERSONALITY_X86_64),
    JEQ(0, 8, I386), LD("nr"), JEQ(0, 6, NR_PERSONALITY_I386), LD("arg"),
    JEQ(4, 0, PERSONALITY_ALLOWED[1]), JEQ(3, 0, PERSONALITY_ALLOWED[2]),
    JEQ(2, 0, PERSONALITY_ALLOWED[3]), JEQ(1, 0, PERSONALITY_ALLOWED[4]),
    JEQ(0, 1, PERSONALITY_ALLOWED[5]), JA(1), RET>>

\* compile(): <<>> where no rule went in, with the prefix or without.
compile(set, log) ==
  LET built == build(set, log)
  IN IF built.rules = 0 THEN <<>>
     ELSE <<[prefix |-> IF set.personality THEN personality_prefix ELSE <<>>,
             main |-> built]>>

-----------------------------------------------------------------------------
(* The kernel runs it.                                                     *)

\* A call is [name, nr, arch, arg]: what it is called and what it is numbered
\* on its ABI, and the argument the filter looks at, for ioctl the low half of
\* its request.  A call of x32 has x86_64's AUDIT_ARCH.
RawNumber(name, abi) ==
  LET nr == IF name \in DOMAIN DEFAULT_ENOSYS_NUMBERED THEN DEFAULT_ENOSYS_NUMBERED[name]
            ELSE Number[name]
  IN IF name = "personality" /\ abi = I386 THEN NR_PERSONALITY_I386
     ELSE IF abi = X32 THEN nr + X32_BIT ELSE nr
\* The prefix ends in its own verdict or runs off its end.
PrefixDenies(prefix, call) ==
  LET at[i \in 1..(Len(prefix) + 1), w \in {"arch", "nr", "arg"}] ==
        IF i > Len(prefix) THEN FALSE
        ELSE LET ins == prefix[i]
             IN CASE ins.code = "ld" -> at[i + 1, ins.word]
                  [] ins.code = "jeq" -> at[i + 1 + (IF call[w] = ins.k THEN ins.jt ELSE ins.jf), w]
                  [] ins.code = "ja" -> at[i + 1 + ins.jt, w]
                  [] OTHER -> TRUE
  IN at[1, "arch"]
\* libseccomp matches a rule on the number of the call's own ABI, and kills
\* what comes from one it does not carry.
MainVerdict(main, call) ==
  LET native == RawNumber(call.name, X86_64)
      a == main.answer[<<native, call.arch>>]
  IN IF call.nr >= X32_BIT THEN "kill"
     ELSE IF a # {} THEN CHOOSE v \in a : TRUE
     ELSE IF call.name = "ioctl" /\ call.arg \in main.requests THEN main.denied ELSE "allow"
Verdict(program, call) ==
  IF program = <<>> THEN "allow"
  ELSE IF PrefixDenies(program[1].prefix, call) THEN program[1].main.denied
  ELSE MainVerdict(program[1].main, call)

-----------------------------------------------------------------------------
(* What the profile says of a call, read without the filter.               *)
Named(cfg, name) == name \in Range(cfg.allow) \cup {cfg.deny[i].name : i \in DOMAIN cfg.deny}
\* The last deny of a name, <<>> if there is none.
LastDeny(cfg, name) ==
  LET of == SelectSeq(cfg.deny, LAMBDA d : d.name = name)
  IN IF of = <<>> THEN <<>> ELSE <<Last(of).errno>>
Numbered(name) == name \in DOMAIN DEFAULT_ENOSYS_NUMBERED
ByDefault(name) ==
  IF name \in default_set.eperm THEN {"EPERM"}
  ELSE IF name \in default_set.enosys \/ Numbered(name) THEN {"ENOSYS"} ELSE {}
\* The answers the node leaves for a call by name; {} where the call goes through.
Refusals(cfg, name, arch, arg) ==
  (IF Numbered(name) /\ arch # X86_64 THEN {}
   ELSE IF LastDeny(cfg, name) # <<>> THEN Range(LastDeny(cfg, name))
   ELSE IF name \in Range(cfg.allow) THEN {} ELSE ByDefault(name))
  \cup (IF name = "personality" /\ "personality" \notin Range(cfg.allow)
           /\ arg \notin Range(PERSONALITY_ALLOWED) THEN {"EPERM"} ELSE {})
  \cup (IF name = "ioctl" /\ ~Named(cfg, "ioctl") /\ arg \in DEFAULT_IOCTL_EPERM THEN {"EPERM"} ELSE {})
\* A node that takes every rule back leaves no filter, nor the prefix.
Emptied(cfg) ==
  /\ \A name \in ((default_set.enosys \cup default_set.eperm \cup {"ioctl"}) \cap DOMAIN Number)
               \cup DOMAIN DEFAULT_ENOSYS_NUMBERED :
       name \in Range(cfg.allow) /\ LastDeny(cfg, name) = <<>>
  /\ \A i \in DOMAIN cfg.deny : cfg.deny[i].name \notin DOMAIN Number \cup DOMAIN DEFAULT_ENOSYS_NUMBERED

(* A sandboxed call is answered as the profile asked: the error of the     *)
(* last deny of its name whatever list the name was on before, through if  *)
(* it was allowed and not denied, the default otherwise, on both           *)
(* architectures unless it has no name to translate by; a persona outside  *)
(* the five and a terminal-injecting ioctl are refused unless named; and a *)
(* caller of an ABI the filter does not carry never gets through.          *)
SyscallsAsAsked(cfg, log, calls) ==
  LET set == with(cfg)
      program == IF set = <<>> THEN <<>> ELSE compile(set[1], log)
  IN \A c \in calls :
       LET arch == IF c.abi = X32 THEN X86_64 ELSE c.abi
           v == Verdict(program, [name |-> c.name, nr |-> RawNumber(c.name, c.abi), arch |-> arch,
                                  arg |-> c.arg])
           refused == Refusals(cfg, c.name, arch, c.arg)
       IN IF set = <<>> \/ Emptied(cfg) THEN v = "allow"
          ELSE IF c.abi = X32 THEN v = "kill"
          ELSE IF refused = {} THEN v = "allow"
          ELSE v \in {action(log, e) : e \in refused}
=============================================================================
