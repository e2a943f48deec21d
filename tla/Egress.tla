------------------------------- MODULE Egress -------------------------------
(***************************************************************************)
(* What a `network` grant becomes (network.rs): the resolvers a sandbox    *)
(* asks, the nftables ruleset an `outbound "deny"` is, the arguments of    *)
(* pasta and of the egress proxy, and the variables that point the         *)
(* application at the proxy.                                               *)
(*                                                                         *)
(* An address is a family and a number of Bits[family] bits.  A rule is    *)
(* the record of what it matches, FALSE or <<>> where it does not look;    *)
(* the chain is judged by the first rule that matches (netfilter, which is *)
(* not bubbler's).  A cgroup path is the sequence of its components.       *)
(***************************************************************************)
EXTENDS Naturals, Sequences, SequencesExt, FiniteSets

CONSTANTS Bits,        \* family -> the width of its addresses
          MappedHi,    \* the high bits of an IPv4-mapped IPv6 address
          Names        \* components that are ordinary directory names

Addr(fam, n) == [fam |-> fam, n |-> n]
AllAddr == UNION {[fam : {f}, n : 0..(2 ^ Bits[f] - 1)] : f \in DOMAIN Bits}
LoopbackOf == [f \in DOMAIN Bits |-> Addr(f, 2 ^ Bits[f] - 1)]   \* 127.0.0.1 and ::1 stand last
DNS_PORT == 53
PROXY_PORT == 3128
DNS_FORWARD == Addr(4, 1)

(* ------------------------------ destinations --------------------------- *)

to_ipv4_mapped(a) == a.fam = 6 /\ a.n \div 2 ^ Bits[4] = MappedHi
is_network_address(a, prefix) == a.n % 2 ^ (Bits[a.fam] - prefix) = 0
\* A destination as it is spelled: an address and no prefix length, or one.
Cidr(spelled) ==
  LET a == spelled.addr
      prefix == IF spelled.len = <<>> THEN Bits[a.fam] ELSE spelled.len[1]
  IN IF ~to_ipv4_mapped(a) /\ prefix <= Bits[a.fam] /\ is_network_address(a, prefix)
     THEN <<[addr |-> a, prefix |-> prefix]>> ELSE <<>>
Single(a) == [addr |-> a, prefix |-> Bits[a.fam]]

(* What the grammar asks of the children together.                         *)
G == INSTANCE Grammar WITH
       V6 <- {a \in AllAddr : a.fam = 6}
             \cup {[addr |-> a, prefix |-> p] : a \in {b \in AllAddr : b.fam = 6}, p \in 0..Bits[6]},
       Loopback <- {LoopbackOf[f] : f \in DOMAIN Bits},
       Valid <- <<>>, Rel <- <<>>, Abs <- <<>>, KiB <- <<>>

(* ------------------------------- resolvers ----------------------------- *)

is_isolated(cfg) == cfg.mode = "isolated"
\* <<>> where the host's own file is bound.
resolvers(cfg) ==
  CASE cfg.mode = "none" -> <<>>
    [] cfg.mode # "none" /\ cfg.dns # <<>> -> <<cfg.dns>>
    [] cfg.mode = "isolated" /\ cfg.dns = <<>> -> <<<<DNS_FORWARD>>>>
    [] OTHER -> <<>>
resolv_conf(cfg) == resolvers(cfg)
Resolvers(cfg) == FlattenSeq(resolvers(cfg))

(* -------------------------------- cgroups ------------------------------ *)

\* Cgroup::new(): the path a rule names, and how deep it lies.
Cgroup(path) ==
  IF path # <<>> /\ \A i \in DOMAIN path : path[i] \in Names
  THEN <<[path |-> path, level |-> Len(path)]>> ELSE <<>>
\* create_under(): the directories of a run below bubbler's own cgroup.
base(own, run) == own \o <<run>>
SANDBOX_LEAF(own, run) == Append(base(own, run), "sandbox")
PROXY_LEAF(own, run) == Append(base(own, run), "proxy")

(* -------------------------------- ruleset ------------------------------ *)

Plain == [cgroup |-> <<>>, lo |-> FALSE, ct |-> FALSE, dest |-> <<>>, l4 |-> <<>>, port |-> <<>>,
        verdict |-> "accept"]
allow_out_rules(a) ==
  LET protos == IF a.proto = <<>> THEN <<"tcp", "udp">> ELSE <<a.proto[1].v>>
  IN [i \in DOMAIN protos |-> [Plain EXCEPT !.dest = <<a.dest>>, !.l4 = <<protos[i]>>,
                                          !.port = [j \in DOMAIN a.port |-> a.port[j].v]]]
\* Every rule the proxy has to pass carries the match.
gated(gate, rules) == [i \in DOMAIN rules |-> [rules[i] EXCEPT !.cgroup = gate]]
\* Mutant: a resolver an allow-out names is the application's.
OutRulesOpen(gate, a) == allow_out_rules(a)
\* A resolver named by address is still a resolver.
OutRules(gate, a) ==
  IF [t |-> "int", v |-> DNS_PORT] \in Range(a.port) THEN gated(gate, allow_out_rules(a))
  ELSE allow_out_rules(a)
nd_rule(cfg) == IF cfg.no_ipv6 THEN <<>> ELSE <<[Plain EXCEPT !.l4 = <<"nd">>]>>
ResolverRules(gate, servers) ==
  FlattenSeq([i \in DOMAIN servers |->
    gated(gate, [j \in 1..2 |-> [Plain EXCEPT !.dest = <<Single(servers[i])>>,
                                            !.l4 = <<<<"udp", "tcp">>[j]>>, !.port = <<DNS_PORT>>]])])
\* <<>> where nothing is filtered.
ruleset(cfg, cgroup) ==
  LET gate == IF cfg.allow_hosts = <<>> THEN <<>> ELSE cgroup
  IN IF cfg.outbound # "deny" \/ ~is_isolated(cfg) \/ (cfg.allow_hosts # <<>> /\ cgroup = <<>>)
     THEN <<>>
     ELSE <<<<[Plain EXCEPT !.lo = TRUE], [Plain EXCEPT !.ct = TRUE]>>
            \o nd_rule(cfg)
            \o ResolverRules(gate, Resolvers(cfg))
            \o FlattenSeq([i \in DOMAIN cfg.allow_out |-> OutRules(gate, cfg.allow_out[i])])
            \o (IF gate = <<>> THEN <<>> ELSE gated(gate, <<Plain>>))
            \o <<[Plain EXCEPT !.verdict = "reject"]>>>>

(* ------------------------------- netfilter ----------------------------- *)

\* A packet is [cgroup, lo, ct, addr, l4, port]: the cgroup of the socket it
\* leaves, whether it goes to the loopback, whether it belongs to a connection
\* there is, its destination, transport and port.
Within(a, d) == a.fam = d.addr.fam
                /\ a.n \div 2 ^ (Bits[a.fam] - d.prefix) = d.addr.n \div 2 ^ (Bits[a.fam] - d.prefix)
InCgroup(p, cg) == Len(p.cgroup) >= cg.level /\ SubSeq(p.cgroup, 1, cg.level) = cg.path
Matches(r, p) ==
  /\ \A i \in DOMAIN r.cgroup : InCgroup(p, r.cgroup[i])
  /\ r.lo => p.lo
  /\ r.ct => p.ct
  /\ \A i \in DOMAIN r.dest : Within(p.addr, r.dest[i])
  /\ r.l4 # <<>> => p.l4 = r.l4[1]
  /\ r.port # <<>> => p.port = r.port[1]
Judge(rules, p) ==
  LET hit == {i \in DOMAIN rules : Matches(rules[i], p)}
  IN IF hit = {} THEN "drop" ELSE rules[CHOOSE i \in hit : \A j \in hit : i <= j].verdict

(* -------------------------------- sidecars ----------------------------- *)

\* The ports of one protocol, or <<>> for `none`; the list of each protocol
\* is always given.
forwards(cfg, udp) ==
  LET of == SelectSeq(cfg.forwards, LAMBDA f : f.udp = udp) IN [i \in DOMAIN of |-> of[i].port]
pasta_argv(cfg) ==
  [t |-> forwards(cfg, FALSE), u |-> forwards(cfg, TRUE), T |-> <<>>, U |-> <<>>,
   map_host_loopback |-> <<>>, map_guest_addr |-> <<>>, foreground |-> TRUE,
   dns_forward |-> IF cfg.dns = <<>> THEN <<DNS_FORWARD>> ELSE <<>>, v4_only |-> cfg.no_ipv6]
net_proxy_argv(cfg, log_tunnels) ==
  [allow |-> cfg.allow_hosts, dns |-> Resolvers(cfg), port |-> PROXY_PORT, log_tunnels |-> log_tunnels]
PROXY_BYPASS == {LoopbackOf[f] : f \in DOMAIN Bits}
\* A client that reads its environment connects to <<address, port>> of the
\* proxy, or straight to what the bypass names.
proxy_env(port) == [url |-> <<LoopbackOf[4], port>>, bypass |-> PROXY_BYPASS]

-----------------------------------------------------------------------------
(* What the node's author wrote, read without the rules.                   *)
\* The destinations an allow-out covers: those whose leading bits are its own.
Covered(a, p) ==
  /\ Within(p.addr, a.dest)
  /\ p.l4 \in {"tcp", "udp"} /\ (a.proto # <<>> => p.l4 = a.proto[1].v)
  /\ a.port # <<>> => p.port = a.port[1].v
Resolver(cfg, p) == p.l4 \in {"tcp", "udp"} /\ p.port = DNS_PORT
                    /\ \E i \in DOMAIN resolv_conf(cfg) : p.addr \in Range(resolv_conf(cfg)[i])
Intended(cfg, p, proxied) ==
  \/ p.lo \/ p.ct
  \/ p.l4 = "nd" /\ ~cfg.no_ipv6
  \/ proxied
  \/ cfg.allow_hosts = <<>> /\ Resolver(cfg, p)
  \/ \E i \in DOMAIN cfg.allow_out :
       /\ Covered(cfg.allow_out[i], p)
       /\ cfg.allow_hosts # <<>> =>
            \A j \in DOMAIN cfg.allow_out[i].port : cfg.allow_out[i].port[j].v # DNS_PORT

(* Under `outbound "deny"` a packet of the application leaves exactly when *)
(* the node's author wrote that it may: its own loopback, a connection     *)
(* there is, neighbour discovery where there is IPv6, a destination some   *)
(* allow-out covers as spelled, and the resolvers of its own resolv.conf,  *)
(* which with an allow-host are the proxy's alone, however they are named. *)
(* The proxy reaches everything, and no cgroup but its leaf is the proxy.  *)
EgressHeld(cfg, own, run, packets) ==
  LET cg == Cgroup(PROXY_LEAF(own, run))
      rules == ruleset(cfg, cg)
  IN cg # <<>> /\ cfg.outbound = "deny" =>
       /\ rules # <<>>
       /\ \A p \in packets :
            LET proxied == cfg.allow_hosts # <<>> /\ p.cgroup = PROXY_LEAF(own, run)
            IN Judge(rules[1], p) = IF Intended(cfg, p, proxied) THEN "accept" ELSE "reject"

(* The application finds its one opening, and the host does not: the       *)
(* variables lead to the port the proxy listens on, over the loopback the  *)
(* ruleset opens, pasta carries that port neither way, and every resolver  *)
(* the proxy is given is one pasta answers for or a routed address.        *)
OpeningHeld(cfg, own, run) ==
  cfg.allow_hosts # <<>> =>
    LET url == proxy_env(PROXY_PORT).url
        argv == net_proxy_argv(cfg, FALSE)
        p == [cgroup |-> SANDBOX_LEAF(own, run), lo |-> TRUE, ct |-> FALSE, addr |-> url[1],
              l4 |-> "tcp", port |-> url[2]]
    IN /\ \A r \in Range(ruleset(cfg, Cgroup(PROXY_LEAF(own, run)))) : Judge(r, p) = "accept"
       /\ url[2] = argv.port
       /\ argv.port \notin Range(pasta_argv(cfg).t) \cup Range(pasta_argv(cfg).u)
       /\ DNS_FORWARD \in Range(argv.dns) => cfg.dns # <<>> \/ pasta_argv(cfg).dns_forward # <<>>
       /\ argv.dns # <<>> /\ Range(argv.dns) \cap {LoopbackOf[f] : f \in DOMAIN Bits} = {}
=============================================================================
