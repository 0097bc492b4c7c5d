------------------------------ MODULE AclRules ------------------------------
(***************************************************************************)
(* The rule files of nf-chain: add_rules() reads a file twice, to count    *)
(* the route and ACL entries and to parse them into one array each;        *)
(* setup_acl() adds both arrays to one context; rte_acl_classify finds the *)
(* entry of highest priority; send_one_packet() reads the verdict from its *)
(* userdata.                                                               *)
(*                                                                         *)
(* A line is [lead, ok, match, port]: what it starts with, whether the     *)
(* parser accepts the rest, the packets its fields match, and the          *)
(* forwarding port of a route.                                             *)
(***************************************************************************)
EXTENDS Integers, Sequences, FiniteSets

CONSTANTS
  MAX_ACL_RULE_NUM,
  RTE_ACL_MAX_PRIORITY,
  ACL_DENY_SIGNATURE,  \* a bit that no userdata of a route has
  FWD_PORT_SHIFT

\* Comments and empty lines.
is_bypass_line(line) == line.lead \in {"#", " "}

Parsed(file) == {k \in DOMAIN file : ~ is_bypass_line(file[k])}

\* parse_cb_ipv4vlan_rule, parse_cb_ipv6_rule: every field is there and in its
\* range, and no port range is empty.
parser(line) == line.ok

enabled(ports, line) == line.port \in ports

\* Entries with this lead before line k.
Before(file, k, lead) == Cardinality({j \in Parsed(file) : j < k /\ file[j].lead = lead})

total_num(file, k) == Cardinality({j \in Parsed(file) : j < k})

\* add_rules() exits.
RulesRejected(file, ports) ==
  \/ \A k \in DOMAIN file : file[k].lead # "R"
  \/ \E k \in Parsed(file) :
       \/ file[k].lead \notin {"R", "@"}
       \/ ~ parser(file[k])
       \/ file[k].lead = "R" /\ ~ enabled(ports, file[k])

userdata(file, k) ==
  IF file[k].lead = "R" THEN file[k].port + FWD_PORT_SHIFT
                        ELSE ACL_DENY_SIGNATURE + Before(file, k, "@")

priorityBug(file, k) == RTE_ACL_MAX_PRIORITY - Before(file, k, file[k].lead)

priority(file, k) == RTE_ACL_MAX_PRIORITY - total_num(file, k)

Entry(file, k) == [match |-> file[k].match, userdata |-> userdata(file, k), priority |-> priority(file, k)]

\* The arrays of a file that is accepted, by the lead of their lines.
add_rules(file, lead) == {Entry(file, k) : k \in {j \in Parsed(file) : file[j].lead = lead}}

ContextRefused(file) == Cardinality(Parsed(file)) > MAX_ACL_RULE_NUM

setup_acl(file) == add_rules(file, "R") \union add_rules(file, "@")

\* 0 if nothing matches.
rte_acl_classify(context, p) ==
  LET hits == {e \in context : p \in e.match}
  IN  IF hits = {} THEN 0 ELSE (CHOOSE e \in hits : \A f \in hits : e.priority >= f.priority).userdata

\* The port the packet is sent to, or -1 if it is dropped.
send_one_packet(res) ==
  IF res # 0 /\ res < ACL_DENY_SIGNATURE THEN res - FWD_PORT_SHIFT ELSE -1

=============================================================================
