---------------------------- MODULE MCPacketPath ----------------------------
(***************************************************************************)
(* Instances of module PacketPath: the chain on one and on two lcores, the *)
(* capture, and rule files of up to four lines.                            *)
(***************************************************************************)
EXTENDS PacketPath, SequencesExt

Ip(f)  == [type |-> "ipv4", valid |-> TRUE, flow |-> f, stop |-> FALSE]
Ip6    == [type |-> "ipv6", valid |-> TRUE, flow |-> 1, stop |-> FALSE]
Bad    == [type |-> "ipv4", valid |-> FALSE, flow |-> 1, stop |-> FALSE]
Arp    == [type |-> "l2", valid |-> TRUE, flow |-> 2, stop |-> FALSE]
Stop   == [type |-> "ipv4", valid |-> TRUE, flow |-> 1, stop |-> TRUE]

R(ports, p) == [lead |-> "R", ok |-> TRUE, match |-> p, port |-> ports]
A(p)        == [lead |-> "@", ok |-> TRUE, match |-> p, port |-> 0]
Lines == {R(0, {1, 2}), R(1, {1}), R(3, {1}), A({1}), A({2, 3}), [A({1}) EXCEPT !.lead = "#"],
          [A({1}) EXCEPT !.ok = FALSE], [A({1}) EXCEPT !.lead = "x"]}
Route == <<R(0, {1})>>

Chain1  == [program |-> "nf-chain", lcores |-> 1, multicore |-> FALSE, columns |-> 4,
            packets |-> {Ip(1), Ip6, Bad, Arp, Stop}, files |-> {Route}]
Chain2  == [program |-> "nf-chain", lcores |-> 2, multicore |-> TRUE, columns |-> 2,
            packets |-> {Ip(1), Ip(2)}, files |-> {Route}]
Capture == [program |-> "locality", lcores |-> 1, multicore |-> FALSE, columns |-> 2,
            packets |-> {Ip(0), Ip(1), Ip(2), Arp}, files |-> {Route}]
Rules   == [program |-> "nf-chain", lcores |-> 1, multicore |-> FALSE, columns |-> 2,
            packets |-> {}, files |-> BoundedSeq(Lines, 4)]

MCBuilds == {Chain1, Chain2, Capture, Rules}

\* Rows that collide on different keys.
MCHash == <<[key \in Keys |-> key], [key \in Keys |-> key \div 2], [key \in Keys |-> 3]>>

=============================================================================
