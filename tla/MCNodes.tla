------------------------------- MODULE MCNodes -------------------------------
(* Instances of Nodes for TLC.                                             *)
EXTENDS Nodes

\* A plain node, one with a second inbound on the other engine, one under
\* maintenance in another group, one with an inbound nobody can render, and
\* one that the service refuses.
Requests == {
    [group |-> "g1", protocol |-> "vless", extra |-> {"omitted"}, engine |-> "", status |-> 0],
    [group |-> "g1", protocol |-> "vless", extra |-> {"trojan"}, engine |-> "sing-box", status |-> 1],
    [group |-> "g2", protocol |-> "trojan", extra |-> {}, engine |-> "xray", status |-> 2],
    [group |-> "g1", protocol |-> "trojan", extra |-> {"vmess"}, engine |-> "xray", status |-> 1],
    [group |-> "g1", protocol |-> "vmess", extra |-> {}, engine |-> "xray", status |-> 1] }

\* The node is created, then edits and faults share what is left.
ThreeBudgets == { [edits |-> 3, faults |-> 0], [edits |-> 2, faults |-> 1], [edits |-> 1, faults |-> 2] }
=============================================================================
