---------------------------- MODULE MCForwarding ----------------------------
(* Model-checking instances of Forwarding; the bounds are in the .cfg files. *)
(* Two rules that exclude each other; a core that excludes both, and one     *)
(* that excludes the second: its other inbound excludes none.                *)
EXTENDS Forwarding

Rule(id, protocol) == [id |-> id, port |-> 1, protocol |-> protocol]
Inbound(type, network, listen) == [type |-> type, network |-> network, listen |-> listen, port |-> 1]

OneRule == {Rule("r1", "UDP")}
TwoRules == {Rule("r1", "UDP"), Rule("r2", "TCP_UDP")}
MCCores == {{Inbound("shadowsocks", {}, "any")},
            {Inbound("shadowsocks", {"TCP"}, "any"), Inbound("tuic", {}, "loopback")}}
MCServices == {[port |-> 1, protocol |-> "UDP"]}
=============================================================================
