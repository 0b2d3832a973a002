--------------------------- MODULE MCUsageCapture ---------------------------
(* Small instances of UsageCapture for TLC: user and inbound counters of   *)
(* the core, and one forwarding counter per applied ruleset.               *)
EXTENDS UsageCapture
CONSTANTS u
MCForwarding == 1..MaxScopes
OneCounter == {u} \cup MCForwarding
UserThenInbound == <<{u}, {}>>
=============================================================================
