--------------------------- MODULE MCUsageDelivery ---------------------------
(* Small instances of UsageDelivery for TLC. *)
EXTENDS UsageDelivery
CONSTANTS u, f
MCCounters == {u, f}
MCForwarding == {f}
=============================================================================
