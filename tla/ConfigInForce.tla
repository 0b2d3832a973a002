---------------------------- MODULE ConfigInForce ----------------------------
(***************************************************************************)
(* What the lifecycle of the core promises the panel: one configuration is *)
(* in force, or none.  A request replaces it as a whole (APPLIED), leaves  *)
(* it alone, or loses it and says FAILED; UNCHANGED is only said of the    *)
(* configuration that is in force already.  Only when storage fails twice  *)
(* is it unknown which configuration a later rollback will bring back.     *)
(***************************************************************************)
CONSTANTS Configs, NoConfig, Unknown

VARIABLES
  inForce,    \* the configuration in force, NoConfig, or Unknown
  requested,  \* the configuration of the request under way, or NoConfig
  status      \* the status of the last apply result

Init == inForce = NoConfig /\ requested = NoConfig /\ status = "NONE"

Begin(c) ==
  /\ requested = NoConfig
  /\ requested' = c
  /\ UNCHANGED <<inForce, status>>

Attempt ==
  /\ requested # NoConfig
  /\ status' = "PENDING"
  /\ UNCHANGED <<inForce, requested>>

Apply ==
  /\ requested # NoConfig /\ status = "PENDING"
  /\ inForce' = requested
  /\ requested' = NoConfig
  /\ status' = "APPLIED"

\* The request could not be tried at all (a conflict, no directory): the
\* last result stands.
Refuse ==
  /\ requested # NoConfig
  /\ requested' = NoConfig
  /\ UNCHANGED <<inForce, status>>

Unchanged ==
  /\ requested # NoConfig /\ inForce \in {requested, Unknown}
  /\ requested' = NoConfig
  /\ status' = "UNCHANGED"
  /\ UNCHANGED inForce

Keep ==
  /\ requested # NoConfig
  /\ requested' = NoConfig
  /\ status' \in {"REJECTED", "ROLLED_BACK", "FAILED"}
  /\ UNCHANGED inForce

Lose ==
  /\ requested # NoConfig /\ status = "PENDING"
  /\ requested' = NoConfig
  /\ status' = "FAILED"
  /\ inForce' = NoConfig

\* Storage fails again while a failure is cleaned up: until the next request
\* that is applied, nothing is known of the configuration in force.
Misplace ==
  /\ requested # NoConfig /\ status = "PENDING" /\ inForce # NoConfig
  /\ inForce' = Unknown
  /\ \/ UNCHANGED <<requested, status>>
     \/ requested' = NoConfig /\ status' = "FAILED"

Stop ==
  /\ requested = NoConfig
  /\ inForce' = NoConfig
  /\ UNCHANGED <<requested, status>>

Restart ==
  /\ inForce' = NoConfig /\ requested' = NoConfig /\ status' = "NONE"

Next ==
  \/ \E c \in Configs : Begin(c)
  \/ Attempt \/ Apply \/ Refuse \/ Unchanged \/ Keep \/ Lose \/ Misplace
  \/ Stop \/ Restart

Spec == Init /\ [][Next]_<<inForce, requested, status>>
=============================================================================
