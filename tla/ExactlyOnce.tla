----------------------------- MODULE ExactlyOnce -----------------------------
(***************************************************************************)
(* What the delivery of usage snapshots promises: every activation opens a *)
(* log of its own, snapshots are added to its end and never change, and    *)
(* the panel books each log from its first snapshot on, one after the      *)
(* other, also after the agent has lost its volume.  The agent forgets     *)
(* snapshots only after they were booked.  There are no messages here:     *)
(* none can be lost, repeated or late.                                     *)
(***************************************************************************)
EXTENDS Naturals, Sequences

CONSTANTS Generations, Payload

VARIABLES
  live,       \* the agent has a log it adds to, the last one
  logs,       \* the logs so far, by generation
  ledger,     \* per generation, what the panel has booked
  forgotten   \* how many snapshots of the last log the agent no longer has

Init ==
  /\ live = FALSE /\ logs = <<>> /\ forgotten = 0
  /\ ledger = [g \in Generations |-> <<>>]

Open ==
  /\ ~live /\ live' = TRUE
  /\ Len(logs) + 1 \in Generations
  /\ logs' = Append(logs, <<>>)
  /\ forgotten' = 0
  /\ UNCHANGED ledger

\* A snapshot, whatever it holds, is added to the last log.
Record ==
  LET g == Len(logs) IN
  /\ live
  /\ g \in DOMAIN logs' /\ logs'[g] # <<>>
  /\ LET snapshot == logs'[g][Len(logs'[g])] IN
       /\ snapshot \in Payload
       /\ logs' = [logs EXCEPT ![g] = Append(@, snapshot)]
  /\ UNCHANGED <<live, ledger, forgotten>>

Book(g) ==
  /\ g \in DOMAIN logs /\ Len(ledger[g]) < Len(logs[g])
  /\ ledger' = [ledger EXCEPT ![g] = Append(@, logs[g][Len(@) + 1])]
  /\ UNCHANGED <<live, logs, forgotten>>

Forget ==
  /\ live
  /\ forgotten' \in (forgotten + 1)..Len(ledger[Len(logs)])
  /\ UNCHANGED <<live, logs, ledger>>

\* The log ends with the volume; what was pulled before may still be booked.
LoseVolume ==
  /\ live /\ live' = FALSE
  /\ forgotten' = 0
  /\ UNCHANGED <<logs, ledger>>

Next ==
  \/ Open
  \/ Record
  \/ \E g \in Generations : Book(g)
  \/ Forget
  \/ LoseVolume

Spec == Init /\ [][Next]_<<live, logs, ledger, forgotten>>
=============================================================================
