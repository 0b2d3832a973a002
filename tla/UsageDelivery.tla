---------------------------- MODULE UsageDelivery ----------------------------
(***************************************************************************)
(* Delivery of usage snapshots: the store's queue, the panel that pulls    *)
(* and acknowledges it, and the HTTP exchange between them.  The panel     *)
(* waits for one pull response at a time, which may be late, handled twice *)
(* or lost; acknowledgements, which it retries, may also overtake each     *)
(* other.  The agent keeps no delivery state in memory, so a crash of the  *)
(* agent is a lost exchange; a lost volume is Reinstall.                   *)
(*                                                                         *)
(* The panel is not part of this repository.  It is modelled from what     *)
(* PullRequest, PullResponse and AckRequest let it do: it books a snapshot *)
(* once, in sequence order within a generation, and acknowledges what it   *)
(* has booked.                                                             *)
(***************************************************************************)
EXTENDS UsageStore, Sequences, SequencesExt

CONSTANTS
  MaxCaptures,     \* bound: snapshots of one generation
  MaxGenerations,  \* bound: activations, one per installed volume
  MaxInFlight,     \* bound: acknowledgements under way
  MaxValue,        \* bound: the largest sampled counter value
  PullLimit,       \* the limit the panel asks for (0 = the server's cap)
  PullLimitCap,    \* 500 in the code
  PullBytesCap     \* 4 MiB in the code

ASSUME DeliveryAssumption ==
  /\ MaxCaptures \in Nat /\ MaxGenerations \in Nat \ {0}
  /\ MaxInFlight \in Nat \ {0} /\ MaxValue \in Nat
  /\ PullLimit \in Int
  /\ PullLimitCap \in Nat \ {0} /\ PullBytesCap \in Nat

VARIABLES
  responses,   \* the pull response on its way to the panel, {} or one
  acks,        \* acknowledgements on their way to the agent
  panelGen,    \* the generation the panel works on
  ledger,      \* per generation, what the panel has booked, in order
  captured     \* history: per generation so far, what the store has enqueued, in order

deliveryVars == <<responses, acks, panelGen, ledger, captured>>
vars == <<storeVars, deliveryVars>>

Generations == 1..MaxGenerations
Samples == [Counters -> 0..MaxValue]
Booked(g) == Len(ledger[g])

\* Every variable of the store, the exchange and the panel has its type; the
\* deltas Capture computes are never negative.
TypeOK ==
  /\ StoreTypeOK
  /\ generation \in 0..MaxGenerations
  /\ panelGen \in 0..MaxGenerations
  /\ ledger \in [Generations -> Seq(Payload)]
  /\ captured \in Seq(Seq(Payload))
  /\ \A r \in responses : r.generation \in Generations
  /\ \A a \in acks : a.generation \in Generations /\ a.through \in Nat

Init ==
  /\ StoreInit
  /\ responses = {}
  /\ acks = {}
  /\ panelGen = NoGeneration
  /\ ledger = [g \in Generations |-> <<>>]
  /\ captured = <<>>

-----------------------------------------------------------------------------
\* The agent.

\* randomID gives every activation a generation that was never used before.
DoActivate(sample) ==
  /\ Len(captured) < MaxGenerations
  /\ Activate(Len(captured) + 1, sample)
  /\ captured' = Append(captured, <<>>)
  /\ UNCHANGED <<responses, acks, panelGen, ledger>>

\* A second activation request, an answer the panel retried for.
DoActivateAgain == AlreadyActive /\ UNCHANGED deliveryVars

DoCapture(sample, reset) ==
  /\ nextSequence <= MaxCaptures
  /\ Capture(sample, reset)
  /\ captured' = [captured EXCEPT ![generation] =
                    IF nextSequence' = nextSequence THEN @ ELSE Append(@, snapshots'[nextSequence])]
  /\ UNCHANGED <<responses, acks, panelGen, ledger>>

\* The volume is lost: the next start of the agent opens an empty database.
Reinstall ==
  /\ active
  /\ Len(captured) < MaxGenerations
  /\ OpenFresh
  /\ UNCHANGED deliveryVars

HandleAck(a) ==
  /\ Ack(a.generation, a.through) \/ AckIgnored(a.generation, a.through)
  /\ UNCHANGED deliveryVars

-----------------------------------------------------------------------------
\* The panel and the network.

\* An acknowledgement joins those under way; any of the others may be lost for it.
Sent(message, underWay) ==
  {kept \cup {message} : kept \in {k \in SUBSET underWay : Cardinality(k) < MaxInFlight}}

PanelPull(after) ==
  /\ active   \* ErrNotActive otherwise
  /\ responses' = {Pull(after, Clamp(PullLimit, PullLimitCap), PullBytesCap)}
  /\ UNCHANGED <<storeVars, acks, panelGen, ledger, captured>>

\* The panel asks for what follows its own ledger; an old request that arrives
\* late asks for something earlier.
PullNext == PanelPull(IF panelGen = NoGeneration THEN 0 ELSE Booked(panelGen))

PullLate == \E after \in 0..MaxCaptures :
              /\ panelGen # NoGeneration => after < Booked(panelGen)
              /\ PanelPull(after)

\* An unknown generation is adopted; a response that continues the ledger is
\* booked; anything else is discarded.
PanelReceive(r) ==
  \/ /\ r.generation # panelGen
     /\ panelGen' = r.generation
     /\ UNCHANGED <<storeVars, responses, acks, ledger, captured>>
  \/ /\ r.generation = panelGen
     /\ Booked(panelGen) + 1 \in DOMAIN r.snapshots
     /\ ledger' = [ledger EXCEPT ![panelGen] = Append(@, r.snapshots[Booked(panelGen) + 1])]
     /\ UNCHANGED <<storeVars, responses, acks, panelGen, captured>>

PanelAck ==
  /\ panelGen # NoGeneration
  /\ Booked(panelGen) > 0
  /\ acks' \in Sent([generation |-> panelGen, through |-> Booked(panelGen)], acks)
  /\ UNCHANGED <<storeVars, responses, panelGen, ledger, captured>>

Lose ==
  \/ \E r \in responses : responses' = responses \ {r} /\ UNCHANGED <<storeVars, acks, panelGen, ledger, captured>>
  \/ \E a \in acks : acks' = acks \ {a} /\ UNCHANGED <<storeVars, responses, panelGen, ledger, captured>>

Next ==
  \/ \E sample \in Samples : DoActivate(sample)
  \/ DoActivateAgain
  \/ \E sample \in Samples, reset \in BOOLEAN : DoCapture(sample, reset)
  \/ Reinstall
  \/ \E a \in acks : HandleAck(a)
  \/ PullNext
  \/ PullLate
  \/ \E r \in responses : PanelReceive(r)
  \/ PanelAck
  \/ Lose

Spec == Init /\ [][Next]_vars

(***************************************************************************)
(* The panel polls and acknowledges periodically, and an exchange that is  *)
(* tried over and over succeeds sometimes.                                 *)
(***************************************************************************)
Fairness ==
  /\ WF_vars(PullNext)
  /\ SF_vars(\E r \in responses : PanelReceive(r) /\ r.generation = generation)
  /\ WF_vars(PanelAck)
  /\ SF_vars(\E a \in acks : Ack(a.generation, a.through) /\ UNCHANGED deliveryVars)

FairSpec == Spec /\ Fairness

-----------------------------------------------------------------------------
(***************************************************************************)
(* The queue is exactly the interval between the acknowledged and the next *)
(* sequence: Capture and Ack, in any order with stale or repeated          *)
(* acknowledgements, leave no gap and bring nothing back.  Every variable  *)
(* of the store and the exchange has its type.                             *)
(***************************************************************************)
QueueIsInterval ==
  /\ TypeOK
  /\ active => DOMAIN snapshots = (ackedThrough + 1)..(nextSequence - 1)

(***************************************************************************)
(* Ack deletes nothing the panel has not booked: whatever was captured in  *)
(* the current generation is still queued, unchanged, or in the ledger.    *)
(***************************************************************************)
NothingLost ==
  active => \A s \in 1..(nextSequence - 1) :
              \/ s <= Booked(generation)
              \/ s \in DOMAIN snapshots /\ snapshots[s] = captured[generation][s]

(***************************************************************************)
(* What the panel has booked is a prefix of what the store captured, for   *)
(* every generation: no snapshot twice, none skipped, none altered.        *)
(***************************************************************************)
LedgerIsPrefix ==
  \A g \in Generations :
    IsPrefix(ledger[g], IF g <= Len(captured) THEN captured[g] ELSE <<>>)

(***************************************************************************)
(* Within a generation the acknowledged and the next sequence only grow,   *)
(* and a sequence number is never given to another payload.                *)
(***************************************************************************)
SequencesOnlyGrow ==
  [][generation' = generation =>
       /\ ackedThrough' >= ackedThrough
       /\ nextSequence' >= nextSequence
       /\ \A s \in DOMAIN snapshots \cap DOMAIN snapshots' : snapshots'[s] = snapshots[s]]_vars

\* Pull never sends a snapshot larger than its byte budget, nor what is behind it.
Sendable(g, s) ==
  \A x \in 1..s : x \in DOMAIN captured[g] => PayloadSize(captured[g][x]) <= PullBytesCap

(***************************************************************************)
(* Every captured snapshot is pulled, booked, acknowledged and deleted in  *)
(* the end (or its volume is lost), unless it or one in front of it is     *)
(* larger than the byte budget of a pull: Pull makes progress, so that a   *)
(* queue at its limit drains and Capture can go on.                        *)
(***************************************************************************)
EventuallyDelivered ==
  \A g \in Generations, s \in 1..MaxCaptures :
    (active /\ generation = g /\ nextSequence > s /\ Sendable(g, s))
      ~> (generation # g \/ ackedThrough >= s)

-----------------------------------------------------------------------------
\* What the panel relies on: the log of a generation, which for the current
\* one is what the store's queue holds behind what was acknowledged.

Log(g) ==
  IF active /\ g = generation
  THEN [s \in 1..Latest |-> IF s \in DOMAIN snapshots THEN snapshots[s] ELSE captured[g][s]]
  ELSE captured[g]

Logs == [g \in DOMAIN captured |-> Log(g)]

Promise ==
  INSTANCE ExactlyOnce WITH live <- active, logs <- Logs, forgotten <- ackedThrough

(***************************************************************************)
(* Capture, Pull and Ack, over an exchange that loses, delays and repeats  *)
(* messages, implement exactly-once delivery: one log per activation, that *)
(* the panel books in order and the agent forgets behind it.               *)
(***************************************************************************)
ImplementsExactlyOnce == Promise!Spec
=============================================================================
