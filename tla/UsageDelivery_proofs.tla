------------------------ MODULE UsageDelivery_proofs ------------------------
(***************************************************************************)
(* Proofs about UsageDelivery: for every set of counters, every size of    *)
(* the queue and of a pull, every number of generations, snapshots and     *)
(* acknowledgements under way, the queue is an interval, nothing is lost,  *)
(* the panel's ledger is a prefix of what was captured, and the protocol   *)
(* implements ExactlyOnce.                                                 *)
(***************************************************************************)
EXTENDS UsageDelivery, SequenceTheorems, TLAPS

\* The store works on the last generation, and its queue holds what was
\* captured in it, sequence by sequence.
QueueFollowsHistory ==
  IF active
  THEN /\ generation = Len(captured)
       /\ generation \in Generations
       /\ nextSequence = Len(captured[generation]) + 1
       /\ ackedThrough < nextSequence
       /\ \A s \in DOMAIN snapshots : snapshots[s] = captured[generation][s]
  ELSE generation = NoGeneration

\* The store, and every acknowledgement under way however old, claims no more
\* than the ledger of its generation holds.
AcksAreBooked ==
  /\ active => ackedThrough <= Booked(generation)
  /\ \A a \in acks : a.through <= Booked(a.generation)

\* A response under way, however old, is a part of what its generation captured.
ResponsesAreCaptured ==
  \A r \in responses :
    /\ r.generation \in 1..Len(captured)
    /\ \A s \in DOMAIN r.snapshots :
         /\ s \in 1..Len(captured[r.generation])
         /\ r.snapshots[s] = captured[r.generation][s]

\* LedgerIsPrefix, element by element.
LedgerIsCaptured ==
  \A g \in Generations :
    IF g <= Len(captured)
    THEN /\ Booked(g) <= Len(captured[g])
         /\ \A s \in 1..Booked(g) : ledger[g][s] = captured[g][s]
    ELSE ledger[g] = <<>>

IInv ==
  /\ QueueIsInterval
  /\ QueueFollowsHistory
  /\ AcksAreBooked
  /\ ResponsesAreCaptured
  /\ LedgerIsCaptured

-----------------------------------------------------------------------------
\* The history.

\* A step of the history: generations are added, and snapshots to a
\* generation, but nothing that was captured changes.
Grows ==
  /\ captured' \in Seq(Seq(Payload))
  /\ Len(captured) <= Len(captured')
  /\ \A g \in 1..Len(captured) :
       /\ Len(captured[g]) <= Len(captured'[g])
       /\ \A s \in 1..Len(captured[g]) : captured'[g][s] = captured[g][s]

LEMMA SameHistoryGrows ==
  ASSUME IInv, UNCHANGED captured
  PROVE  Grows
<1>1. captured \in Seq(Seq(Payload))
  BY DEF IInv, QueueIsInterval, TypeOK
<1>2. \A g \in 1..Len(captured) : captured[g] \in Seq(Payload)
  BY <1>1
<1> QED BY <1>1, <1>2 DEF Grows

\* What the messages under way and the ledger say of the history stays true
\* when the history grows.
LEMMA GrowthKeepsMessages ==
  ASSUME IInv, Grows, UNCHANGED <<responses, acks, panelGen, ledger>>
  PROVE  /\ ResponsesAreCaptured'
         /\ LedgerIsCaptured'
         /\ \A a \in acks' : a.through <= Booked(a.generation)'
<1>1. /\ captured \in Seq(Seq(Payload)) /\ captured' \in Seq(Seq(Payload))
      /\ ledger \in [Generations -> Seq(Payload)]
  BY DEF IInv, QueueIsInterval, TypeOK, Grows
<1>2. /\ \A g \in 1..Len(captured) : Len(captured[g]) \in Nat
      /\ \A g \in 1..Len(captured') : Len(captured'[g]) \in Nat
      /\ Len(captured) \in Nat /\ Len(captured') \in Nat
      /\ \A g \in Generations : g \in Nat \ {0} /\ Len(ledger[g]) \in Nat
  BY <1>1, DeliveryAssumption DEF Generations
<1>3. ResponsesAreCaptured'
  <2> SUFFICES ASSUME NEW r \in responses
               PROVE  /\ r.generation \in 1..Len(captured')
                      /\ \A s \in DOMAIN r.snapshots :
                           /\ s \in 1..Len(captured'[r.generation])
                           /\ r.snapshots[s] = captured'[r.generation][s]
    BY DEF ResponsesAreCaptured
  <2>1. /\ r.generation \in 1..Len(captured)
        /\ \A s \in DOMAIN r.snapshots :
             /\ s \in 1..Len(captured[r.generation])
             /\ r.snapshots[s] = captured[r.generation][s]
    BY DEF IInv, ResponsesAreCaptured
  <2>2. /\ Len(captured[r.generation]) <= Len(captured'[r.generation])
        /\ \A s \in 1..Len(captured[r.generation]) :
             captured'[r.generation][s] = captured[r.generation][s]
    BY <2>1 DEF Grows
  <2>3. r.generation \in 1..Len(captured')
    BY <2>1, <1>2 DEF Grows
  <2> QED BY <1>2, <2>1, <2>2, <2>3
<1>4. LedgerIsCaptured'
  <2> SUFFICES ASSUME NEW g \in Generations
               PROVE  IF g <= Len(captured')
                      THEN /\ Len(ledger[g]) <= Len(captured'[g])
                           /\ \A s \in 1..Len(ledger[g]) : ledger[g][s] = captured'[g][s]
                      ELSE ledger[g] = <<>>
    BY DEF LedgerIsCaptured, Booked
  <2>1. IF g <= Len(captured)
        THEN /\ Len(ledger[g]) <= Len(captured[g])
             /\ \A s \in 1..Len(ledger[g]) : ledger[g][s] = captured[g][s]
        ELSE ledger[g] = <<>>
    BY DEF IInv, LedgerIsCaptured, Booked
  <2>2. CASE g <= Len(captured)
    <3>1. g \in 1..Len(captured) /\ g \in 1..Len(captured')
      BY <2>2, <1>2 DEF Grows
    <3>2. /\ Len(captured[g]) <= Len(captured'[g])
          /\ \A s \in 1..Len(captured[g]) : captured'[g][s] = captured[g][s]
      BY <3>1 DEF Grows
    <3> QED BY <1>2, <2>1, <2>2, <3>1, <3>2
  <2>3. CASE ~(g <= Len(captured))
    <3>1. ledger[g] = <<>> /\ Len(ledger[g]) = 0
      BY <2>1, <2>3
    <3>2. g <= Len(captured') => Len(captured'[g]) \in Nat
      BY <1>2
    <3> QED BY <3>1, <3>2
  <2> QED BY <2>2, <2>3
<1>5. \A a \in acks' : a.through <= Booked(a.generation)'
  BY DEF IInv, AcksAreBooked, Booked
<1> QED BY <1>3, <1>4, <1>5

-----------------------------------------------------------------------------
\* The agent.

LEMMA ActivateStep ==
  ASSUME IInv, NEW sample \in Samples, DoActivate(sample)
  PROVE  IInv'
<1> DEFINE g == Len(captured) + 1
<1>1. captured \in Seq(Seq(Payload)) /\ g \in Generations /\ Len(captured) \in Nat
  BY DeliveryAssumption DEF IInv, QueueIsInterval, TypeOK, DoActivate, Generations
<1>2. /\ captured' \in Seq(Seq(Payload)) /\ Len(captured') = g /\ captured'[g] = <<>>
      /\ \A h \in 1..Len(captured) : captured'[h] = captured[h]
  <2>1. <<>> \in Seq(Payload)
    OBVIOUS
  <2> QED BY <1>1, <2>1, AppendProperties DEF DoActivate
<1>3. Grows
  <2>1. \A h \in 1..Len(captured) : Len(captured[h]) \in Nat
    BY <1>1
  <2> QED BY <1>1, <1>2, <2>1 DEF Grows
<1>4. BaselineOf(sample) \in Payload
  BY DeliveryAssumption DEF BaselineOf, Samples, Payload
<1>5. EmptyQueue \in [DOMAIN EmptyQueue -> Payload] /\ DOMAIN EmptyQueue = {}
  BY DEF EmptyQueue, Payload
<1>6. QueueIsInterval'
  <2>1. TypeOK'
    BY <1>1, <1>2, <1>4, <1>5, DeliveryAssumption
    DEF IInv, QueueIsInterval, TypeOK, StoreTypeOK, DoActivate, Activate, Generations
  <2> QED BY <2>1, <1>5 DEF QueueIsInterval, DoActivate, Activate
<1>7. QueueFollowsHistory'
  BY <1>1, <1>2, <1>5 DEF QueueFollowsHistory, DoActivate, Activate
<1>8. AcksAreBooked' /\ ResponsesAreCaptured' /\ LedgerIsCaptured'
  <2>1. Booked(g)' \in Nat
    BY <1>1 DEF Booked, IInv, QueueIsInterval, TypeOK, DoActivate
  <2>2. ackedThrough' = 0 /\ generation' = g
    BY DEF DoActivate, Activate
  <2>3. ackedThrough' <= Booked(generation)'
    BY <2>1, <2>2 DEF Booked
  <2> QED BY <2>3, <1>3, GrowthKeepsMessages DEF AcksAreBooked, DoActivate
<1> QED BY <1>6, <1>7, <1>8 DEF IInv

\* Capture of a sample bills natural numbers.
LEMMA CaptureTypes ==
  ASSUME TypeOK, NEW sample \in Samples, NEW reset \in BOOLEAN
  PROVE  /\ Deltas(sample, reset) \in Payload
         /\ AdvancedBaseline(sample) \in Payload
<1>1. \A c \in Counters : sample[c] \in Nat /\ baseline[c] \in Nat /\ DOMAIN sample = Counters
  BY DeliveryAssumption DEF Samples, TypeOK, StoreTypeOK, Payload
<1>2. \A c \in Counters : Delta(c, sample[c], reset) \in Nat
  BY <1>1 DEF Delta
<1>3. Deltas(sample, reset) \in Payload
  BY <1>1, <1>2 DEF Deltas, Payload
<1>4. AdvancedBaseline(sample) \in Payload
  BY <1>1 DEF AdvancedBaseline, Payload
<1> QED BY <1>3, <1>4

LEMMA CaptureStep ==
  ASSUME IInv, NEW sample \in Samples, NEW reset \in BOOLEAN, DoCapture(sample, reset)
  PROVE  IInv'
<1> DEFINE p == Deltas(sample, reset)
<1>1. /\ TypeOK /\ active /\ p \in Payload /\ AdvancedBaseline(sample) \in Payload
      /\ UNCHANGED <<active, generation, ackedThrough, responses, acks, panelGen, ledger>>
      /\ baseline' = AdvancedBaseline(sample)
  BY CaptureTypes DEF IInv, QueueIsInterval, DoCapture, Capture
<1>2. /\ captured \in Seq(Seq(Payload)) /\ generation = Len(captured)
      /\ generation \in 1..Len(captured) /\ generation \in Generations
      /\ captured[generation] \in Seq(Payload)
      /\ nextSequence \in Nat /\ ackedThrough \in Nat /\ ackedThrough < nextSequence
      /\ nextSequence = Len(captured[generation]) + 1
      /\ DOMAIN snapshots = (ackedThrough + 1)..(nextSequence - 1)
      /\ \A s \in DOMAIN snapshots : snapshots[s] = captured[generation][s] /\ snapshots[s] \in Payload
  BY <1>1, DeliveryAssumption
  DEF IInv, QueueIsInterval, QueueFollowsHistory, TypeOK, StoreTypeOK, Generations
<1>3. CASE UNCHANGED <<nextSequence, snapshots>>
  <2>1. captured' = captured
    BY <1>2, <1>3 DEF DoCapture
  <2>2. QueueIsInterval'
    BY <1>1, <1>2, <1>3, <2>1 DEF QueueIsInterval, TypeOK, StoreTypeOK
  <2>3. QueueFollowsHistory'
    BY <1>1, <1>2, <1>3, <2>1 DEF QueueFollowsHistory
  <2>4. AcksAreBooked' /\ ResponsesAreCaptured' /\ LedgerIsCaptured'
    BY <1>1, <2>1, SameHistoryGrows, GrowthKeepsMessages DEF IInv, AcksAreBooked, Booked
  <2> QED BY <2>2, <2>3, <2>4 DEF IInv
<1>4. CASE Enqueue(p)
  <2>1. /\ nextSequence' = nextSequence + 1
        /\ DOMAIN snapshots' = (ackedThrough + 1)..nextSequence
        /\ snapshots'[nextSequence] = p
        /\ \A s \in DOMAIN snapshots : snapshots'[s] = snapshots[s]
        /\ snapshots' \in [DOMAIN snapshots' -> Payload]
    <3>1. nextSequence \notin DOMAIN snapshots
      BY <1>2
    <3>2. DOMAIN snapshots \cup {nextSequence} = (ackedThrough + 1)..nextSequence
      BY <1>2
    <3> QED BY <1>1, <1>2, <1>4, <3>1, <3>2 DEF Enqueue
  <2> DEFINE longer == Append(captured[generation], p)
  <2>2. captured' = [captured EXCEPT ![generation] = longer]
    <3>1. nextSequence' # nextSequence
      BY <1>2, <2>1
    <3>2. captured' = [captured EXCEPT ![generation] = Append(captured[generation], snapshots'[nextSequence])]
      BY <3>1 DEF DoCapture
    <3> QED BY <2>1, <3>2
  <2>3. /\ longer \in Seq(Payload) /\ Len(longer) = nextSequence
        /\ longer[nextSequence] = p
        /\ \A s \in 1..Len(captured[generation]) : longer[s] = captured[generation][s]
    BY <1>1, <1>2, AppendProperties
  <2> HIDE DEF longer
  <2>4. /\ captured' \in Seq(Seq(Payload)) /\ Len(captured') = Len(captured)
        /\ captured'[generation] = longer
        /\ \A g \in 1..Len(captured) : g # generation => captured'[g] = captured[g]
    BY <1>2, <2>2, <2>3
  <2>5. Grows
    <3>1. \A g \in 1..Len(captured) : Len(captured[g]) \in Nat
      BY <1>2
    <3>2. Len(captured[generation]) <= Len(longer)
      BY <1>2, <2>3, <3>1
    <3>3. \A g \in 1..Len(captured) :
            /\ Len(captured[g]) <= Len(captured'[g])
            /\ \A s \in 1..Len(captured[g]) : captured'[g][s] = captured[g][s]
      <4> SUFFICES ASSUME NEW g \in 1..Len(captured)
                   PROVE  /\ Len(captured[g]) <= Len(captured'[g])
                          /\ \A s \in 1..Len(captured[g]) : captured'[g][s] = captured[g][s]
        OBVIOUS
      <4>1. CASE g = generation
        BY <2>3, <2>4, <3>2, <4>1
      <4>2. CASE g # generation
        BY <2>4, <3>1, <4>2
      <4> QED BY <4>1, <4>2
    <3>4. Len(captured) <= Len(captured')
      BY <1>2, <2>4
    <3> HIDE DEF longer
    <3> QED BY <2>4, <3>3, <3>4 DEF Grows
  <2>6. QueueIsInterval'
    <3>1. TypeOK'
      BY <1>1, <1>2, <2>1, <2>4 DEF TypeOK, StoreTypeOK
    <3> QED BY <3>1, <1>1, <1>2, <2>1 DEF QueueIsInterval
  <2>7. QueueFollowsHistory'
    <3>1. \A s \in DOMAIN snapshots' : snapshots'[s] = longer[s]
      <4> SUFFICES ASSUME NEW s \in (ackedThrough + 1)..nextSequence
                   PROVE  snapshots'[s] = longer[s]
        BY <2>1
      <4>1. CASE s = nextSequence
        BY <2>1, <2>3, <4>1
      <4>2. CASE s # nextSequence
        <5>1. s \in DOMAIN snapshots /\ s \in 1..Len(captured[generation])
          BY <1>2, <4>2
        <5> QED BY <5>1, <1>2, <2>1, <2>3
      <4> QED BY <4>1, <4>2
    <3> QED BY <3>1, <1>1, <1>2, <2>1, <2>3, <2>4 DEF QueueFollowsHistory
  <2>8. AcksAreBooked' /\ ResponsesAreCaptured' /\ LedgerIsCaptured'
    BY <1>1, <2>5, GrowthKeepsMessages DEF IInv, AcksAreBooked, Booked
  <2> QED BY <2>6, <2>7, <2>8 DEF IInv
<1> QED BY <1>3, <1>4 DEF DoCapture, Capture

LEMMA ReinstallStep ==
  ASSUME IInv, Reinstall
  PROVE  IInv'
<1>1. /\ active' = FALSE /\ generation' = NoGeneration /\ nextSequence' = 0 /\ ackedThrough' = 0
      /\ baseline' = [c \in Counters |-> 0] /\ snapshots' = EmptyQueue
      /\ UNCHANGED <<responses, acks, panelGen, ledger, captured>>
  BY DEF Reinstall, OpenFresh, Empty, deliveryVars
<1>2. EmptyQueue \in [DOMAIN EmptyQueue -> Payload] /\ DOMAIN EmptyQueue = {}
  BY DEF EmptyQueue, Payload
<1>3. QueueIsInterval'
  <2>1. baseline' \in Payload
    BY <1>1 DEF Payload
  <2>2. StoreTypeOK'
    BY <1>1, <1>2, <2>1 DEF StoreTypeOK, NoGeneration
  <2> QED BY <1>1, <2>2, DeliveryAssumption DEF IInv, QueueIsInterval, TypeOK, NoGeneration
<1>4. QueueFollowsHistory'
  BY <1>1 DEF QueueFollowsHistory
<1>5. AcksAreBooked' /\ ResponsesAreCaptured' /\ LedgerIsCaptured'
  BY <1>1, SameHistoryGrows, GrowthKeepsMessages DEF AcksAreBooked
<1> QED BY <1>3, <1>4, <1>5 DEF IInv

\* An acknowledgement, stale or not, is applied only up to what is booked.
LEMMA AckStep ==
  ASSUME IInv, NEW a \in acks, HandleAck(a)
  PROVE  IInv'
<1>1. UNCHANGED <<responses, acks, panelGen, ledger, captured>>
  BY DEF HandleAck, deliveryVars
<1>2. ResponsesAreCaptured' /\ LedgerIsCaptured' /\ \A b \in acks' : b.through <= Booked(b.generation)'
  BY <1>1, SameHistoryGrows, GrowthKeepsMessages
<1>3. CASE Ack(a.generation, a.through)
  <2>1. /\ active /\ a.generation = generation
        /\ a.through \in Nat /\ ackedThrough < a.through /\ a.through <= nextSequence - 1
        /\ ackedThrough' = a.through
        /\ UNCHANGED <<active, generation, nextSequence, baseline>>
        /\ TypeOK /\ nextSequence \in Nat
    BY <1>3 DEF Ack, AckAccepted, Latest, IInv, QueueIsInterval, QueueFollowsHistory, TypeOK, StoreTypeOK
  <2>2. /\ DOMAIN snapshots' = (a.through + 1)..(nextSequence - 1)
        /\ \A s \in DOMAIN snapshots' : s \in DOMAIN snapshots /\ snapshots'[s] = snapshots[s]
        /\ snapshots' \in [DOMAIN snapshots' -> Payload]
    <3>1. DOMAIN snapshots = (ackedThrough + 1)..(nextSequence - 1) /\ ackedThrough \in Nat
      BY <2>1 DEF IInv, QueueIsInterval, TypeOK, StoreTypeOK
    <3>2. {x \in DOMAIN snapshots : x > a.through} = (a.through + 1)..(nextSequence - 1)
      BY <2>1, <3>1
    <3>3. snapshots' = [s \in (a.through + 1)..(nextSequence - 1) |-> snapshots[s]]
      BY <1>3, <3>2 DEF Ack
    <3>4. \A s \in (a.through + 1)..(nextSequence - 1) : s \in DOMAIN snapshots /\ snapshots[s] \in Payload
      BY <2>1, <3>1 DEF TypeOK, StoreTypeOK
    <3> QED BY <3>3, <3>4
  <2>3. QueueIsInterval'
    BY <1>1, <2>1, <2>2 DEF QueueIsInterval, TypeOK, StoreTypeOK
  <2>4. QueueFollowsHistory'
    BY <1>1, <2>1, <2>2 DEF IInv, QueueFollowsHistory
  <2>5. AcksAreBooked'
    BY <1>1, <1>2, <2>1 DEF IInv, AcksAreBooked, Booked
  <2> QED BY <1>2, <2>3, <2>4, <2>5 DEF IInv
<1>4. CASE AckIgnored(a.generation, a.through)
  BY <1>1, <1>2, <1>4
  DEF AckIgnored, storeVars, IInv, QueueIsInterval, TypeOK, StoreTypeOK, QueueFollowsHistory, AcksAreBooked, Booked
<1> QED BY <1>3, <1>4 DEF HandleAck

-----------------------------------------------------------------------------
\* The panel and the network.

\* What a pull answers is a part of the queue.
LEMMA PullStep ==
  ASSUME IInv, NEW after, PanelPull(after)
  PROVE  IInv'
<1> DEFINE r == Pull(after, Clamp(PullLimit, PullLimitCap), PullBytesCap)
<1>1. /\ active /\ responses' = {r}
      /\ UNCHANGED <<active, generation, nextSequence, ackedThrough, baseline, snapshots,
                     acks, panelGen, ledger, captured>>
  BY DEF PanelPull, storeVars
<1>2. /\ r.generation = generation
      /\ DOMAIN r.snapshots \subseteq DOMAIN snapshots
      /\ \A s \in DOMAIN r.snapshots : r.snapshots[s] = snapshots[s]
  BY DEF Pull
<1> HIDE DEF r
<1>3. /\ captured \in Seq(Seq(Payload)) /\ generation \in Generations
      /\ generation \in 1..Len(captured) /\ ackedThrough \in Nat
      /\ nextSequence = Len(captured[generation]) + 1 /\ Len(captured[generation]) \in Nat
      /\ DOMAIN snapshots = (ackedThrough + 1)..(nextSequence - 1)
      /\ \A s \in DOMAIN snapshots : snapshots[s] = captured[generation][s]
  BY <1>1 DEF IInv, QueueIsInterval, QueueFollowsHistory, TypeOK, StoreTypeOK, Generations
<1>4. ResponsesAreCaptured'
  <2>1. \A s \in DOMAIN snapshots : s \in 1..Len(captured[generation])
    BY <1>3
  <2> QED BY <1>1, <1>2, <1>3, <2>1 DEF ResponsesAreCaptured
<1>5. QueueIsInterval'
  BY <1>1, <1>2, <1>3 DEF IInv, QueueIsInterval, TypeOK, StoreTypeOK
<1>6. QueueFollowsHistory' /\ AcksAreBooked' /\ LedgerIsCaptured'
  BY <1>1 DEF IInv, QueueFollowsHistory, AcksAreBooked, LedgerIsCaptured, Booked
<1> QED BY <1>4, <1>5, <1>6 DEF IInv

\* The panel books the element that follows its ledger, or nothing.
LEMMA ReceiveStep ==
  ASSUME IInv, NEW r \in responses, PanelReceive(r)
  PROVE  IInv'
<1>1. /\ TypeOK /\ r.generation \in Generations
      /\ r.generation \in 1..Len(captured)
      /\ \A s \in DOMAIN r.snapshots :
           /\ s \in 1..Len(captured[r.generation])
           /\ r.snapshots[s] = captured[r.generation][s]
      /\ captured \in Seq(Seq(Payload)) /\ ledger \in [Generations -> Seq(Payload)]
  BY DEF IInv, QueueIsInterval, ResponsesAreCaptured, TypeOK
<1>2. CASE r.generation # panelGen
  <2>1. UNCHANGED <<active, generation, nextSequence, ackedThrough, baseline, snapshots,
                    responses, acks, ledger, captured>> /\ panelGen' \in Generations
    BY <1>1, <1>2 DEF PanelReceive, storeVars
  <2>2. QueueIsInterval'
    BY <2>1, DeliveryAssumption DEF IInv, QueueIsInterval, TypeOK, StoreTypeOK, Generations
  <2> QED BY <2>1, <2>2
          DEF IInv, QueueFollowsHistory, AcksAreBooked, ResponsesAreCaptured, LedgerIsCaptured, Booked
<1>3. CASE r.generation = panelGen
  <2> DEFINE n == Len(ledger[panelGen])
             longer == Append(ledger[panelGen], r.snapshots[n + 1])
  <2>1. /\ panelGen \in Generations /\ panelGen \in 1..Len(captured) /\ ledger[panelGen] \in Seq(Payload) /\ n \in Nat
        /\ n + 1 \in DOMAIN r.snapshots
        /\ n + 1 \in 1..Len(captured[panelGen])
        /\ r.snapshots[n + 1] = captured[panelGen][n + 1]
        /\ captured[panelGen] \in Seq(Payload)
    BY <1>1, <1>3 DEF PanelReceive, Booked
  <2>2. /\ ledger' = [ledger EXCEPT ![panelGen] = longer]
        /\ UNCHANGED <<active, generation, nextSequence, ackedThrough, baseline, snapshots,
                       responses, acks, panelGen, captured>>
    BY <1>3 DEF PanelReceive, storeVars, Booked
  <2>3. /\ longer \in Seq(Payload) /\ Len(longer) = n + 1
        /\ longer[n + 1] = captured[panelGen][n + 1]
        /\ \A s \in 1..n : longer[s] = ledger[panelGen][s]
    BY <2>1, AppendProperties
  <2>4. n <= Len(captured[panelGen]) /\ \A s \in 1..n : ledger[panelGen][s] = captured[panelGen][s]
    BY <2>1 DEF IInv, LedgerIsCaptured, Booked
  <2> HIDE DEF longer
  <2>5. /\ ledger' \in [Generations -> Seq(Payload)] /\ ledger'[panelGen] = longer
        /\ \A g \in Generations : g # panelGen => ledger'[g] = ledger[g]
    BY <1>1, <2>1, <2>2, <2>3
  <2>6. LedgerIsCaptured'
    <3> SUFFICES ASSUME NEW g \in Generations
                 PROVE  IF g <= Len(captured)
                        THEN /\ Len(ledger'[g]) <= Len(captured[g])
                             /\ \A s \in 1..Len(ledger'[g]) : ledger'[g][s] = captured[g][s]
                        ELSE ledger'[g] = <<>>
      BY <2>2 DEF LedgerIsCaptured, Booked
    <3>1. CASE g # panelGen
      BY <3>1, <2>5 DEF IInv, LedgerIsCaptured, Booked
    <3>2. CASE g = panelGen
      <4>1. \A s \in 1..(n + 1) : longer[s] = captured[g][s]
        BY <3>2, <2>1, <2>3, <2>4
      <4>2. g <= Len(captured)
        BY <1>1, <3>2, <2>1
      <4>3. ledger'[g] = longer /\ Len(longer) = n + 1 /\ n + 1 <= Len(captured[g])
        BY <3>2, <2>1, <2>3, <2>5
      <4> QED BY <4>1, <4>2, <4>3
    <3> QED BY <3>1, <3>2
  <2>7. \A g \in Generations : Booked(g) \in Nat /\ Booked(g)' \in Nat /\ Booked(g) <= Booked(g)'
    <3> SUFFICES ASSUME NEW g \in Generations
                 PROVE  Len(ledger[g]) \in Nat /\ Len(ledger'[g]) \in Nat /\ Len(ledger[g]) <= Len(ledger'[g])
      BY DEF Booked
    <3>1. Len(ledger[g]) \in Nat /\ Len(ledger'[g]) \in Nat
      BY <1>1, <2>5
    <3>2. CASE g = panelGen
      BY <2>1, <2>3, <2>5, <3>1, <3>2
    <3>3. CASE g # panelGen
      BY <2>5, <3>1, <3>3
    <3> QED BY <3>2, <3>3
  <2>8. AcksAreBooked'
    <3>1. \A a \in acks' : a.generation \in Generations /\ a.through \in Nat /\ a.through <= Booked(a.generation)
      BY <1>1, <2>2 DEF IInv, AcksAreBooked, TypeOK
    <3>2. active' => generation' \in Generations /\ ackedThrough' \in Nat /\ ackedThrough' <= Booked(generation')
      BY <1>1, <2>2 DEF IInv, AcksAreBooked, QueueFollowsHistory, TypeOK, StoreTypeOK, Booked
    <3>3. \A a \in acks' : a.through <= Booked(a.generation)'
      BY <3>1, <2>7 DEF Booked
    <3>4. active' => ackedThrough' <= Booked(generation)'
      BY <3>2, <2>7 DEF Booked
    <3> QED BY <3>3, <3>4 DEF AcksAreBooked
  <2>9. QueueIsInterval'
    BY <2>2, <2>5 DEF IInv, QueueIsInterval, TypeOK, StoreTypeOK
  <2>10. QueueFollowsHistory' /\ ResponsesAreCaptured'
    BY <2>2 DEF IInv, QueueFollowsHistory, ResponsesAreCaptured
  <2> QED BY <2>6, <2>8, <2>9, <2>10 DEF IInv
<1> QED BY <1>2, <1>3

\* An acknowledgement is sent for what is booked; the others under way may be lost.
LEMMA PanelAckStep ==
  ASSUME IInv, PanelAck
  PROVE  IInv'
<1> DEFINE m == [generation |-> panelGen, through |-> Booked(panelGen)]
<1>1. UNCHANGED <<active, generation, nextSequence, ackedThrough, baseline, snapshots,
                  responses, panelGen, ledger, captured>>
  BY DEF PanelAck, storeVars
<1>2. panelGen \in Generations /\ Booked(panelGen) \in Nat
  BY DeliveryAssumption DEF PanelAck, IInv, QueueIsInterval, TypeOK, NoGeneration, Generations, Booked
<1>3. \A a \in acks' : a \in acks \/ a = m
  BY DEF PanelAck, Sent
<1>4. \A a \in acks' : /\ a.generation \in Generations /\ a.through \in Nat
                       /\ a.through <= Booked(a.generation)
  <2>1. m.generation = panelGen /\ m.through = Booked(panelGen) /\ m.through <= Booked(m.generation)
    BY <1>2
  <2> HIDE DEF m
  <2> QED BY <1>2, <1>3, <2>1 DEF IInv, QueueIsInterval, TypeOK, AcksAreBooked
<1>5. QueueIsInterval'
  BY <1>1, <1>4 DEF IInv, QueueIsInterval, TypeOK, StoreTypeOK
<1>6. AcksAreBooked'
  BY <1>1, <1>4 DEF IInv, AcksAreBooked, Booked
<1>7. QueueFollowsHistory' /\ ResponsesAreCaptured' /\ LedgerIsCaptured'
  BY <1>1 DEF IInv, QueueFollowsHistory, ResponsesAreCaptured, LedgerIsCaptured, Booked
<1> QED BY <1>5, <1>6, <1>7 DEF IInv

\* Losing messages, or doing nothing, invents none.
LEMMA LoseStep ==
  ASSUME IInv, responses' \subseteq responses, acks' \subseteq acks,
         UNCHANGED <<storeVars, panelGen, ledger, captured>>
  PROVE  IInv'
<1> USE DEF storeVars
<1>1. QueueIsInterval'
  BY DEF IInv, QueueIsInterval, TypeOK, StoreTypeOK
<1>2. QueueFollowsHistory' /\ AcksAreBooked' /\ ResponsesAreCaptured' /\ LedgerIsCaptured'
  BY DEF IInv, QueueFollowsHistory, AcksAreBooked, ResponsesAreCaptured, LedgerIsCaptured, Booked
<1> QED BY <1>1, <1>2 DEF IInv

-----------------------------------------------------------------------------
\* The inductive invariant.

LEMMA InitIInv == Init => IInv
<1> SUFFICES ASSUME Init PROVE IInv
  OBVIOUS
<1>1. /\ active = FALSE /\ generation = 0 /\ nextSequence = 0 /\ ackedThrough = 0
      /\ baseline = [c \in Counters |-> 0] /\ snapshots = EmptyQueue
      /\ responses = {} /\ acks = {} /\ panelGen = 0
      /\ ledger = [g \in Generations |-> <<>>] /\ captured = <<>>
  BY DEF Init, StoreInit, Empty, NoGeneration
<1>2. EmptyQueue \in [DOMAIN EmptyQueue -> Payload] /\ DOMAIN EmptyQueue = {}
  BY DEF EmptyQueue, Payload
<1>3. QueueIsInterval
  <2>1. baseline \in Payload
    BY <1>1 DEF Payload
  <2>2. StoreTypeOK
    BY <1>1, <1>2, <2>1 DEF StoreTypeOK
  <2>3. ledger \in [Generations -> Seq(Payload)] /\ captured \in Seq(Seq(Payload))
    BY <1>1
  <2> QED BY <1>1, <2>2, <2>3, DeliveryAssumption DEF QueueIsInterval, TypeOK
<1>4. QueueFollowsHistory /\ AcksAreBooked /\ ResponsesAreCaptured
  BY <1>1 DEF QueueFollowsHistory, AcksAreBooked, ResponsesAreCaptured, NoGeneration
<1>5. LedgerIsCaptured
  BY <1>1, DeliveryAssumption DEF LedgerIsCaptured, Generations
<1> QED BY <1>3, <1>4, <1>5 DEF IInv

LEMMA NextIInv == IInv /\ [Next]_vars => IInv'
<1> SUFFICES ASSUME IInv, [Next]_vars PROVE IInv'
  OBVIOUS
<1>1. ASSUME NEW sample \in Samples, DoActivate(sample) PROVE IInv'
  BY <1>1, ActivateStep
<1>2. CASE DoActivateAgain
  BY <1>2, LoseStep DEF DoActivateAgain, AlreadyActive, deliveryVars
<1>3. ASSUME NEW sample \in Samples, NEW reset \in BOOLEAN, DoCapture(sample, reset) PROVE IInv'
  BY <1>3, CaptureStep
<1>4. CASE Reinstall
  BY <1>4, ReinstallStep
<1>5. ASSUME NEW a \in acks, HandleAck(a) PROVE IInv'
  BY <1>5, AckStep
<1>6. CASE PullNext
  BY <1>6, PullStep DEF PullNext
<1>7. CASE PullLate
  BY <1>7, PullStep DEF PullLate
<1>8. ASSUME NEW r \in responses, PanelReceive(r) PROVE IInv'
  BY <1>8, ReceiveStep
<1>9. CASE PanelAck
  BY <1>9, PanelAckStep
<1>10. CASE Lose
  BY <1>10, LoseStep DEF Lose
<1>11. CASE UNCHANGED vars
  BY <1>11, LoseStep DEF vars, deliveryVars
<1> QED BY <1>1, <1>2, <1>3, <1>4, <1>5, <1>6, <1>7, <1>8, <1>9, <1>10, <1>11 DEF Next

LEMMA Inductive == Spec => []IInv
<1>1. Init => IInv
  BY InitIInv
<1>2. IInv /\ [Next]_vars => IInv'
  BY NextIInv
<1> QED BY <1>1, <1>2, PTL DEF Spec

-----------------------------------------------------------------------------
(***************************************************************************)
(* The queue that Capture, Ack and Activate leave behind is the interval   *)
(* of sequences between the last acknowledged and the next one, in every   *)
(* order of requests, stale and repeated acknowledgements included.        *)
(***************************************************************************)
THEOREM QueueSafety == Spec => []QueueIsInterval
<1>1. IInv => QueueIsInterval
  BY DEF IInv
<1> QED BY <1>1, Inductive, PTL

(***************************************************************************)
(* Ack never deletes a snapshot that the panel has not booked.             *)
(***************************************************************************)
THEOREM DeliverySafety == Spec => []NothingLost
<1>1. ASSUME IInv PROVE NothingLost
  <2> SUFFICES ASSUME active, NEW s \in 1..(nextSequence - 1), ~(s <= Booked(generation))
               PROVE  s \in DOMAIN snapshots /\ snapshots[s] = captured[generation][s]
    BY DEF NothingLost
  <2>1. /\ ackedThrough \in Nat /\ nextSequence \in Nat /\ Booked(generation) \in Nat
        /\ ackedThrough <= Booked(generation)
        /\ DOMAIN snapshots = (ackedThrough + 1)..(nextSequence - 1)
        /\ \A x \in DOMAIN snapshots : snapshots[x] = captured[generation][x]
    BY <1>1 DEF IInv, QueueIsInterval, TypeOK, StoreTypeOK, QueueFollowsHistory, AcksAreBooked, Booked
  <2> QED BY <2>1
<1> QED BY <1>1, Inductive, PTL

(***************************************************************************)
(* Whatever the network does to pulls and acknowledgements, the panel's    *)
(* ledger of every generation is a prefix of what the store captured.      *)
(***************************************************************************)
THEOREM LedgerSafety == Spec => []LedgerIsPrefix
<1>1. ASSUME IInv PROVE LedgerIsPrefix
  <2> SUFFICES ASSUME NEW g \in Generations
               PROVE  IsPrefix(ledger[g], IF g <= Len(captured) THEN captured[g] ELSE <<>>)
    BY DEF LedgerIsPrefix
  <2>1. /\ captured \in Seq(Seq(Payload)) /\ ledger[g] \in Seq(Payload)
        /\ Len(captured) \in Nat /\ g \in Nat \ {0}
    BY <1>1, DeliveryAssumption DEF IInv, QueueIsInterval, TypeOK, Generations
  <2>2. CASE g <= Len(captured)
    <3>1. /\ captured[g] \in Seq(Payload)
          /\ Len(ledger[g]) <= Len(captured[g])
          /\ \A s \in 1..Len(ledger[g]) : ledger[g][s] = captured[g][s]
      BY <1>1, <2>1, <2>2 DEF IInv, LedgerIsCaptured, Booked
    <3>2. SubSeq(ledger[g], 1, Len(ledger[g])) = SubSeq(captured[g], 1, Len(ledger[g]))
      <4> DEFINE n == Len(ledger[g])
                 a == SubSeq(ledger[g], 1, n)
                 b == SubSeq(captured[g], 1, n)
      <4>1. n \in Nat /\ n <= Len(captured[g]) /\ Len(captured[g]) \in Nat
        BY <2>1, <3>1
      <4>2. a \in Seq(Payload) /\ Len(a) = n /\ \A s \in 1..n : a[s] = ledger[g][s]
        BY <2>1, <4>1, SubSeqProperties
      <4>3. b \in Seq(Payload) /\ Len(b) = n /\ \A s \in 1..n : b[s] = captured[g][s]
        BY <3>1, <4>1, SubSeqProperties
      <4>4. \A s \in 1..n : a[s] = b[s]
        BY <3>1, <4>2, <4>3
      <4> HIDE DEF a, b, n
      <4>5. a = b
        BY <4>2, <4>3, <4>4, SeqEqual
      <4> QED BY <4>5 DEF a, b, n
    <3> QED BY <2>2, <3>1, <3>2 DEF IsPrefix
  <2>3. CASE ~(g <= Len(captured))
    <3>1. ledger[g] = <<>>
      BY <1>1, <2>3 DEF IInv, LedgerIsCaptured
    <3> QED BY <2>3, <3>1 DEF IsPrefix
  <2> QED BY <2>2, <2>3
<1> QED BY <1>1, Inductive, PTL

(***************************************************************************)
(* No step of the store takes an acknowledgement back, reuses a sequence   *)
(* number of the generation or alters a queued snapshot.                   *)
(***************************************************************************)
THEOREM SequenceSafety == Spec => SequencesOnlyGrow
<1> DEFINE Kept == generation' = generation =>
                     /\ ackedThrough' >= ackedThrough
                     /\ nextSequence' >= nextSequence
                     /\ \A s \in DOMAIN snapshots \cap DOMAIN snapshots' : snapshots'[s] = snapshots[s]
<1>1. ASSUME IInv, [Next]_vars PROVE [Kept]_vars
  <2>0. /\ ackedThrough \in Nat /\ nextSequence \in Nat
        /\ active => generation \in Nat \ {0}
        /\ ~active => generation = 0
        /\ active => DOMAIN snapshots = (ackedThrough + 1)..(nextSequence - 1)
        /\ Len(captured) \in Nat
    BY <1>1, DeliveryAssumption
    DEF IInv, QueueIsInterval, TypeOK, StoreTypeOK, QueueFollowsHistory, Generations, NoGeneration
  <2>1. ASSUME NEW sample \in Samples, DoActivate(sample) PROVE Kept
    BY <2>0, <2>1 DEF DoActivate, Activate
  <2>2. ASSUME NEW sample \in Samples, NEW reset \in BOOLEAN, DoCapture(sample, reset) PROVE Kept
    <3>1. CASE UNCHANGED <<nextSequence, snapshots>>
      BY <2>0, <2>2, <3>1 DEF DoCapture, Capture
    <3>2. CASE Enqueue(Deltas(sample, reset))
      <4>1. nextSequence \notin DOMAIN snapshots
        BY <2>0, <2>2 DEF DoCapture, Capture
      <4>2. \A s \in DOMAIN snapshots : snapshots'[s] = snapshots[s]
        BY <3>2, <4>1 DEF Enqueue
      <4> QED BY <2>0, <2>2, <3>2, <4>2 DEF Enqueue, DoCapture, Capture
    <3> QED BY <2>2, <3>1, <3>2 DEF DoCapture, Capture
  <2>3. CASE Reinstall
    BY <2>0, <2>3 DEF Reinstall, OpenFresh, Empty, NoGeneration
  <2>4. ASSUME NEW a \in acks, HandleAck(a) PROVE Kept
    <3>1. a.through \in Nat
      BY <1>1 DEF IInv, QueueIsInterval, TypeOK
    <3>2. CASE Ack(a.generation, a.through)
      BY <2>0, <3>1, <3>2 DEF Ack, AckAccepted
    <3>3. CASE AckIgnored(a.generation, a.through)
      BY <2>0, <3>3 DEF AckIgnored, storeVars
    <3> QED BY <2>4, <3>2, <3>3 DEF HandleAck
  <2>5. CASE UNCHANGED storeVars
    BY <2>0, <2>5 DEF storeVars
  <2>6. CASE PullNext \/ PullLate \/ PanelAck \/ Lose \/ DoActivateAgain
    BY <2>5, <2>6 DEF PullNext, PullLate, PanelPull, PanelAck, Lose, DoActivateAgain, AlreadyActive
  <2>7. ASSUME NEW r \in responses, PanelReceive(r) PROVE Kept
    <3>1. UNCHANGED storeVars
      BY <2>7 DEF PanelReceive
    <3> QED BY <2>0, <3>1 DEF storeVars
  <2> HIDE DEF Kept
  <2> QED BY <1>1, <2>1, <2>2, <2>3, <2>4, <2>6, <2>7 DEF Next
<1>2. Spec => [][Kept]_vars
  BY <1>1, Inductive, PTL DEF Spec
<1> QED BY <1>2 DEF SequencesOnlyGrow

-----------------------------------------------------------------------------
\* The refinement of ExactlyOnce.

\* Between two operations the queue and the acknowledged sequences are, put
\* together, what was captured.
LEMMA QueueIsLog == IInv => Logs = captured
<1> SUFFICES ASSUME IInv PROVE Logs = captured
  OBVIOUS
<1>1. captured \in Seq(Seq(Payload)) /\ DOMAIN captured = 1..Len(captured) /\ Len(captured) \in Nat
  BY DEF IInv, QueueIsInterval, TypeOK
<1>2. ASSUME NEW g \in 1..Len(captured) PROVE Log(g) = captured[g]
  <2>1. CASE active /\ g = generation
    <3> DEFINE log == [s \in 1..Latest |-> IF s \in DOMAIN snapshots THEN snapshots[s] ELSE captured[g][s]]
    <3>1. captured[g] \in Seq(Payload)
      BY <1>1
    <3>2. DOMAIN captured[g] = 1..Len(captured[g]) /\ Len(captured[g]) \in Nat
          /\ captured[g] = [s \in 1..Len(captured[g]) |-> captured[g][s]]
      BY <3>1
    <3>3. Latest = Len(captured[g])
      BY <2>1, <3>2 DEF Latest, IInv, QueueFollowsHistory
    <3>4. \A s \in 1..Latest : log[s] = captured[g][s]
      BY <2>1 DEF IInv, QueueFollowsHistory
    <3>5. log = captured[g]
      BY <3>2, <3>3, <3>4
    <3> QED BY <2>1, <3>5 DEF Log
  <2>2. CASE ~(active /\ g = generation)
    BY <2>2 DEF Log
  <2> QED BY <2>1, <2>2
<1>3. captured = [g \in 1..Len(captured) |-> captured[g]]
  BY <1>1
<1> QED BY <1>1, <1>2, <1>3 DEF Logs

\* What a step may do to the state the abstract specification speaks of.
Allowed == Promise!Next \/ UNCHANGED <<active, Logs, ledger, ackedThrough>>

LEMMA LogsAreCaptured ==
  ASSUME IInv, IInv'
  PROVE  Logs = captured /\ Logs' = captured'
<1>1. Logs = captured
  BY QueueIsLog
<1>2. Logs' = captured'
  <2>1. (IInv => Logs = captured)'
    BY QueueIsLog, PTL
  <2> QED BY <2>1
<1> QED BY <1>1, <1>2

LEMMA ActivateOpens ==
  ASSUME IInv, IInv', NEW sample \in Samples, DoActivate(sample)
  PROVE  Allowed
<1>1. Logs = captured /\ Logs' = captured'
  BY LogsAreCaptured
<1>2. Len(captured) + 1 \in Generations
  BY DeliveryAssumption DEF IInv, QueueIsInterval, TypeOK, DoActivate, Generations
<1>3. Promise!Open
  BY <1>1, <1>2 DEF Promise!Open, DoActivate, Activate
<1> QED BY <1>3 DEF Allowed, Promise!Next

LEMMA CaptureRecords ==
  ASSUME IInv, IInv', NEW sample \in Samples, NEW reset \in BOOLEAN, DoCapture(sample, reset)
  PROVE  Allowed
<1>1. Logs = captured /\ Logs' = captured'
  BY LogsAreCaptured
<1>2. /\ active /\ UNCHANGED <<active, ackedThrough, ledger>>
      /\ generation = Len(captured) /\ generation \in 1..Len(captured)
      /\ captured \in Seq(Seq(Payload)) /\ captured[generation] \in Seq(Payload)
      /\ nextSequence \in Nat
  BY DeliveryAssumption
  DEF IInv, QueueIsInterval, QueueFollowsHistory, TypeOK, StoreTypeOK, Generations, DoCapture, Capture
<1>3. CASE UNCHANGED <<nextSequence, snapshots>>
  <2>1. captured' = captured
    BY <1>2, <1>3 DEF DoCapture
  <2> QED BY <1>1, <1>2, <2>1 DEF Allowed
<1>4. CASE Enqueue(Deltas(sample, reset))
  <2> DEFINE p == Deltas(sample, reset)
             log == Append(captured[generation], p)
  <2>1. p \in Payload
    BY CaptureTypes DEF IInv, QueueIsInterval
  <2>2. snapshots'[nextSequence] = p /\ nextSequence' # nextSequence
    BY <1>2, <1>4 DEF Enqueue
  <2>3. captured' = [captured EXCEPT ![generation] = log]
    <3>1. captured' = [captured EXCEPT ![generation] = Append(captured[generation], snapshots'[nextSequence])]
      BY <2>2 DEF DoCapture
    <3> QED BY <2>2, <3>1
  <2>4. log # <<>> /\ log[Len(log)] = p
    <3>1. Len(log) = Len(captured[generation]) + 1 /\ Len(captured[generation]) \in Nat
          /\ log[Len(captured[generation]) + 1] = p
      BY <1>2, <2>1, AppendProperties
    <3> QED BY <3>1
  <2>5. captured'[generation] = log /\ generation \in DOMAIN captured'
    BY <1>2, <2>3
  <2> HIDE DEF log, p
  <2>6. Promise!Record
    <3>1. captured' = [captured EXCEPT ![Len(captured)] = Append(captured[Len(captured)], p)]
      BY <1>2, <2>3 DEF log
    <3>2. captured'[Len(captured)][Len(captured'[Len(captured)])] = p
      BY <1>2, <2>4, <2>5
    <3> QED BY <1>1, <1>2, <2>1, <2>4, <2>5, <3>1, <3>2 DEF Promise!Record
  <2> QED BY <2>6 DEF Allowed, Promise!Next
<1> QED BY <1>3, <1>4 DEF DoCapture, Capture

LEMMA ReinstallLoses ==
  ASSUME IInv, IInv', Reinstall
  PROVE  Allowed
<1>1. Logs = captured /\ Logs' = captured'
  BY LogsAreCaptured
<1>2. Promise!LoseVolume
  BY <1>1 DEF Promise!LoseVolume, Reinstall, OpenFresh, Empty, deliveryVars
<1> QED BY <1>2 DEF Allowed, Promise!Next

LEMMA AckForgets ==
  ASSUME IInv, IInv', NEW a \in acks, HandleAck(a)
  PROVE  Allowed
<1>1. Logs = captured /\ Logs' = captured'
  BY LogsAreCaptured
<1>2. UNCHANGED <<ledger, captured>>
  BY DEF HandleAck, deliveryVars
<1>3. CASE Ack(a.generation, a.through)
  <2>1. /\ active /\ active' = active /\ generation = Len(captured) /\ a.generation = generation
        /\ a.through \in Nat /\ ackedThrough \in Nat
        /\ ackedThrough' = a.through /\ ackedThrough < a.through
        /\ Len(ledger[generation]) \in Nat /\ a.through <= Len(ledger[generation])
    BY <1>3 DEF Ack, AckAccepted, IInv, QueueIsInterval, QueueFollowsHistory, AcksAreBooked, Booked,
       TypeOK, StoreTypeOK
  <2>2. Promise!Forget
    BY <1>1, <1>2, <2>1 DEF Promise!Forget
  <2> QED BY <2>2 DEF Allowed, Promise!Next
<1>4. CASE AckIgnored(a.generation, a.through)
  BY <1>1, <1>2, <1>4 DEF AckIgnored, storeVars, Allowed
<1> QED BY <1>3, <1>4 DEF HandleAck

LEMMA ReceiveBooks ==
  ASSUME IInv, IInv', NEW r \in responses, PanelReceive(r)
  PROVE  Allowed
<1>1. Logs = captured /\ Logs' = captured'
  BY LogsAreCaptured
<1>2. UNCHANGED <<active, ackedThrough, captured>>
  BY DEF PanelReceive, storeVars
<1>3. CASE UNCHANGED ledger
  BY <1>1, <1>2, <1>3 DEF Allowed
<1>4. CASE /\ r.generation = panelGen
           /\ Booked(panelGen) + 1 \in DOMAIN r.snapshots
           /\ ledger' = [ledger EXCEPT ![panelGen] = Append(@, r.snapshots[Booked(panelGen) + 1])]
  <2>1. /\ panelGen \in DOMAIN captured /\ panelGen \in Generations
        /\ Len(ledger[panelGen]) + 1 \in 1..Len(captured[panelGen])
        /\ r.snapshots[Len(ledger[panelGen]) + 1] = captured[panelGen][Len(ledger[panelGen]) + 1]
        /\ Len(ledger[panelGen]) \in Nat /\ Len(captured[panelGen]) \in Nat
    BY <1>4 DEF IInv, ResponsesAreCaptured, QueueIsInterval, TypeOK, Booked
  <2>2. Promise!Book(panelGen)
    <3>1. ledger' = [ledger EXCEPT ![panelGen] =
                       Append(ledger[panelGen], captured[panelGen][Len(ledger[panelGen]) + 1])]
      BY <1>4, <2>1 DEF Booked
    <3> QED BY <1>1, <1>2, <2>1, <3>1 DEF Promise!Book
  <2> QED BY <2>1, <2>2 DEF Allowed, Promise!Next
<1> QED BY <1>3, <1>4 DEF PanelReceive

(***************************************************************************)
(* The store behind an exchange that loses, delays and repeats messages    *)
(* implements exactly-once delivery: Activate opens a log, Capture adds to *)
(* it, a received response books what comes next in the log, and only Ack  *)
(* forgets, what is booked.  Every other step is invisible to the panel.   *)
(***************************************************************************)
THEOREM Refinement == Spec => ImplementsExactlyOnce
<1>1. ASSUME IInv, Init PROVE Promise!Init
  <2>1. Logs = captured
    BY <1>1, QueueIsLog
  <2> QED BY <1>1, <2>1 DEF Promise!Init, Init, StoreInit, Empty
<1>2. ASSUME IInv, IInv', [Next]_vars PROVE Allowed
  <2>1. ASSUME NEW sample \in Samples, DoActivate(sample) PROVE Allowed
    BY <1>2, <2>1, ActivateOpens
  <2>2. ASSUME NEW sample \in Samples, NEW reset \in BOOLEAN, DoCapture(sample, reset) PROVE Allowed
    BY <1>2, <2>2, CaptureRecords
  <2>3. CASE Reinstall
    BY <1>2, <2>3, ReinstallLoses
  <2>4. ASSUME NEW a \in acks, HandleAck(a) PROVE Allowed
    BY <1>2, <2>4, AckForgets
  <2>5. ASSUME NEW r \in responses, PanelReceive(r) PROVE Allowed
    BY <1>2, <2>5, ReceiveBooks
  <2>6. CASE UNCHANGED <<storeVars, ledger, captured>>
    <3>1. Logs = captured /\ Logs' = captured'
      BY <1>2, LogsAreCaptured
    <3> QED BY <2>6, <3>1 DEF Allowed, storeVars
  <2>7. CASE PullNext \/ PullLate \/ PanelAck \/ Lose \/ DoActivateAgain
    BY <2>6, <2>7 DEF PullNext, PullLate, PanelPull, PanelAck, Lose, DoActivateAgain, AlreadyActive, deliveryVars
  <2>8. CASE UNCHANGED vars
    BY <2>6, <2>8 DEF vars, deliveryVars
  <2> QED BY <1>2, <2>1, <2>2, <2>3, <2>4, <2>5, <2>7, <2>8 DEF Next
<1>3. ASSUME IInv, IInv', [Next]_vars PROVE [Promise!Next]_<<active, Logs, ledger, ackedThrough>>
  BY <1>2, <1>3 DEF Allowed
<1>4. Spec => Promise!Init /\ [][Promise!Next]_<<active, Logs, ledger, ackedThrough>>
  BY <1>1, <1>3, Inductive, PTL DEF Spec
<1> QED BY <1>4 DEF ImplementsExactlyOnce, Promise!Spec
=============================================================================
