------------------------ MODULE UsageCapture_proofs ------------------------
(***************************************************************************)
(* Proofs about UsageCapture: TypeOK, Accounting and NeverOverbills hold   *)
(* for every set of counters and callers, every number of stats queries    *)
(* and every bound.                                                        *)
(***************************************************************************)
EXTENDS UsageCapture, TLAPS

IInv == TypeOK /\ Accounting

-----------------------------------------------------------------------------
\* The store's operators.

\* A delta is a natural number: the counter bounds what it bills.
LEMMA DeltaType ==
  ASSUME TypeOK, NEW c \in Counters, NEW n \in Nat, NEW r \in BOOLEAN
  PROVE  /\ Delta(c, n, r) \in Nat
         /\ Delta(c, n, r) <= n
BY DEF TypeOK, StoreTypeOK, Payload, Delta

LEMMA DeltasType ==
  ASSUME TypeOK, NEW s, IsSample(s), NEW r \in BOOLEAN
  PROVE  /\ Deltas(s, r) \in Payload
         /\ AdvancedBaseline(s) \in Payload
         /\ BaselineOf(s) \in Payload
<1>1. \A c \in DOMAIN s : Delta(c, s[c], r) \in Nat
  BY DeltaType DEF IsSample
<1>2. Deltas(s, r) \in Payload
  BY <1>1 DEF Deltas, Payload, IsSample
<1>3. AdvancedBaseline(s) \in Payload
  BY DEF AdvancedBaseline, Payload, IsSample, TypeOK, StoreTypeOK
<1>4. BaselineOf(s) \in Payload
  BY DEF BaselineOf, Payload, IsSample
<1> QED BY <1>2, <1>3, <1>4

\* Capture keeps the store's types, whether or not it enqueues.
LEMMA CaptureType ==
  ASSUME TypeOK, NEW s, IsSample(s), NEW r \in BOOLEAN, Capture(s, r)
  PROVE  /\ StoreTypeOK'
         /\ baseline' = AdvancedBaseline(s)
         /\ active' = active
<1>1. Deltas(s, r) \in Payload /\ AdvancedBaseline(s) \in Payload
  BY DeltasType
<1>2. CASE UNCHANGED <<nextSequence, snapshots>>
  BY <1>1, <1>2 DEF Capture, TypeOK, StoreTypeOK
<1>3. CASE Enqueue(Deltas(s, r))
  BY <1>1, <1>3 DEF Capture, Enqueue, TypeOK, StoreTypeOK
<1> QED BY <1>1, <1>2, <1>3 DEF Capture

LEMMA AckType ==
  ASSUME TypeOK, NEW g, NEW n \in Nat, Ack(g, n)
  PROVE  StoreTypeOK' /\ UNCHANGED <<active, baseline>>
BY DEF Ack, TypeOK, StoreTypeOK

\* The counters of the rulesets, and what every module assumes of them.
LEMMA ScopeIsCounter ==
  ASSUME TypeOK
  PROVE  /\ scope # 0 => scope \in Forwarding
         /\ Forwarding \subseteq Counters
         /\ Forwarding \subseteq Nat \ {0}
         /\ \A n \in DOMAIN Queries : Queries[n] \subseteq CoreCounters
         /\ CoreCounters \subseteq Counters
BY StoreAssumption, CaptureAssumption DEF TypeOK, CoreCounters

\* At most one caller is sampling: while k is, the others have read nothing.
LEMMA OthersAreIdle ==
  ASSUME IInv, NEW k \in Callers, pc[k] # "idle"
  PROVE  /\ coreMu = k
         /\ \A j \in Callers \ {k} : /\ pc[j] = "idle"
                                     /\ DOMAIN sample[j] = {}
                                     /\ resetSince[j] = {}
BY DEF IInv, Accounting, SamplingHoldsLock, SamplesAreInFlight

LEMMA AllIdle ==
  ASSUME IInv, coreMu = Free
  PROVE  /\ \A j \in Callers : /\ pc[j] = "idle"
                               /\ DOMAIN sample[j] = {}
                               /\ resetSince[j] = {}
BY CaptureAssumption DEF IInv, Accounting, SamplingHoldsLock, SamplesAreInFlight, Callers, Free

-----------------------------------------------------------------------------
\* A caller that gives up, whatever it has read, leaves the accounts alone.
LEMMA ReturnStep ==
  ASSUME IInv, NEW k \in Callers, pc[k] # "idle", Return(k),
         UNCHANGED <<storeVars, usageCoreRestarted, coreVars, forwardingVars, value, legacy,
                     carried, billed, stale>>
  PROVE  IInv'
<1> USE DEF IInv, Accounting, Return, storeVars, coreVars, forwardingVars
<1>1. TypeOK'
  BY DEF TypeOK, StoreTypeOK, Phases, EmptySample, IsSample, Callers, Free
<1>2. SamplingHoldsLock'
  BY DEF SamplingHoldsLock, TypeOK, Free
<1>3. SamplesAreInFlight'
  BY DEF SamplesAreInFlight, TypeOK, EmptySample
<1>4. MarkerMeansOldBaselines'
  BY DEF MarkerMeansOldBaselines
<1>5. FreshScopes'
  BY ScopeIsCounter DEF FreshScopes, TypeOK, Payload
<1>6. SamplesAreCurrent'
  BY DEF SamplesAreCurrent, TypeOK, EmptySample, Delta
<1>7. Accounted'
  BY DEF Accounted, Live, Owed
<1> QED BY <1>1, <1>2, <1>3, <1>4, <1>5, <1>6, <1>7

-----------------------------------------------------------------------------
\* The callers.

LEMMA BeginStep ==
  ASSUME IInv, NEW k \in Callers, Begin(k)
  PROVE  IInv'
<1> USE AllIdle DEF IInv, Accounting, Begin, Lock, Goto, storeVars, coreVars, forwardingVars, historyVars
<1>1. TypeOK'
  BY DEF TypeOK, StoreTypeOK, Phases, IsSample
<1>2. SamplingHoldsLock'
  BY DEF SamplingHoldsLock, TypeOK
<1>3. SamplesAreInFlight'
  BY DEF SamplesAreInFlight, TypeOK
<1>4. MarkerMeansOldBaselines'
  BY DEF MarkerMeansOldBaselines
<1>5. FreshScopes'
  BY DEF FreshScopes
<1>6. SamplesAreCurrent'
  BY DEF SamplesAreCurrent
<1>7. Accounted'
  BY DEF Accounted, Live, Owed
<1> QED BY <1>1, <1>2, <1>3, <1>4, <1>5, <1>6, <1>7

LEMMA SampleForwardingStep ==
  ASSUME IInv, NEW k \in Callers, SampleForwarding(k)
  PROVE  IInv'
<1> DEFINE read == IF ForwardingReported THEN {scope} ELSE {}
<1> USE OthersAreIdle, ScopeIsCounter
    DEF IInv, Accounting, SampleForwarding, Goto, storeVars, coreVars, forwardingVars
<1>0. read \subseteq Forwarding /\ read \subseteq Counters /\ \A c \in read : value[c] \in Nat
  BY DEF ForwardingReported, TypeOK, Payload
<1>1. TypeOK'
  <2>1. ForwardingReported \in BOOLEAN
    BY DEF ForwardingReported, TypeOK
  <2>3. DOMAIN sample' = Callers /\ \A j \in Callers : IsSample(sample'[j])
    BY <1>0 DEF TypeOK, IsSample
  <2> QED BY <2>1, <2>3 DEF TypeOK, StoreTypeOK, Phases
<1>2. SamplingHoldsLock'
  BY DEF SamplingHoldsLock, TypeOK
<1>3. SamplesAreInFlight'
  BY DEF SamplesAreInFlight, TypeOK
<1>4. MarkerMeansOldBaselines'
  BY DEF MarkerMeansOldBaselines
<1>5. FreshScopes'
  BY DEF FreshScopes, TypeOK, Payload
<1>6. SamplesAreCurrent'
  <2>1. resetSince[k] = {}
    BY DEF SamplesAreInFlight
  <2>2. \A c \in DOMAIN sample'[k] : c = scope /\ c \in Forwarding /\ sample'[k][c] = value[c] /\ value[c] \in Nat
    BY <1>0 DEF TypeOK
  <2>3. \A c \in DOMAIN sample'[k] : active /\ ~stale[c] => baseline[c] <= sample'[k][c]
    BY <2>2 DEF Accounted, Live, Owed
  <2>4. \A j \in Callers \ {k} : DOMAIN sample'[j] = {}
    BY DEF TypeOK
  <2>5. k \in DOMAIN sample /\ resetSince'[k] = {}
    BY <2>1 DEF TypeOK
  <2>6. UNCHANGED <<active, baseline, stale, value, scope>>
    OBVIOUS
  <2> QED BY ONLY <2>2, <2>3, <2>4, <2>5, <2>6 DEF SamplesAreCurrent, Delta
<1>7. Accounted'
  BY DEF Accounted, Live, Owed
<1> QED BY <1>1, <1>2, <1>3, <1>4, <1>5, <1>6, <1>7

LEMMA QueryCoreStep ==
  ASSUME IInv, NEW k \in Callers, QueryCore(k)
  PROVE  IInv'
<1> USE OthersAreIdle, ScopeIsCounter
    DEF IInv, Accounting, QueryCore, Goto, storeVars, coreVars, forwardingVars
<1> PICK listed \in SUBSET Queries[asked[k] + 1] :
       /\ sample' = [sample EXCEPT ![k] =
                       [c \in DOMAIN sample[k] \cup listed |->
                          IF c \in listed THEN value[c] ELSE sample[k][c]]]
       /\ resetSince' = [resetSince EXCEPT ![k] = @ \ listed]
  OBVIOUS
<1>b. asked[k] + 1 \in DOMAIN Queries
  BY CaptureAssumption DEF TypeOK
<1>0. /\ listed \subseteq CoreCounters /\ listed \subseteq Counters
      /\ \A c \in listed : value[c] \in Nat
  BY <1>b DEF TypeOK, Payload
<1>a. running /\ coreComplete[k]
  BY DEF SamplesAreInFlight
<1>1. TypeOK'
  <2>1. DOMAIN sample' = Callers /\ \A j \in Callers : IsSample(sample'[j])
    BY <1>0 DEF TypeOK, IsSample
  <2>2. asked' \in [Callers -> 0..Len(Queries)]
    BY CaptureAssumption DEF TypeOK
  <2> QED BY <2>1, <2>2 DEF TypeOK, StoreTypeOK, Phases
<1>2. SamplingHoldsLock'
  BY DEF SamplingHoldsLock, TypeOK
<1>3. SamplesAreInFlight'
  BY <1>a DEF SamplesAreInFlight, TypeOK
<1>4. MarkerMeansOldBaselines'
  BY DEF MarkerMeansOldBaselines
<1>5. FreshScopes'
  BY DEF FreshScopes
<1>6. SamplesAreCurrent'
  <2> SUFFICES ASSUME NEW c \in DOMAIN sample'[k]
               PROVE  /\ IF c \in Forwarding THEN c = scope ELSE running /\ coreComplete[k]
                      /\ c \notin resetSince'[k] =>
                           /\ sample'[k][c] <= value[c]
                           /\ active /\ ~stale[c] => baseline[c] <= sample'[k][c]
                      /\ c \in resetSince'[k] =>
                           /\ stale[c]
                           /\ active =>
                                billed[c] + Delta(c, sample'[k][c], usageCoreRestarted) + value[c] <= carried[c]
    <3>1. \A j \in Callers \ {k} : DOMAIN sample'[j] = {}
      BY DEF TypeOK
    <3> QED BY <3>1 DEF SamplesAreCurrent, Delta
  <2>1. CASE c \in listed
    <3>1. c \in CoreCounters /\ c \in Counters /\ c \notin Forwarding /\ sample'[k][c] = value[c] /\ value[c] \in Nat
      BY <1>0, <2>1 DEF TypeOK, CoreCounters
    <3>2. c \notin resetSince'[k]
      BY <2>1 DEF TypeOK
    <3>3. active /\ ~stale[c] => baseline[c] <= value[c]
      BY <1>a, <3>1 DEF Accounted, Live, Owed
    <3> QED BY <1>a, <3>1, <3>2, <3>3
  <2>2. CASE c \notin listed
    <3>1. c \in DOMAIN sample[k] /\ sample'[k][c] = sample[k][c] /\ (c \in resetSince'[k] <=> c \in resetSince[k])
      BY <2>2 DEF TypeOK
    <3> QED BY <3>1 DEF SamplesAreCurrent
  <2> QED BY <2>1, <2>2
<1>7. Accounted'
  BY DEF Accounted, Live, Owed
<1> QED BY <1>1, <1>2, <1>3, <1>4, <1>5, <1>6, <1>7

LEMMA QueryCoreFailsStep ==
  ASSUME IInv, NEW k \in Callers, QueryCoreFails(k)
  PROVE  IInv'
<1> USE OthersAreIdle
    DEF IInv, Accounting, QueryCoreFails, Goto, storeVars, coreVars, forwardingVars, historyVars
<1>1. TypeOK'
  <2>1. DOMAIN sample' = Callers /\ \A j \in Callers : IsSample(sample'[j])
    BY DEF TypeOK, IsSample
  <2>2. asked' \in [Callers -> 0..Len(Queries)]
    <3>1. 0 \in 0..Len(Queries)
      BY CaptureAssumption
    <3> QED BY <3>1 DEF TypeOK
  <2>3. pc' \in [Callers -> Phases] /\ coreComplete' \in [Callers -> BOOLEAN]
    BY DEF TypeOK, Phases
  <2> QED BY <2>1, <2>2, <2>3 DEF TypeOK, StoreTypeOK
<1>2. SamplingHoldsLock'
  BY DEF SamplingHoldsLock, TypeOK
<1>3. SamplesAreInFlight'
  BY DEF SamplesAreInFlight, TypeOK
<1>4. MarkerMeansOldBaselines'
  BY DEF MarkerMeansOldBaselines
<1>5. FreshScopes'
  BY DEF FreshScopes
<1>6. SamplesAreCurrent'
  <2>1. \A c \in DOMAIN sample'[k] : c \in DOMAIN sample[k] /\ c \in Forwarding /\ sample'[k][c] = sample[k][c]
    BY DEF TypeOK
  <2> QED BY <2>1 DEF SamplesAreCurrent, TypeOK, Delta
<1>7. Accounted'
  BY DEF Accounted, Live, Owed
<1> QED BY <1>1, <1>2, <1>3, <1>4, <1>5, <1>6, <1>7

\* AfterCapture forgets the sample and leaves the lock with its owner.
LEMMA AfterCaptureStep ==
  ASSUME IInv, NEW k \in Callers, pc[k] = "commit", k # "activate", AfterCapture(k),
         UNCHANGED running
  PROVE  /\ coreMu' \in Callers \cup {Free}
         /\ pc' \in [Callers -> Phases]
         /\ asked' \in [Callers -> 0..Len(Queries)]
         /\ DOMAIN sample' = Callers /\ \A j \in Callers : IsSample(sample[j])'
         /\ capturing' \in [Callers -> BOOLEAN]
         /\ coreComplete' \in [Callers -> BOOLEAN]
         /\ resetSince' \in [Callers -> SUBSET Counters]
         /\ \A j \in Callers : DOMAIN sample'[j] = {} /\ resetSince'[j] = {}
         /\ SamplingHoldsLock'
         /\ SamplesAreInFlight'
<1> USE OthersAreIdle DEF IInv, Accounting
<1>1. CASE k = "sync"
  <2> USE <1>1 DEF AfterCapture, Goto
  <2>1. /\ pc' = [pc EXCEPT ![k] = "apply"]
        /\ UNCHANGED coreMu
        /\ asked' = [asked EXCEPT ![k] = 0]
        /\ capturing' = [capturing EXCEPT ![k] = FALSE]
        /\ coreComplete' = [coreComplete EXCEPT ![k] = FALSE]
        /\ sample' = [sample EXCEPT ![k] = EmptySample]
        /\ resetSince' = [resetSince EXCEPT ![k] = {}]
    OBVIOUS
  <2>2. \A j \in Callers : DOMAIN sample'[j] = {} /\ resetSince'[j] = {}
    BY <2>1 DEF TypeOK, EmptySample
  <2>3. SamplingHoldsLock' /\ SamplesAreInFlight'
    BY <2>1, <2>2 DEF TypeOK, SamplingHoldsLock, SamplesAreInFlight
  <2>4. DOMAIN sample' = Callers /\ \A j \in Callers : IsSample(sample[j])'
    BY <2>1, <2>2 DEF TypeOK, IsSample
  <2>5. asked' \in [Callers -> 0..Len(Queries)]
    <3>1. 0 \in 0..Len(Queries)
      BY CaptureAssumption
    <3> QED BY <2>1, <3>1 DEF TypeOK
  <2>6. /\ capturing' \in [Callers -> BOOLEAN]
        /\ coreComplete' \in [Callers -> BOOLEAN]
    BY <2>1 DEF TypeOK
  <2>7. /\ coreMu' \in Callers \cup {Free}
        /\ pc' \in [Callers -> Phases]
        /\ resetSince' \in [Callers -> SUBSET Counters]
    BY <2>1 DEF TypeOK, Phases
  <2> QED BY <2>2, <2>3, <2>4, <2>5, <2>6, <2>7
<1>2. CASE k # "sync"
  <2> USE <1>2 DEF AfterCapture, Return
  <2>2. \A j \in Callers : DOMAIN sample'[j] = {} /\ resetSince'[j] = {}
    BY DEF TypeOK, EmptySample
  <2>3. SamplingHoldsLock'
    BY DEF TypeOK, SamplingHoldsLock, Free
  <2>4. SamplesAreInFlight'
    <3>1. \A j \in Callers : pc'[j] = "idle"
      BY DEF TypeOK
    <3> QED BY <2>2, <3>1 DEF SamplesAreInFlight
  <2>5. DOMAIN sample' = Callers /\ \A j \in Callers : IsSample(sample[j])'
    BY <2>2 DEF TypeOK, IsSample
  <2>6. /\ coreMu' \in Callers \cup {Free}
        /\ pc' \in [Callers -> Phases]
    BY DEF TypeOK, Phases
  <2>9. asked' \in [Callers -> 0..Len(Queries)]
    <3>1. 0 \in 0..Len(Queries)
      BY CaptureAssumption
    <3> QED BY <3>1 DEF TypeOK
  <2>7. /\ capturing' \in [Callers -> BOOLEAN]
        /\ coreComplete' \in [Callers -> BOOLEAN]
    BY DEF TypeOK
  <2>8. resetSince' \in [Callers -> SUBSET Counters]
    <3>1. resetSince \in [Callers -> SUBSET Counters]
      BY DEF TypeOK
    <3>2. resetSince' = [resetSince EXCEPT ![k] = {}]
      OBVIOUS
    <3> HIDE DEF AfterCapture, Return, IInv, Accounting
    <3> QED BY <3>1, <3>2
  <2> QED BY <2>2, <2>3, <2>4, <2>5, <2>6, <2>7, <2>8, <2>9
<1> QED BY <1>1, <1>2

\* What one committed delta does to one account.
LEMMA CommittedDelta ==
  ASSUME IInv, active, NEW k \in Callers, NEW c \in DOMAIN sample[k], c \in Counters
  PROVE  LET d == Delta(c, sample[k][c], CoreRestarted(k))
         IN  /\ c \in resetSince[k] => billed[c] + d + value[c] <= carried[c]
             /\ c \notin resetSince[k] =>
                  /\ sample[k][c] <= value[c]
                  /\ billed[c] + d + (value[c] - sample[k][c]) <= carried[c]
<1> USE DEF IInv, Accounting
<1>1. /\ value[c] \in Nat /\ baseline[c] \in Nat /\ billed[c] \in Nat /\ carried[c] \in Nat
      /\ sample[k][c] \in Nat /\ stale[c] \in BOOLEAN
  BY DEF TypeOK, StoreTypeOK, Payload, IsSample
<1>2. Live(c)
  BY DEF SamplesAreCurrent, Live
<1>3. Owed(c)
  BY <1>2 DEF Accounted
<1>4. c \notin Forwarding => coreComplete[k] /\ c \in CoreCounters
  BY DEF SamplesAreCurrent, CoreCounters
<1>5. Delta(c, sample[k][c], CoreRestarted(k)) = Delta(c, sample[k][c], usageCoreRestarted)
  BY <1>4 DEF Delta, CoreRestarted
<1>6. c \in resetSince[k] => billed[c] + Delta(c, sample[k][c], usageCoreRestarted) + value[c] <= carried[c]
  BY DEF SamplesAreCurrent
<1>7. ASSUME c \notin resetSince[k]
      PROVE  /\ sample[k][c] <= value[c]
             /\ billed[c] + Delta(c, sample[k][c], usageCoreRestarted) + (value[c] - sample[k][c]) <= carried[c]
  <2>1. sample[k][c] <= value[c] /\ (~stale[c] => baseline[c] <= sample[k][c])
    BY <1>7 DEF SamplesAreCurrent
  <2>2. usageCoreRestarted /\ c \notin Forwarding => stale[c]
    BY <1>4 DEF MarkerMeansOldBaselines
  <2> QED BY <1>1, <1>3, <2>1, <2>2 DEF Owed, Delta
<1> QED BY <1>5, <1>6, <1>7

LEMMA CommitCaptureStep ==
  ASSUME IInv, NEW k \in Callers, CommitCapture(k)
  PROVE  IInv'
<1> USE AfterCaptureStep DEF CommitCapture, coreVars, forwardingVars
<1> DEFINE r == CoreRestarted(k)
<1>t. r \in BOOLEAN /\ IsSample(sample[k]) /\ TypeOK
  BY DEF IInv, TypeOK, CoreRestarted
<1>s. StoreTypeOK' /\ baseline' = AdvancedBaseline(sample[k]) /\ active' = active /\ active
  BY <1>t, CaptureType DEF Capture
<1>d. Deltas(sample[k], r) \in Payload
  BY <1>t, DeltasType
<1>f. UNCHANGED <<running, scope, applies, value, carried>>
  OBVIOUS
<1>1. TypeOK'
  <2>1. billed' \in Payload
    BY <1>t, <1>d DEF TypeOK, Payload
  <2>2. stale' \in [Counters -> BOOLEAN]
    <3>1. ASSUME NEW c \in Counters
          PROVE  (IF c \in DOMAIN sample[k] THEN c \in resetSince[k] ELSE stale[c]) \in BOOLEAN
      <4>1. CASE c \in DOMAIN sample[k]
        BY <4>1
      <4>2. CASE c \notin DOMAIN sample[k]
        BY <1>t, <4>2 DEF TypeOK
      <4> QED BY <4>1, <4>2
    <3> QED BY <3>1, Zenon
  <2>3. usageCoreRestarted' \in BOOLEAN
    BY <1>t DEF TypeOK, MarkerAfterCommit
  <2> QED BY <1>t, <1>s, <2>1, <2>2, <2>3 DEF TypeOK
<1>2. SamplingHoldsLock'
  OBVIOUS
<1>3. SamplesAreInFlight'
  OBVIOUS
<1>4. MarkerMeansOldBaselines'
  <2>1. usageCoreRestarted' => usageCoreRestarted /\ ~coreComplete[k]
    BY DEF MarkerAfterCommit
  <2>2. ~coreComplete[k] => \A c \in CoreCounters : c \notin DOMAIN sample[k]
    BY DEF IInv, Accounting, SamplesAreCurrent, CoreCounters
  <2> QED BY <1>s, <2>1, <2>2 DEF MarkerMeansOldBaselines, CoreCounters, IInv, Accounting
<1>5. FreshScopes'
  BY <1>f DEF FreshScopes, IInv, Accounting
<1>6. SamplesAreCurrent'
  BY DEF SamplesAreCurrent
<1>7. Accounted'
  <2> SUFFICES ASSUME NEW c \in Counters
               PROVE  billed'[c] <= carried[c] /\ (Live(c) => Owed(c)')
    BY <1>f, <1>s DEF Accounted, Live
  <2>1. /\ value[c] \in Nat /\ baseline[c] \in Nat /\ billed[c] \in Nat /\ carried[c] \in Nat
    BY <1>t DEF TypeOK, StoreTypeOK, Payload
  <2>2. CASE c \in DOMAIN sample[k]
    <3> DEFINE d == Delta(c, sample[k][c], r)
    <3>1. /\ sample[k][c] \in Nat /\ d \in Nat
      BY <1>t, <2>2, DeltaType DEF IsSample
    <3>2. billed'[c] = billed[c] + d /\ baseline'[c] = sample[k][c] /\ (stale'[c] <=> c \in resetSince[k])
      BY <1>s, <2>2 DEF Deltas, AdvancedBaseline
    <3>3. /\ c \in resetSince[k] => billed[c] + d + value[c] <= carried[c]
          /\ c \notin resetSince[k] =>
               /\ sample[k][c] <= value[c]
               /\ billed[c] + d + (value[c] - sample[k][c]) <= carried[c]
      BY <1>s, <2>2, CommittedDelta
    <3> HIDE DEF d
    <3> QED BY <1>f, <2>1, <3>1, <3>2, <3>3 DEF Owed
  <2>3. CASE c \notin DOMAIN sample[k]
    <3>1. billed'[c] = billed[c] /\ baseline'[c] = baseline[c] /\ stale'[c] = stale[c]
      BY <1>s, <2>1, <2>3 DEF Deltas, AdvancedBaseline
    <3>2. billed[c] <= carried[c] /\ (Live(c) => Owed(c))
      BY <1>s DEF IInv, Accounting, Accounted
    <3> QED BY <1>f, <3>1, <3>2 DEF Owed
  <2> QED BY <2>2, <2>3
<1> QED BY <1>1, <1>2, <1>3, <1>4, <1>5, <1>6, <1>7 DEF IInv, Accounting

LEMMA CommitNothingStep ==
  ASSUME IInv, NEW k \in Callers, CommitNothing(k)
  PROVE  IInv'
<1> USE AfterCaptureStep DEF CommitNothing, coreVars, forwardingVars, storeVars
<1>1. TypeOK'
  BY DEF IInv, TypeOK, StoreTypeOK
<1>2. SamplingHoldsLock' /\ SamplesAreInFlight'
  OBVIOUS
<1>4. MarkerMeansOldBaselines'
  BY DEF IInv, Accounting, MarkerMeansOldBaselines
<1>5. FreshScopes'
  BY DEF IInv, Accounting, FreshScopes
<1>6. SamplesAreCurrent'
  BY DEF SamplesAreCurrent
<1>7. Accounted'
  BY DEF IInv, Accounting, Accounted, Live, Owed
<1> QED BY <1>1, <1>2, <1>4, <1>5, <1>6, <1>7 DEF IInv, Accounting

LEMMA CommitActivateStep ==
  ASSUME IInv, CommitActivate
  PROVE  IInv'
<1> DEFINE k == "activate"
<1>k. k \in Callers
  BY DEF Callers
<1> USE <1>k, OthersAreIdle, ScopeIsCounter
    DEF CommitActivate, Activate, Return, coreVars, forwardingVars
<1>t. TypeOK /\ IsSample(sample[k])
  BY DEF IInv, TypeOK
<1>c. \A c \in Counters : carried'[c] \in Nat
  <2> SUFFICES ASSUME NEW c \in Counters PROVE CarriedSince(k)[c] \in Nat
    OBVIOUS
  <2>1. value[c] \in Nat
    BY <1>t DEF TypeOK, Payload
  <2>2. c \in DOMAIN sample[k] /\ c \notin resetSince[k] => sample[k][c] \in Nat /\ sample[k][c] <= value[c]
    BY <1>t DEF IInv, Accounting, SamplesAreCurrent, IsSample
  <2> QED BY <2>1, <2>2 DEF CarriedSince
<1>1. TypeOK'
  <2>1. StoreTypeOK'
    BY <1>t, DeltasType DEF StoreTypeOK, EmptyQueue, Payload
  <2>2. carried' \in Payload /\ billed' \in Payload
    BY <1>c DEF CarriedSince, Payload, Zero
  <2>3. stale' \in [Counters -> BOOLEAN]
    OBVIOUS
  <2>4. /\ coreMu' \in Callers \cup {Free}
        /\ pc' \in [Callers -> Phases]
        /\ asked' \in [Callers -> 0..Len(Queries)]
        /\ DOMAIN sample' = Callers /\ \A j \in Callers : IsSample(sample[j])'
        /\ capturing' \in [Callers -> BOOLEAN]
        /\ coreComplete' \in [Callers -> BOOLEAN]
        /\ resetSince' \in [Callers -> SUBSET Counters]
    BY <1>t DEF TypeOK, Phases, IsSample, EmptySample
  <2> QED BY <1>t, <2>1, <2>2, <2>3, <2>4 DEF TypeOK
<1>2. SamplingHoldsLock'
  BY <1>t DEF SamplingHoldsLock, TypeOK, IInv, Accounting
<1>3. SamplesAreInFlight'
  BY <1>t DEF SamplesAreInFlight, TypeOK, EmptySample, IInv, Accounting
<1>4. MarkerMeansOldBaselines'
  BY DEF MarkerMeansOldBaselines, IInv, Accounting
<1>5. FreshScopes'
  BY <1>t DEF FreshScopes, IInv, Accounting, TypeOK, Payload
<1>6. SamplesAreCurrent'
  BY <1>t DEF SamplesAreCurrent, TypeOK, EmptySample
<1>7. Accounted'
  <2> SUFFICES ASSUME NEW c \in Counters
               PROVE  billed'[c] <= carried'[c] /\ (Live(c) => Owed(c)')
    BY DEF Accounted, Live
  <2>1. value[c] \in Nat /\ carried'[c] \in Nat /\ billed'[c] = 0 /\ value' = value
    BY <1>t, <1>c DEF TypeOK, Payload, Zero
  <2>2. (stale'[c] <=> c \in resetSince[k]) /\ baseline'[c] = (IF c \in DOMAIN sample[k] THEN sample[k][c] ELSE 0)
    BY DEF BaselineOf
  <2>3. CASE c \in DOMAIN sample[k] /\ c \notin resetSince[k]
    <3>1. sample[k][c] \in Nat /\ sample[k][c] <= value[c]
      BY <1>t, <2>3 DEF IInv, Accounting, SamplesAreCurrent, IsSample
    <3>2. carried'[c] = value[c] - sample[k][c]
      BY <2>3 DEF CarriedSince
    <3> QED BY <2>1, <2>2, <2>3, <3>1, <3>2 DEF Owed
  <2>4. CASE c \in DOMAIN sample[k] /\ c \in resetSince[k]
    <3>1. carried'[c] = value[c]
      BY <2>4 DEF CarriedSince
    <3> QED BY <2>1, <2>2, <2>4, <3>1 DEF Owed
  <2>5. CASE c \notin DOMAIN sample[k] /\ c \in CoreCounters
    <3>1. Live(c) => carried'[c] = value[c]
      BY <2>5 DEF CarriedSince, Live, CoreCounters
    <3> QED BY <2>1, <2>2, <2>5, <3>1 DEF Owed
  <2>6. CASE c \notin DOMAIN sample[k] /\ c \in Forwarding
    <3>1. c = scope => carried'[c] = value[c]
      BY <2>6 DEF CarriedSince
    <3>2. Live(c) => value[c] = 0 \/ carried'[c] = value[c]
      BY <2>6, <3>1 DEF Live, IInv, Accounting, FreshScopes
    <3>3. baseline'[c] = 0 /\ value'[c] = value[c] /\ billed'[c] = 0 /\ carried'[c] \in Nat
      BY <2>1, <2>2, <2>6
    <3> HIDE DEF CommitActivate, k
    <3> QED BY <2>1, <3>2, <3>3 DEF Owed
  <2> QED BY <2>3, <2>4, <2>5, <2>6 DEF CoreCounters
<1> QED BY <1>1, <1>2, <1>3, <1>4, <1>5, <1>6, <1>7 DEF IInv, Accounting

-----------------------------------------------------------------------------
\* Counters that start again at zero.

LEMMA ResetCountersType ==
  ASSUME TypeOK, NEW S, ResetCounters(S)
  PROVE  /\ value' \in Payload /\ stale' \in [Counters -> BOOLEAN]
         /\ \A c \in Counters : value'[c] = IF c \in S THEN 0 ELSE value[c]
         /\ \A c \in Counters : stale'[c] <=> stale[c] \/ c \in S
BY DEF ResetCounters, TypeOK, Payload

\* A reset makes no account short: the counter is stale and owes nothing.
LEMMA ResetKeepsAccounts ==
  ASSUME IInv, NEW S, ResetCounters(S),
         UNCHANGED <<storeVars, carried, billed, scope, applies>>,
         (running' => running) \/ CoreCounters \subseteq S
  PROVE  /\ Accounted'
         /\ \A c \in Forwarding : c > applies' => value'[c] = 0
<1> USE DEF IInv, Accounting
<1>1. /\ \A c \in Counters : value'[c] = IF c \in S THEN 0 ELSE value[c]
      /\ \A c \in Counters : stale'[c] <=> stale[c] \/ c \in S
  BY ResetCountersType
<1>2. ASSUME NEW c \in Counters, active, Live(c)'
      PROVE  Owed(c)'
  <2>1. billed[c] <= carried[c] /\ billed[c] \in Nat /\ carried[c] \in Nat
    BY <1>2 DEF Accounted, TypeOK, Payload
  <2>2. CASE c \in S
    <3>1. value'[c] = 0 /\ stale'[c] /\ billed'[c] = billed[c] /\ carried'[c] = carried[c]
      BY <1>1, <2>2
    <3> QED BY <2>1, <3>1 DEF Owed
  <2>3. CASE c \notin S
    <3>1. value'[c] = value[c] /\ (stale'[c] <=> stale[c]) /\ UNCHANGED <<billed, carried, baseline>>
      BY <1>1, <2>3 DEF storeVars
    <3>2. Live(c)
      BY <1>2, <2>3 DEF Live, CoreCounters
    <3>3. Owed(c)
      BY <1>2, <3>2 DEF Accounted
    <3> QED BY <3>1, <3>3 DEF Owed
  <2> QED BY <2>2, <2>3
<1>3. Accounted'
  BY <1>2 DEF Accounted, storeVars
<1>4. \A c \in Forwarding : c > applies' => value'[c] = 0
  BY <1>1, ScopeIsCounter DEF FreshScopes
<1> QED BY <1>3, <1>4

-----------------------------------------------------------------------------
\* Forwarding and the agent.

\* Whatever happens to the table, no account of a counter that may still be
\* sampled gets short, provided that nobody is sampling.
LEMMA ForwardingChange ==
  ASSUME IInv, UNCHANGED <<storeVars, carried, billed>>,
         running' => running,
         \/ NewScope \/ NoScope \/ ApplyFails \/ PersistFails
         \/ \E tableLost \in BOOLEAN : Restore(tableLost)
  PROVE  /\ value' \in Payload /\ stale' \in [Counters -> BOOLEAN]
         /\ applies' \in 0..MaxScopes /\ scope' \in 0..applies'
         /\ lastError' \in BOOLEAN /\ tableMatches' \in BOOLEAN
         /\ \A c \in Forwarding : c > applies' => value'[c] = 0
         /\ \A c \in Counters : stale[c] => stale'[c]
         /\ Accounted'
<1> USE DEF IInv, Accounting, storeVars
<1>1. CASE NewScope
  <2> USE <1>1 DEF NewScope
  <2>1. applies' \in 0..MaxScopes /\ scope' \in 0..applies'
    BY CaptureAssumption DEF TypeOK
  <2>2. \A c \in Counters : Live(c)' => Live(c)
    BY ScopeIsCounter DEF Live, TypeOK
  <2>3. Accounted'
    BY <2>2 DEF Accounted, Owed
  <2>4. \A c \in Forwarding : c > applies' => value'[c] = 0
    BY ScopeIsCounter DEF FreshScopes, TypeOK
  <2> QED BY <2>1, <2>3, <2>4 DEF TypeOK
<1>2. CASE NoScope
  <2> USE <1>2 DEF NoScope
  <2>1. \A c \in Counters : Live(c)' => Live(c)
    BY ScopeIsCounter DEF Live, TypeOK
  <2>2. Accounted'
    BY <2>1 DEF Accounted, Owed
  <2>3. \A c \in Forwarding : c > applies' => value'[c] = 0
    BY DEF FreshScopes
  <2>4. applies' \in 0..MaxScopes /\ scope' \in 0..applies'
    BY CaptureAssumption DEF TypeOK
  <2>5. value' \in Payload /\ stale' \in [Counters -> BOOLEAN] /\ lastError' \in BOOLEAN /\ tableMatches' \in BOOLEAN
    BY DEF TypeOK
  <2> QED BY <2>2, <2>3, <2>4, <2>5
<1>3. ASSUME lastError' \in BOOLEAN, tableMatches' \in BOOLEAN, UNCHANGED <<scope, applies, value, stale>>
      PROVE  /\ value' \in Payload /\ stale' \in [Counters -> BOOLEAN]
             /\ applies' \in 0..MaxScopes /\ scope' \in 0..applies'
             /\ \A c \in Forwarding : c > applies' => value'[c] = 0
             /\ \A c \in Counters : stale[c] => stale'[c]
             /\ Accounted'
  BY <1>3 DEF TypeOK, FreshScopes, Accounted, Live, Owed
<1>4. CASE PersistFails
  <2>1. CASE tableMatches' = FALSE /\ UNCHANGED <<value, stale>>
    BY <1>3, <1>4, <2>1 DEF PersistFails
  <2>2. CASE UNCHANGED tableMatches /\ ResetCounters({scope})
    <3>1. UNCHANGED <<scope, applies, tableMatches>> /\ lastError' = TRUE
      BY <1>4, <2>2 DEF PersistFails
    <3>2. /\ Accounted'
          /\ \A c \in Forwarding : c > applies' => value'[c] = 0
      BY <2>2, <3>1, ResetKeepsAccounts
    <3>3. /\ value' \in Payload /\ stale' \in [Counters -> BOOLEAN]
          /\ \A c \in Counters : stale[c] => stale'[c]
      BY <2>2, ResetCountersType
    <3> QED BY <3>1, <3>2, <3>3 DEF TypeOK
  <2> QED BY <1>4, <2>1, <2>2 DEF PersistFails
<1>5. CASE ApplyFails
  BY <1>3, <1>5 DEF ApplyFails, TypeOK
<1>6. CASE \E tableLost \in BOOLEAN : Restore(tableLost)
  BY <1>1, <1>3, <1>6 DEF Restore, TypeOK
<1> QED BY <1>1, <1>2, <1>4, <1>5, <1>6

LEMMA ForwardingApplyStep ==
  ASSUME IInv, ForwardingApply
  PROVE  IInv'
<1> DEFINE k == "sync"
<1>k. k \in Callers /\ "activate" \in Callers /\ k # "activate"
  BY DEF Callers
<1> USE <1>k, OthersAreIdle, ScopeIsCounter
    DEF ForwardingApply, Return, coreVars
<1>c. /\ value' \in Payload /\ stale' \in [Counters -> BOOLEAN]
      /\ applies' \in 0..MaxScopes /\ scope' \in 0..applies'
      /\ lastError' \in BOOLEAN /\ tableMatches' \in BOOLEAN
      /\ \A c \in Forwarding : c > applies' => value'[c] = 0
      /\ \A c \in Counters : stale[c] => stale'[c]
      /\ Accounted'
  BY ForwardingChange
<1>s. \A j \in Callers : DOMAIN sample'[j] = {} /\ resetSince'[j] = {} /\ pc'[j] = "idle"
  BY DEF IInv, TypeOK, EmptySample
<1>1. TypeOK'
  <2>1. DOMAIN sample' = Callers /\ \A j \in Callers : IsSample(sample[j])'
    BY <1>s DEF IInv, TypeOK, IsSample
  <2>2. 0 \in 0..Len(Queries)
    BY CaptureAssumption
  <2> QED BY <1>c, <2>1, <2>2 DEF IInv, TypeOK, StoreTypeOK, storeVars, Phases
<1>2. SamplingHoldsLock' /\ SamplesAreInFlight' /\ SamplesAreCurrent'
  BY <1>s DEF SamplingHoldsLock, SamplesAreInFlight, SamplesAreCurrent
<1>3. MarkerMeansOldBaselines'
  BY <1>c DEF IInv, Accounting, MarkerMeansOldBaselines, storeVars, CoreCounters
<1>4. FreshScopes'
  <2>1. scope' # 0 => scope' \in Counters
    BY <1>c, StoreAssumption, CaptureAssumption
  <2> QED BY <1>c, <2>1 DEF FreshScopes, Payload
<1> QED BY <1>c, <1>1, <1>2, <1>3, <1>4 DEF IInv, Accounting

LEMMA AgentRestartStep ==
  ASSUME IInv, NEW tableLost \in BOOLEAN, AgentRestart(tableLost)
  PROVE  IInv'
<1> USE ScopeIsCounter DEF AgentRestart
<1>c. /\ value' \in Payload /\ stale' \in [Counters -> BOOLEAN]
      /\ applies' \in 0..MaxScopes /\ scope' \in 0..applies'
      /\ lastError' \in BOOLEAN /\ tableMatches' \in BOOLEAN
      /\ \A c \in Forwarding : c > applies' => value'[c] = 0
      /\ Accounted'
  BY ForwardingChange
<1>s. \A j \in Callers : DOMAIN sample'[j] = {} /\ resetSince'[j] = {} /\ pc'[j] = "idle"
  BY DEF EmptySample
<1>1. TypeOK'
  <2>1. DOMAIN sample' = Callers /\ \A j \in Callers : IsSample(sample[j])'
    BY <1>s DEF IsSample
  <2>2. 0 \in 0..Len(Queries)
    BY CaptureAssumption
  <2> QED BY <1>c, <2>1, <2>2 DEF IInv, TypeOK, StoreTypeOK, storeVars, Phases
<1>2. SamplingHoldsLock' /\ SamplesAreInFlight' /\ SamplesAreCurrent'
  BY <1>s DEF SamplingHoldsLock, SamplesAreInFlight, SamplesAreCurrent
<1>3. MarkerMeansOldBaselines'
  BY DEF MarkerMeansOldBaselines
<1>4. FreshScopes'
  <2>1. scope' # 0 => scope' \in Counters
    BY <1>c, StoreAssumption, CaptureAssumption
  <2> QED BY <1>c, <2>1 DEF FreshScopes, Payload
<1> QED BY <1>c, <1>1, <1>2, <1>3, <1>4 DEF IInv, Accounting

-----------------------------------------------------------------------------
\* The core.

LEMMA StartRestartsStep ==
  ASSUME IInv, StartRestarts
  PROVE  IInv'
<1> USE AllIdle DEF StartRestarts, managerVars, forwardingVars
<1>r. /\ value' \in Payload /\ stale' \in [Counters -> BOOLEAN]
      /\ \A c \in Counters : value'[c] = IF c \in CoreCounters THEN 0 ELSE value[c]
      /\ \A c \in Counters : stale'[c] <=> stale[c] \/ c \in CoreCounters
      /\ Accounted'
      /\ \A c \in Forwarding : c > applies' => value'[c] = 0
  BY ResetCountersType, ResetKeepsAccounts DEF IInv
<1>1. TypeOK'
  BY <1>r DEF IInv, TypeOK, StoreTypeOK, storeVars, IsSample
<1>2. SamplingHoldsLock' /\ SamplesAreInFlight' /\ SamplesAreCurrent'
  BY DEF SamplingHoldsLock, SamplesAreInFlight, SamplesAreCurrent
<1>4. MarkerMeansOldBaselines'
  BY <1>r DEF IInv, Accounting, MarkerMeansOldBaselines, storeVars, CoreCounters
<1>5. FreshScopes'
  BY <1>r, ScopeIsCounter DEF IInv, TypeOK, FreshScopes, Payload
<1> QED BY <1>r, <1>1, <1>2, <1>4, <1>5 DEF IInv, Accounting

LEMMA RestartsUnmarkedStep ==
  ASSUME IInv, RestartsUnmarked
  PROVE  IInv'
<1> USE AllIdle DEF RestartsUnmarked, managerVars, forwardingVars
<1>r. /\ value' \in Payload /\ stale' \in [Counters -> BOOLEAN]
      /\ \A c \in Counters : value'[c] = IF c \in CoreCounters THEN 0 ELSE value[c]
      /\ \A c \in Counters : stale'[c] <=> stale[c] \/ c \in CoreCounters
      /\ Accounted'
      /\ \A c \in Forwarding : c > applies' => value'[c] = 0
  BY ResetCountersType, ResetKeepsAccounts DEF IInv
<1>1. TypeOK'
  BY <1>r DEF IInv, TypeOK, StoreTypeOK, storeVars, IsSample
<1>2. SamplingHoldsLock' /\ SamplesAreInFlight' /\ SamplesAreCurrent'
  BY DEF SamplingHoldsLock, SamplesAreInFlight, SamplesAreCurrent
<1>4. MarkerMeansOldBaselines'
  BY <1>r DEF IInv, Accounting, MarkerMeansOldBaselines, storeVars, CoreCounters
<1>5. FreshScopes'
  BY <1>r, ScopeIsCounter DEF IInv, TypeOK, FreshScopes, Payload
<1> QED BY <1>r, <1>1, <1>2, <1>4, <1>5 DEF IInv, Accounting

LEMMA RestartFailsStep ==
  ASSUME IInv, RestartFails
  PROVE  IInv'
<1> USE AllIdle DEF RestartFails, managerVars, forwardingVars
<1>r. /\ value' \in Payload /\ stale' \in [Counters -> BOOLEAN]
      /\ \A c \in Counters : stale[c] => stale'[c]
      /\ Accounted'
      /\ \A c \in Forwarding : c > applies' => value'[c] = 0
  <2>1. CASE UNCHANGED <<value, stale>>
    BY <2>1 DEF IInv, TypeOK, Accounting, Accounted, Live, Owed, FreshScopes, storeVars
  <2>2. CASE ResetCounters(CoreCounters)
    BY <2>2, ResetCountersType, ResetKeepsAccounts DEF IInv
  <2> QED BY <2>1, <2>2
<1>1. TypeOK'
  BY <1>r DEF IInv, TypeOK, StoreTypeOK, storeVars, IsSample
<1>2. SamplingHoldsLock' /\ SamplesAreInFlight' /\ SamplesAreCurrent'
  BY DEF SamplingHoldsLock, SamplesAreInFlight, SamplesAreCurrent
<1>4. MarkerMeansOldBaselines'
  BY <1>r DEF IInv, Accounting, MarkerMeansOldBaselines, storeVars, CoreCounters
<1>5. FreshScopes'
  BY <1>r, ScopeIsCounter DEF IInv, TypeOK, FreshScopes, Payload
<1> QED BY <1>r, <1>1, <1>2, <1>4, <1>5 DEF IInv, Accounting

LEMMA StopStep ==
  ASSUME IInv, Stop
  PROVE  IInv'
<1> USE AllIdle DEF IInv, Accounting, Stop, storeVars, managerVars, coreVars, forwardingVars, historyVars
<1>1. TypeOK'
  BY DEF TypeOK, StoreTypeOK, Payload, IsSample
<1>2. SamplingHoldsLock'
  BY DEF SamplingHoldsLock
<1>3. SamplesAreInFlight'
  BY DEF SamplesAreInFlight
<1>4. MarkerMeansOldBaselines'
  BY DEF MarkerMeansOldBaselines
<1>5. FreshScopes'
  BY ScopeIsCounter DEF FreshScopes, TypeOK, Payload, CoreCounters
<1>6. SamplesAreCurrent'
  BY DEF SamplesAreCurrent, TypeOK, Delta
<1>7. Accounted'
  BY DEF Accounted, Live, Owed, TypeOK, StoreTypeOK, Payload, CoreCounters
<1> QED BY <1>1, <1>2, <1>3, <1>4, <1>5, <1>6, <1>7

LEMMA CoreCrashesStep ==
  ASSUME IInv, CoreCrashes
  PROVE  IInv'
<1> USE ScopeIsCounter DEF IInv, Accounting, CoreCrashes, storeVars, managerVars, coreVars, forwardingVars, historyVars
<1>1. TypeOK'
  BY DEF TypeOK, StoreTypeOK, Payload, IsSample
<1>2. SamplingHoldsLock'
  BY DEF SamplingHoldsLock
<1>3. SamplesAreInFlight'
  BY DEF SamplesAreInFlight
<1>4. MarkerMeansOldBaselines'
  BY DEF MarkerMeansOldBaselines
<1>5. FreshScopes'
  BY ScopeIsCounter DEF FreshScopes, TypeOK, Payload, CoreCounters
<1>6. SamplesAreCurrent'
  BY DEF SamplesAreCurrent, TypeOK, Delta
<1>7. Accounted'
  BY DEF Accounted, Live, Owed, TypeOK, StoreTypeOK, Payload, CoreCounters
<1> QED BY <1>1, <1>2, <1>3, <1>4, <1>5, <1>6, <1>7

LEMMA CoreHangsStep ==
  ASSUME IInv, CoreHangs
  PROVE  IInv'
<1> USE ScopeIsCounter DEF IInv, Accounting, CoreHangs, storeVars, managerVars, coreVars, forwardingVars, historyVars
<1>1. TypeOK'
  BY DEF TypeOK, StoreTypeOK, Payload, IsSample
<1>2. SamplingHoldsLock'
  BY DEF SamplingHoldsLock
<1>3. SamplesAreInFlight'
  BY DEF SamplesAreInFlight
<1>4. MarkerMeansOldBaselines'
  BY DEF MarkerMeansOldBaselines
<1>5. FreshScopes'
  BY ScopeIsCounter DEF FreshScopes, TypeOK, Payload, CoreCounters
<1>6. SamplesAreCurrent'
  BY DEF SamplesAreCurrent, TypeOK, Delta
<1>7. Accounted'
  BY DEF Accounted, Live, Owed, TypeOK, StoreTypeOK, Payload, CoreCounters
<1> QED BY <1>1, <1>2, <1>3, <1>4, <1>5, <1>6, <1>7

LEMMA TrafficStep ==
  ASSUME IInv, NEW x \in Counters, Traffic(x)
  PROVE  IInv'
<1> USE ScopeIsCounter
    DEF IInv, Accounting, Traffic, storeVars, managerVars, coreVars, forwardingVars
<1>t. /\ \A c \in Counters : /\ value[c] \in Nat /\ carried[c] \in Nat /\ billed[c] \in Nat
                              /\ baseline[c] \in Nat
      /\ value'[x] = value[x] + 1
      /\ \A c \in Counters : c # x => value'[c] = value[c] /\ carried'[c] = carried[c]
      /\ active => carried'[x] = carried[x] + 1
      /\ ~active => carried'[x] = carried[x]
  BY DEF TypeOK, StoreTypeOK, Payload
<1>1. TypeOK'
  <2>1. value' \in Payload /\ carried' \in Payload
    BY DEF TypeOK, Payload
  <2> QED BY <2>1 DEF TypeOK, StoreTypeOK, IsSample
<1>2. SamplingHoldsLock'
  BY DEF SamplingHoldsLock
<1>3. SamplesAreInFlight'
  BY DEF SamplesAreInFlight
<1>4. MarkerMeansOldBaselines'
  BY DEF MarkerMeansOldBaselines
<1>5. FreshScopes'
  <2>1. \A c \in Forwarding : c > applies => c # x
    BY DEF TypeOK
  <2> QED BY <1>t, <2>1 DEF FreshScopes
<1>6. SamplesAreCurrent'
  <2> SUFFICES ASSUME NEW k \in Callers, NEW c \in DOMAIN sample[k]
               PROVE  /\ IF c \in Forwarding THEN c = scope ELSE running /\ coreComplete[k]
                      /\ c \notin resetSince[k] =>
                           /\ sample[k][c] <= value'[c]
                           /\ active /\ ~stale[c] => baseline[c] <= sample[k][c]
                      /\ c \in resetSince[k] =>
                           /\ stale[c]
                           /\ active =>
                                billed[c] + Delta(c, sample[k][c], usageCoreRestarted) + value'[c] <= carried'[c]
    BY DEF SamplesAreCurrent, Delta
  <2>1. c \in Counters /\ sample[k][c] \in Nat /\ Delta(c, sample[k][c], usageCoreRestarted) \in Nat
    BY DeltaType DEF TypeOK, IsSample
  <2>2. /\ IF c \in Forwarding THEN c = scope ELSE running /\ coreComplete[k]
        /\ c \notin resetSince[k] =>
             /\ sample[k][c] <= value[c]
             /\ active /\ ~stale[c] => baseline[c] <= sample[k][c]
        /\ c \in resetSince[k] =>
             /\ stale[c]
             /\ active =>
                  billed[c] + Delta(c, sample[k][c], usageCoreRestarted) + value[c] <= carried[c]
    BY DEF SamplesAreCurrent
  <2>3. CASE c = x
    BY <1>t, <2>1, <2>2, <2>3
  <2>4. CASE c # x
    BY <1>t, <2>1, <2>2, <2>4
  <2> QED BY <2>3, <2>4
<1>7. Accounted'
  <2> SUFFICES ASSUME active, NEW c \in Counters
               PROVE  billed[c] <= carried'[c] /\ (Live(c) => Owed(c)')
    BY DEF Accounted, Live
  <2>1. billed[c] <= carried[c] /\ (Live(c) => Owed(c))
    BY DEF Accounted
  <2>2. CASE c = x
    BY <1>t, <2>1, <2>2 DEF Owed
  <2>3. CASE c # x
    BY <1>t, <2>1, <2>3 DEF Owed
  <2> QED BY <2>2, <2>3
<1> QED BY <1>1, <1>2, <1>3, <1>4, <1>5, <1>6, <1>7

-----------------------------------------------------------------------------
\* Reset-based statistics and the panel.

LEMMA RejectLegacyResetStep ==
  ASSUME IInv, RejectLegacyReset
  PROVE  IInv'
<1> USE DEF RejectLegacyReset, storeVars, managerVars, coreVars, forwardingVars, historyVars
<1>1. TypeOK'
  BY DEF IInv, TypeOK, StoreTypeOK, IsSample
<1>2. Accounting'
  BY DEF IInv, Accounting, SamplingHoldsLock, SamplesAreInFlight, MarkerMeansOldBaselines, FreshScopes,
         SamplesAreCurrent, Accounted, Live, Owed, Delta
<1> QED BY <1>1, <1>2 DEF IInv

\* A reset-based query may fall between the reads of a sample and its commit:
\* what the sample bills is older than the reset.
LEMMA LegacyQueryStep ==
  ASSUME IInv, NEW n \in DOMAIN Queries, LegacyQuery(n)
  PROVE  IInv'
<1> USE ScopeIsCounter
    DEF IInv, Accounting, LegacyQuery, storeVars, managerVars, coreVars, forwardingVars
<1>1. CASE UNCHANGED <<value, stale, resetSince>>
  <2>1. TypeOK'
    BY <1>1 DEF TypeOK, StoreTypeOK, IsSample
  <2>2. Accounting'
    BY <1>1 DEF SamplingHoldsLock, SamplesAreInFlight, MarkerMeansOldBaselines, FreshScopes,
                SamplesAreCurrent, Accounted, Live, Owed, Delta
  <2> QED BY <2>1, <2>2
<1>2. ASSUME ResetCounters(Queries[n]),
             resetSince' = [k \in Callers |-> resetSince[k] \cup (Queries[n] \cap DOMAIN sample[k])]
      PROVE  IInv'
  <2>r. /\ value' \in Payload /\ stale' \in [Counters -> BOOLEAN]
        /\ \A c \in Counters : value'[c] = IF c \in Queries[n] THEN 0 ELSE value[c]
        /\ \A c \in Counters : stale'[c] <=> stale[c] \/ c \in Queries[n]
        /\ Accounted'
        /\ \A c \in Forwarding : c > applies' => value'[c] = 0
    BY <1>2, ResetCountersType, ResetKeepsAccounts
  <2>1. TypeOK'
    <3>1. resetSince' \in [Callers -> SUBSET Counters]
      BY <1>2 DEF TypeOK, IsSample
    <3> QED BY <2>r, <3>1 DEF TypeOK, StoreTypeOK, IsSample
  <2>2. SamplingHoldsLock'
    BY DEF SamplingHoldsLock
  <2>3. SamplesAreInFlight'
    BY <1>2 DEF SamplesAreInFlight
  <2>4. MarkerMeansOldBaselines'
    BY <2>r DEF MarkerMeansOldBaselines
  <2>5. FreshScopes'
    BY <2>r DEF FreshScopes, CoreCounters
  <2>6. SamplesAreCurrent'
    <3> SUFFICES ASSUME NEW k \in Callers, NEW c \in DOMAIN sample[k]
                 PROVE  /\ IF c \in Forwarding THEN c = scope ELSE running /\ coreComplete[k]
                        /\ c \notin resetSince'[k] =>
                             /\ sample[k][c] <= value'[c]
                             /\ active /\ ~stale'[c] => baseline[c] <= sample[k][c]
                        /\ c \in resetSince'[k] =>
                             /\ stale'[c]
                             /\ active =>
                                  billed[c] + Delta(c, sample[k][c], usageCoreRestarted) + value'[c] <= carried[c]
      BY DEF SamplesAreCurrent, Delta
    <3>0. /\ c \in Counters /\ sample[k][c] \in Nat /\ Delta(c, sample[k][c], usageCoreRestarted) \in Nat
          /\ value[c] \in Nat /\ billed[c] \in Nat /\ carried[c] \in Nat
      BY DeltaType DEF TypeOK, IsSample, Payload
    <3>1. /\ IF c \in Forwarding THEN c = scope ELSE running /\ coreComplete[k]
          /\ c \notin resetSince[k] =>
               /\ sample[k][c] <= value[c]
               /\ active /\ ~stale[c] => baseline[c] <= sample[k][c]
          /\ c \in resetSince[k] =>
               /\ stale[c]
               /\ active =>
                    billed[c] + Delta(c, sample[k][c], usageCoreRestarted) + value[c] <= carried[c]
      BY DEF SamplesAreCurrent
    <3>2. CASE c \notin Queries[n]
      <4>1. value'[c] = value[c] /\ (stale'[c] <=> stale[c]) /\ (c \in resetSince'[k] <=> c \in resetSince[k])
        BY <1>2, <2>r, <3>0, <3>2
      <4> QED BY <3>1, <4>1
    <3>3. CASE c \in Queries[n]
      <4>1. value'[c] = 0 /\ stale'[c] /\ c \in resetSince'[k] /\ c \notin Forwarding /\ coreComplete[k]
        BY <1>2, <2>r, <3>0, <3>1, <3>3 DEF CoreCounters
      <4>2. ASSUME active
            PROVE  billed[c] + Delta(c, sample[k][c], usageCoreRestarted) <= carried[c]
        <5>1. CASE c \in resetSince[k]
          BY <3>0, <3>1, <4>2, <5>1
        <5>2. CASE c \notin resetSince[k]
          <6>1. Delta(c, sample[k][c], CoreRestarted(k)) = Delta(c, sample[k][c], usageCoreRestarted)
            BY <4>1 DEF CoreRestarted, Delta
          <6>2. /\ sample[k][c] <= value[c]
                /\ billed[c] + Delta(c, sample[k][c], CoreRestarted(k)) + (value[c] - sample[k][c]) <= carried[c]
            BY <3>0, <4>2, <5>2, CommittedDelta
          <6> QED BY <3>0, <6>1, <6>2
        <5> QED BY <5>1, <5>2
      <4> QED BY <3>0, <3>1, <4>1, <4>2
    <3> QED BY <3>2, <3>3
  <2> QED BY <2>r, <2>1, <2>2, <2>3, <2>4, <2>5, <2>6
<1> QED BY <1>1, <1>2

LEMMA PanelAcksStep ==
  ASSUME IInv, PanelAcks
  PROVE  IInv'
<1> USE DEF PanelAcks, managerVars, coreVars, forwardingVars, historyVars
<1>0. StoreTypeOK' /\ UNCHANGED <<active, baseline>>
  <2>1. Latest \in Nat
    BY DEF IInv, TypeOK, StoreTypeOK, Latest
  <2> QED BY <2>1, AckType DEF IInv
<1>1. TypeOK'
  BY <1>0 DEF IInv, TypeOK, IsSample
<1>2. Accounting'
  BY <1>0 DEF IInv, Accounting, SamplingHoldsLock, SamplesAreInFlight, MarkerMeansOldBaselines, FreshScopes,
              SamplesAreCurrent, Accounted, Live, Owed, Delta
<1> QED BY <1>1, <1>2 DEF IInv

-----------------------------------------------------------------------------
LEMMA InitInvariant == Init => IInv
<1> SUFFICES ASSUME Init PROVE IInv
  OBVIOUS
<1> USE DEF Init, StoreInit, Empty, Zero, EmptySample
<1>1. TypeOK
  <2>1. 0 \in 0..Len(Queries)
    BY CaptureAssumption
  <2>2. StoreTypeOK
    BY DEF StoreTypeOK, EmptyQueue, Payload, NoGeneration
  <2>3. DOMAIN sample = Callers /\ \A k \in Callers : IsSample(sample[k])
    BY DEF IsSample
  <2>4. /\ applies \in 0..MaxScopes /\ scope \in 0..applies
        /\ coreMu \in Callers \cup {Free}
        /\ pc \in [Callers -> Phases]
    BY CaptureAssumption DEF Phases
  <2>5. /\ asked \in [Callers -> 0..Len(Queries)]
        /\ capturing \in [Callers -> BOOLEAN] /\ coreComplete \in [Callers -> BOOLEAN]
        /\ resetSince \in [Callers -> SUBSET Counters]
        /\ value \in Payload /\ carried \in Payload /\ billed \in Payload
        /\ stale \in [Counters -> BOOLEAN]
    BY <2>1 DEF Payload
  <2> QED BY <2>2, <2>3, <2>4, <2>5 DEF TypeOK
<1>2. Accounting
  BY ScopeIsCounter, <1>1
  DEF Accounting, SamplingHoldsLock, SamplesAreInFlight, MarkerMeansOldBaselines, FreshScopes,
      SamplesAreCurrent, Accounted
<1> QED BY <1>1, <1>2 DEF IInv

LEMMA NextInvariant == IInv /\ [Next]_vars => IInv'
<1> SUFFICES ASSUME IInv, [Next]_vars PROVE IInv'
  OBVIOUS
<1>1. ASSUME NEW k \in Callers, Begin(k) PROVE IInv'
  BY <1>1, BeginStep
<1>2. ASSUME NEW k \in Callers, Step(k) PROVE IInv'
  <2>1. CASE SampleForwarding(k)
    BY <2>1, SampleForwardingStep
  <2>2. CASE SampleForwardingFails(k)
    BY <2>2, ReturnStep DEF SampleForwardingFails
  <2>3. CASE QueryCore(k)
    BY <2>3, QueryCoreStep
  <2>4. CASE QueryCoreFails(k)
    BY <2>4, QueryCoreFailsStep
  <2>5. CASE CommitCapture(k)
    BY <2>5, CommitCaptureStep
  <2>6. CASE CommitNothing(k)
    BY <2>6, CommitNothingStep
  <2>7. CASE CommitCaptureFails(k)
    BY <2>7, ReturnStep DEF CommitCaptureFails, CaptureFails
  <2>8. CASE k = "activate" /\ CommitActivate
    BY <2>8, CommitActivateStep
  <2>9. CASE k = "activate" /\ CommitActivateRefused
    BY <2>9, ReturnStep DEF CommitActivateRefused
  <2>10. CASE k = "sync" /\ ForwardingApply
    BY <2>10, ForwardingApplyStep
  <2> QED BY <1>2, <2>1, <2>2, <2>3, <2>4, <2>5, <2>6, <2>7, <2>8, <2>9, <2>10 DEF Step
<1>3. CASE UNCHANGED vars
  <2> USE <1>3 DEF vars, storeVars, managerVars, coreVars, forwardingVars, historyVars
  <2>1. TypeOK'
    BY DEF IInv, TypeOK, StoreTypeOK, IsSample
  <2>2. Accounting'
    BY DEF IInv, Accounting, SamplingHoldsLock, SamplesAreInFlight, MarkerMeansOldBaselines, FreshScopes,
           SamplesAreCurrent, Accounted, Live, Owed, Delta
  <2> QED BY <2>1, <2>2 DEF IInv
<1> QED BY <1>1, <1>2, <1>3, AgentRestartStep, StartRestartsStep, RestartsUnmarkedStep, RestartFailsStep,
           StopStep, CoreCrashesStep, CoreHangsStep, TrafficStep, RejectLegacyResetStep, LegacyQueryStep,
           PanelAcksStep DEF Next

(***************************************************************************)
(* The types hold, and the accounts fit together at every step of every    *)
(* sampler, core restart, table replacement and reset-based query.         *)
(***************************************************************************)
THEOREM AccountingInvariant == Spec => [](TypeOK /\ Accounting)
<1>1. Init => IInv
  BY InitInvariant
<1>2. IInv /\ [Next]_vars => IInv'
  BY NextInvariant
<1>3. IInv => TypeOK /\ Accounting
  BY DEF IInv
<1> QED BY <1>1, <1>2, <1>3, PTL DEF Spec

(***************************************************************************)
(* captureUsageSnapshot never bills a byte twice.                          *)
(***************************************************************************)
THEOREM BillingSafety == Spec => []NeverOverbills
<1>1. TypeOK /\ Accounting => NeverOverbills
  BY DEF Accounting, Accounted, NeverOverbills
<1> QED BY <1>1, AccountingInvariant, PTL

(***************************************************************************)
(* The restart marker of Start stands for baselines of an older core.      *)
(***************************************************************************)
THEOREM MarkerSafety == Spec => []MarkerMeansOldBaselines
<1>1. TypeOK /\ Accounting => MarkerMeansOldBaselines
  BY DEF Accounting
<1> QED BY <1>1, AccountingInvariant, PTL

\* The step that takes the marker back.
BilledInFull(k) ==
  /\ coreComplete[k]
  /\ \A c \in DOMAIN sample[k] \cap CoreCounters : billed'[c] = billed[c] + sample[k][c]

\* Of all steps only CommitCapture takes a marker back while the agent keeps
\* its core.
LEMMA MarkerConsumed ==
  ASSUME IInv, [Next]_vars, usageCoreRestarted, ~usageCoreRestarted', running'
  PROVE  \E k \in Callers : CommitCapture(k)
<1> SUFFICES ASSUME \A k \in Callers : ~CommitCapture(k) PROVE FALSE
  OBVIOUS
<1>1. ASSUME NEW k \in Callers, Begin(k) PROVE FALSE
  BY <1>1 DEF Begin
<1>2. ASSUME NEW k \in Callers, Step(k) PROVE FALSE
  <2>1. CASE SampleForwarding(k) \/ SampleForwardingFails(k) \/ QueryCore(k) \/ QueryCoreFails(k)
    BY <2>1 DEF SampleForwarding, SampleForwardingFails, QueryCore, QueryCoreFails
  <2>2. CASE CommitNothing(k) \/ CommitCaptureFails(k)
    BY <2>2 DEF CommitNothing, CommitCaptureFails
  <2>3. CASE CommitActivate \/ CommitActivateRefused \/ ForwardingApply
    BY <2>3 DEF CommitActivate, CommitActivateRefused, ForwardingApply
  <2> QED BY <1>2, <2>1, <2>2, <2>3 DEF Step
<1>3. ASSUME NEW lost \in BOOLEAN, AgentRestart(lost) PROVE FALSE
  BY <1>3 DEF AgentRestart
<1>4. CASE StartRestarts
  BY <1>4 DEF StartRestarts
<1>5. CASE RestartsUnmarked \/ RestartFails \/ Stop \/ CoreCrashes \/ CoreHangs
  BY <1>5 DEF RestartsUnmarked, RestartFails, Stop, CoreCrashes, CoreHangs, managerVars
<1>6. CASE RejectLegacyReset \/ PanelAcks \/ UNCHANGED vars
  BY <1>6 DEF RejectLegacyReset, PanelAcks, vars, managerVars
<1>7. ASSUME NEW c \in Counters, Traffic(c) PROVE FALSE
  BY <1>7 DEF Traffic, managerVars
<1>8. ASSUME NEW n \in DOMAIN Queries, LegacyQuery(n) PROVE FALSE
  BY <1>8 DEF LegacyQuery, managerVars
<1> QED BY <1>1, <1>2, <1>3, <1>4, <1>5, <1>6, <1>7, <1>8 DEF Next

LEMMA CommitBillsInFull ==
  ASSUME IInv, NEW k \in Callers, CommitCapture(k), usageCoreRestarted, ~usageCoreRestarted'
  PROVE  BilledInFull(k)
<1>1. coreComplete[k] = TRUE /\ CoreRestarted(k) = TRUE
  BY DEF CommitCapture, MarkerAfterCommit, CoreRestarted, IInv, TypeOK
<1>2. ASSUME NEW c \in DOMAIN sample[k] \cap CoreCounters
      PROVE  Deltas(sample[k], TRUE)[c] = sample[k][c]
  BY <1>2 DEF Deltas, Delta, CoreCounters
<1>3. \A c \in Counters : billed'[c] = billed[c] + Deltas(sample[k], TRUE)[c]
  BY <1>1 DEF CommitCapture
<1> QED BY <1>1, <1>2, <1>3 DEF BilledInFull, CoreCounters

(***************************************************************************)
(* A restart marker that captureUsageSnapshot takes back has billed every  *)
(* core counter of its complete sample in full; nothing else takes it back *)
(* while the agent has a core.                                             *)
(***************************************************************************)
THEOREM MarkerIsBilled == Spec => MarkerBillsInFull
<1> DEFINE Full == usageCoreRestarted /\ ~usageCoreRestarted' /\ running' =>
                     \E k \in Callers : BilledInFull(k)
<1>1. ASSUME IInv, [Next]_vars PROVE Full
  <2> SUFFICES ASSUME usageCoreRestarted, ~usageCoreRestarted', running'
               PROVE  \E k \in Callers : BilledInFull(k)
    OBVIOUS
  <2>1. PICK k \in Callers : CommitCapture(k)
    BY <1>1, MarkerConsumed
  <2>2. BilledInFull(k)
    BY <1>1, <2>1, CommitBillsInFull
  <2> QED BY <2>2
<1>2. Spec => []IInv
  BY AccountingInvariant, PTL DEF IInv
<1>3. Spec => [][Full]_vars
  BY <1>1, <1>2, PTL DEF Spec
<1> QED BY <1>3 DEF MarkerBillsInFull, BilledInFull
=============================================================================
