----------------------------- MODULE UsageStore -----------------------------
(***************************************************************************)
(* The durable usage-snapshot store, internal/usagesnapshot/store.go: a    *)
(* bolt database with the metadata, the baseline of every counter and the  *)
(* queue of snapshots that wait for the panel's acknowledgement.           *)
(*                                                                         *)
(* Every exported method is one bolt transaction, so every operation is    *)
(* one atomic action; a method that returns an error has rolled its        *)
(* transaction back and left the store alone.  The modules that compose    *)
(* the store (UsageDelivery, UsageCapture) EXTEND this one.                *)
(*                                                                         *)
(* Data: a counter key (counterKey) is a member of Counters, a JSON        *)
(* payload is the function of its deltas (0 = the counter is not in the    *)
(* payload), its size in bytes is the number of counters in it.            *)
(***************************************************************************)
EXTENDS Integers, FiniteSets, FiniteSetsExt

CONSTANTS
  Counters,     \* counter keys: kind, name, inbound / protocol and scope, direction
  Forwarding,   \* the keys of kind "forwarding"; the others are core counters
  MaxBytes      \* Store.maxBytes, the safety limit of the queue

ASSUME StoreAssumption ==
  /\ Forwarding \subseteq Counters
  /\ IsFiniteSet(Counters)
  /\ MaxBytes \in Nat

VARIABLES
  active,        \* meta["active"] = "1"
  generation,    \* meta["generation"], 0 when never written
  nextSequence,  \* meta["nextSequence"], 0 when never written
  ackedThrough,  \* meta["acked"]
  baseline,      \* baseline bucket; a missing key decodes to 0
  snapshots      \* snapshots bucket: sequence -> deltas

storeVars == <<active, generation, nextSequence, ackedThrough, baseline, snapshots>>

NoGeneration == 0

EmptyQueue == [s \in {} |-> [c \in Counters |-> 0]]

Payload == [Counters -> Nat]

StoreTypeOK ==
  /\ active \in BOOLEAN
  /\ generation \in Nat
  /\ nextSequence \in Nat
  /\ ackedThrough \in Nat
  /\ baseline \in Payload
  /\ DOMAIN snapshots \subseteq Nat
  /\ snapshots \in [DOMAIN snapshots -> Payload]

(***************************************************************************)
(* Open on a path that holds no database yet: empty buckets.               *)
(***************************************************************************)
Empty ==
  [active |-> FALSE, generation |-> NoGeneration, nextSequence |-> 0,
   ackedThrough |-> 0, baseline |-> [c \in Counters |-> 0], snapshots |-> EmptyQueue]

StoreInit ==
  /\ active = Empty.active
  /\ generation = Empty.generation
  /\ nextSequence = Empty.nextSequence
  /\ ackedThrough = Empty.ackedThrough
  /\ baseline = Empty.baseline
  /\ snapshots = Empty.snapshots

OpenFresh ==
  /\ active' = Empty.active
  /\ generation' = Empty.generation
  /\ nextSequence' = Empty.nextSequence
  /\ ackedThrough' = Empty.ackedThrough
  /\ baseline' = Empty.baseline
  /\ snapshots' = Empty.snapshots

-----------------------------------------------------------------------------
(***************************************************************************)
(* Activate(counters): a no-op when already active, otherwise a new        *)
(* generation with an empty queue and the sampled values as baseline.      *)
(* A sample is a function on the counters that were read.                  *)
(***************************************************************************)
BaselineOf(sample) ==
  [c \in Counters |-> IF c \in DOMAIN sample THEN sample[c] ELSE 0]

\* Mutant: the generation is derived, not random.
ActivateSameGeneration(fresh, sample) ==
  /\ ~active
  /\ active' = TRUE
  /\ generation' = 1
  /\ nextSequence' = 1
  /\ ackedThrough' = 0
  /\ baseline' = BaselineOf(sample)
  /\ snapshots' = EmptyQueue

Activate(fresh, sample) ==
  /\ ~active
  /\ active' = TRUE
  /\ generation' = fresh
  /\ nextSequence' = 1
  /\ ackedThrough' = 0
  /\ baseline' = BaselineOf(sample)
  /\ snapshots' = EmptyQueue

AlreadyActive ==
  /\ active
  /\ UNCHANGED storeVars

(***************************************************************************)
(* Capture(core, counters, at, coreReset).  A value below the baseline, or *)
(* any core value when the caller knows that the core was restarted, is    *)
(* fresh traffic as a whole.                                               *)
(***************************************************************************)
Delta(c, current, reset) ==
  IF (reset /\ c \notin Forwarding) \/ current < baseline[c]
  THEN current
  ELSE current - baseline[c]

Deltas(sample, reset) ==
  [c \in Counters |-> IF c \in DOMAIN sample THEN Delta(c, sample[c], reset) ELSE 0]

AdvancedBaseline(sample) ==
  [c \in Counters |-> IF c \in DOMAIN sample THEN sample[c] ELSE baseline[c]]

PayloadSize(payload) == Cardinality({c \in Counters : payload[c] > 0})

QueueBytes == MapThenSumSet(LAMBDA s : PayloadSize(snapshots[s]), DOMAIN snapshots)

Enqueue(payload) ==
  /\ QueueBytes + PayloadSize(payload) <= MaxBytes
  /\ snapshots' = [s \in DOMAIN snapshots \cup {nextSequence} |->
                     IF s = nextSequence THEN payload ELSE snapshots[s]]
  /\ nextSequence' = nextSequence + 1

NothingToBill(payload) == \A c \in Counters : payload[c] = 0

Capture(sample, reset) ==
  /\ active
  /\ baseline' = AdvancedBaseline(sample)
  /\ \/ /\ NothingToBill(Deltas(sample, reset))
        /\ UNCHANGED <<nextSequence, snapshots>>
     \/ /\ ~NothingToBill(Deltas(sample, reset))
        /\ Enqueue(Deltas(sample, reset))
  /\ UNCHANGED <<active, generation, ackedThrough>>

\* The queue limit or a bolt error: the transaction is rolled back, the
\* baseline included.
CaptureFails ==
  /\ active
  /\ UNCHANGED storeVars

(***************************************************************************)
(* Ack(generation, throughSequence): refused for another generation or     *)
(* ahead of the latest snapshot, a no-op when already acknowledged.        *)
(***************************************************************************)
Latest == IF nextSequence > 0 THEN nextSequence - 1 ELSE 0

\* Mutants: any generation; an old acknowledgement is applied again.
AckAnyGeneration(g, through) ==
  /\ g # NoGeneration
  /\ through <= Latest
  /\ through > ackedThrough

AckBackwards(g, through) ==
  /\ g # NoGeneration
  /\ g = generation
  /\ through <= Latest

AckAccepted(g, through) ==
  /\ g # NoGeneration
  /\ g = generation
  /\ through <= Latest
  /\ through > ackedThrough

\* Mutant: the acknowledged snapshot itself stays.
AckExclusive(g, through) ==
  /\ AckAccepted(g, through)
  /\ snapshots' = [s \in {x \in DOMAIN snapshots : x >= through} |-> snapshots[s]]
  /\ ackedThrough' = through
  /\ UNCHANGED <<active, generation, nextSequence, baseline>>

Ack(g, through) ==
  /\ AckAccepted(g, through)
  /\ snapshots' = [s \in {x \in DOMAIN snapshots : x > through} |-> snapshots[s]]
  /\ ackedThrough' = through
  /\ UNCHANGED <<active, generation, nextSequence, baseline>>

AckIgnored(g, through) ==
  /\ ~AckAccepted(g, through)
  /\ UNCHANGED storeVars

(***************************************************************************)
(* Pull(after, limit, maxBytes): the snapshots behind "after" in order, up *)
(* to the first one that exceeds the limit or the byte budget.             *)
(***************************************************************************)
Clamp(requested, cap) == IF requested <= 0 \/ requested > cap THEN cap ELSE requested

\* Mutant: the seek starts one key too far, at after + 2.
PullSkipsNext(after, limit, bytes) ==
  LET behind == {s \in DOMAIN snapshots : s > after + 1}
      upTo(s) == {x \in behind : x <= s}
      fits(s) == /\ Cardinality(upTo(s)) <= limit
                 /\ MapThenSumSet(LAMBDA x : PayloadSize(snapshots[x]), upTo(s)) <= bytes
      sent == {s \in behind : fits(s)}
  IN  [generation |-> generation,
       snapshots  |-> [s \in sent |-> snapshots[s]],
       hasMore    |-> sent # behind]

Pull(after, limit, bytes) ==
  LET behind == {s \in DOMAIN snapshots : s > after}
      upTo(s) == {x \in behind : x <= s}
      fits(s) == /\ Cardinality(upTo(s)) <= limit
                 /\ MapThenSumSet(LAMBDA x : PayloadSize(snapshots[x]), upTo(s)) <= bytes
      sent == {s \in behind : fits(s)}
  IN  [generation |-> generation,
       snapshots  |-> [s \in sent |-> snapshots[s]],
       hasMore    |-> sent # behind]
=============================================================================
