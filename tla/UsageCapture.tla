---------------------------- MODULE UsageCapture ----------------------------
(***************************************************************************)
(* Usage accounting: how the manager (internal/node/manager.go) samples    *)
(* the cumulative counters of sing-box and of the forwarding table and     *)
(* commits them to the usage-snapshot store, while the core is restarted,  *)
(* crashes or hangs, the forwarding table is replaced, the agent itself is *)
(* restarted and a panel still uses the reset-based statistics.            *)
(*                                                                         *)
(* Four callers sample: the 10 s ticker (CaptureUsageSnapshot), the minute *)
(* seal (RefreshForwardingDNS), the seal of ForwardingSync and             *)
(* ActivateUsageSnapshots.  All hold coreMu from the first read to the     *)
(* commit.  Traffic, crashes and reset-based queries do not respect the    *)
(* lock and fall between the reads.                                        *)
(*                                                                         *)
(* The core's lifecycle is modelled in detail in CoreLifecycle; here a     *)
(* restart is one step, because it holds coreMu throughout.                *)
(***************************************************************************)
EXTENDS UsageStore, Sequences

CONSTANTS
  Periodic,      \* the callers that only capture: the 10 s ticker, the minute seal
  Queries,       \* the stats queries in order: the counters of "user>>>",
                 \* "inbound>>>" and "outbound>>>"
  LegacyPanel,   \* whether reset-based statistics are requested at all
  MaxScopes,     \* bound: applied forwarding rulesets
  MaxTraffic,    \* bound: units of traffic the counters show together
  MaxForwarded,  \* bound: units of traffic one ruleset forwards
  MaxSnapshots   \* bound: snapshots ever enqueued

CoreCounters == Counters \ Forwarding

(***************************************************************************)
(* A forwarding key carries its apply scope, so the forwarding counters    *)
(* are named by the number of the apply that created them.                 *)
(***************************************************************************)
ASSUME CaptureAssumption ==
  /\ Forwarding = 1..MaxScopes
  /\ MaxScopes \in Nat /\ MaxTraffic \in Nat /\ MaxForwarded \in Nat /\ MaxSnapshots \in Nat
  /\ LegacyPanel \in BOOLEAN
  /\ Queries \in Seq(SUBSET CoreCounters)
  /\ "sync" \notin Periodic /\ "activate" \notin Periodic /\ "free" \notin Periodic

Callers == Periodic \cup {"sync", "activate"}
Free == "free"
Phases == {"idle", "forwarding", "query", "commit", "apply"}

VARIABLES
  core,                \* the sing-box process: "down", "up" or "hung" (stats RPC never answers)
  running,             \* state.RunningCoreType() = SING_BOX
  usageCoreRestarted,  \* Manager.usageCoreRestarted
  value,               \* the cumulative counters sing-box and the kernel show
  scope,               \* forwarding: number of the apply in memory and on disk, 0 = disabled
  applies,             \* forwarding: how many applies there were
  lastError,           \* forwarding: Service.lastError # ""
  tableMatches,        \* forwarding: the kernel table carries the applied hash
  coreMu,              \* Manager.coreMu: its holder
  pc, asked,           \* per caller: where it is, and how many queries it has made
  sample, capturing, coreComplete,  \* per caller: the results of currentUsageCounters
  legacy               \* a reset-based query has passed rejectLegacyReset

\* History: what the counters carried that may be billed (since the
\* activation; since its table was applied for a forwarding counter that the
\* activation could not read), what was billed, which baselines are older
\* than the last reset of their counter, and which counters were reset after
\* a caller had read them.
VARIABLES carried, billed, stale, resetSince

managerVars == <<usageCoreRestarted, coreMu, pc, asked, sample, capturing, coreComplete>>
coreVars == <<core, running>>
forwardingVars == <<scope, applies, lastError, tableMatches>>
historyVars == <<carried, billed, stale, resetSince>>
vars == <<storeVars, managerVars, coreVars, forwardingVars, value, legacy, historyVars>>

EmptySample == [c \in {} |-> 0]
Zero == [c \in Counters |-> 0]
IsSample(s) == DOMAIN s \subseteq Counters /\ \A c \in DOMAIN s : s[c] \in Nat

\* Every variable of the manager, the core, the forwarding service and the
\* ledgers has its type; no delta, sample or bill is negative.
TypeOK ==
  /\ StoreTypeOK
  /\ core \in {"down", "up", "hung"}
  /\ running \in BOOLEAN
  /\ usageCoreRestarted \in BOOLEAN
  /\ value \in Payload
  /\ applies \in 0..MaxScopes
  /\ scope \in 0..applies
  /\ lastError \in BOOLEAN
  /\ tableMatches \in BOOLEAN
  /\ coreMu \in Callers \cup {Free}
  /\ pc \in [Callers -> Phases]
  /\ asked \in [Callers -> 0..Len(Queries)]
  /\ DOMAIN sample = Callers /\ \A k \in Callers : IsSample(sample[k])
  /\ capturing \in [Callers -> BOOLEAN]
  /\ coreComplete \in [Callers -> BOOLEAN]
  /\ legacy \in BOOLEAN
  /\ carried \in Payload
  /\ billed \in Payload
  /\ stale \in [Counters -> BOOLEAN]
  /\ resetSince \in [Callers -> SUBSET Counters]

Init ==
  /\ StoreInit
  /\ core = "down" /\ running = FALSE
  /\ usageCoreRestarted = FALSE
  /\ value = Zero
  /\ scope = 0 /\ applies = 0 /\ lastError = FALSE /\ tableMatches = FALSE
  /\ coreMu = Free
  /\ pc = [k \in Callers |-> "idle"]
  /\ asked = [k \in Callers |-> 0]
  /\ sample = [k \in Callers |-> EmptySample]
  /\ capturing = [k \in Callers |-> FALSE]
  /\ coreComplete = [k \in Callers |-> FALSE]
  /\ legacy = FALSE
  /\ carried = Zero /\ billed = Zero
  /\ stale = [c \in Counters |-> FALSE]
  /\ resetSince = [k \in Callers |-> {}]

-----------------------------------------------------------------------------
\* Sampling: currentUsageCounters under coreMu.

LockNotAwaited(k) == coreMu' = k

Lock(k) == coreMu = Free /\ coreMu' = k

\* A caller is done: the deferred unlock; what it has read is garbage.
Return(k) ==
  /\ coreMu' = IF coreMu = k THEN Free ELSE coreMu
  /\ pc' = [pc EXCEPT ![k] = "idle"]
  /\ asked' = [asked EXCEPT ![k] = 0]
  /\ sample' = [sample EXCEPT ![k] = EmptySample]
  /\ capturing' = [capturing EXCEPT ![k] = FALSE]
  /\ coreComplete' = [coreComplete EXCEPT ![k] = FALSE]
  /\ resetSince' = [resetSince EXCEPT ![k] = {}]

Goto(k, phase) == pc' = [pc EXCEPT ![k] = phase]

\* captureUsageSnapshot returns at once when the store is not active.  For
\* the ticker and the minute seal that is the whole call.
Begin(k) ==
  /\ pc[k] = "idle"
  /\ Lock(k)
  /\ \/ /\ active \/ k = "activate"
        /\ Goto(k, "forwarding")
     \/ /\ ~active /\ k = "sync"
        /\ Goto(k, "apply")
  /\ UNCHANGED <<storeVars, usageCoreRestarted, asked, sample, capturing, coreComplete,
                 coreVars, forwardingVars, value, legacy, historyVars>>

\* forwarding.UsageCounters: nothing unless the table is applied without error.
ForwardingReported == scope # 0 /\ tableMatches /\ ~lastError

SampleForwarding(k) ==
  LET read == IF ForwardingReported THEN {scope} ELSE {}
  IN  /\ pc[k] = "forwarding"
      /\ sample' = [sample EXCEPT ![k] = [c \in read |-> value[c]]]
      /\ capturing' = [capturing EXCEPT ![k] = ForwardingReported \/ running]
      /\ coreComplete' = [coreComplete EXCEPT ![k] = TRUE]
      /\ Goto(k, IF running THEN "query" ELSE "commit")
      /\ UNCHANGED <<storeVars, usageCoreRestarted, coreMu, asked, coreVars, forwardingVars,
                     value, legacy, carried, billed, stale, resetSince>>

\* readCounters fails: the capture, the sync or the activation fails.
SampleForwardingFails(k) ==
  /\ pc[k] = "forwarding"
  /\ ForwardingReported
  /\ Return(k)
  /\ UNCHANGED <<storeVars, usageCoreRestarted, coreVars, forwardingVars, value, legacy,
                 carried, billed, stale>>

\* sing-box creates a counter with its first connection: a counter that has
\* carried nothing yet may be missing from the answer.
QueryCore(k) ==
  /\ pc[k] = "query" /\ asked[k] < Len(Queries)
  /\ core = "up"
  /\ \E listed \in SUBSET Queries[asked[k] + 1] :
       /\ {c \in Queries[asked[k] + 1] : value[c] > 0} \subseteq listed
       /\ sample' = [sample EXCEPT ![k] =
                       [c \in DOMAIN sample[k] \cup listed |->
                          IF c \in listed THEN value[c] ELSE sample[k][c]]]
       /\ resetSince' = [resetSince EXCEPT ![k] = @ \ listed]
  /\ asked' = [asked EXCEPT ![k] = @ + 1]
  /\ Goto(k, IF asked[k] + 1 = Len(Queries) THEN "commit" ELSE "query")
  /\ UNCHANGED <<storeVars, usageCoreRestarted, coreMu, capturing, coreComplete,
                 coreVars, forwardingVars, value, legacy,
                 carried, billed, stale>>

\* Mutant: there is no deadline.
QueryCoreWithoutDeadline(k) ==
  /\ core # "hung"
  /\ pc[k] = "query"
  /\ sample' = [sample EXCEPT ![k] = [c \in DOMAIN sample[k] \cap Forwarding |-> sample[k][c]]]
  /\ coreComplete' = [coreComplete EXCEPT ![k] = FALSE]
  /\ asked' = [asked EXCEPT ![k] = 0]
  /\ Goto(k, "commit")
  /\ UNCHANGED <<storeVars, usageCoreRestarted, coreMu, capturing,
                 coreVars, forwardingVars, value, legacy, historyVars>>

\* An error, a dead core or the 5 s deadline of a hung one: no core counter
\* of this sample is used.
QueryCoreFails(k) ==
  /\ pc[k] = "query"
  /\ sample' = [sample EXCEPT ![k] = [c \in DOMAIN sample[k] \cap Forwarding |-> sample[k][c]]]
  /\ coreComplete' = [coreComplete EXCEPT ![k] = FALSE]
  /\ asked' = [asked EXCEPT ![k] = 0]
  /\ Goto(k, "commit")
  /\ UNCHANGED <<storeVars, usageCoreRestarted, coreMu, capturing,
                 coreVars, forwardingVars, value, legacy, historyVars>>

-----------------------------------------------------------------------------
\* The commit of a capture and of an activation.

CoreRestarted(k) == coreComplete[k] /\ usageCoreRestarted

MarkerAlwaysConsumed(k) == FALSE

MarkerNeverConsumed(k) == usageCoreRestarted

MarkerAfterCommit(k) == IF coreComplete[k] THEN FALSE ELSE usageCoreRestarted

\* After a commit ForwardingSync goes on, the other callers return.
AfterCapture(k) ==
  IF k = "sync"
  THEN /\ Goto(k, "apply")
       /\ asked' = [asked EXCEPT ![k] = 0]
       /\ sample' = [sample EXCEPT ![k] = EmptySample]
       /\ capturing' = [capturing EXCEPT ![k] = FALSE]
       /\ coreComplete' = [coreComplete EXCEPT ![k] = FALSE]
       /\ resetSince' = [resetSince EXCEPT ![k] = {}]
       /\ UNCHANGED coreMu
  ELSE Return(k)

CommitCapture(k) ==
  /\ pc[k] = "commit" /\ k # "activate"
  /\ capturing[k]
  /\ nextSequence <= MaxSnapshots
  /\ Capture(sample[k], CoreRestarted(k))
  /\ usageCoreRestarted' = MarkerAfterCommit(k)
  /\ billed' = [c \in Counters |-> billed[c] + Deltas(sample[k], CoreRestarted(k))[c]]
  /\ stale' = [c \in Counters |-> IF c \in DOMAIN sample[k] THEN c \in resetSince[k] ELSE stale[c]]
  /\ AfterCapture(k)
  /\ UNCHANGED <<coreVars, forwardingVars, value, legacy, carried>>

\* Neither a core nor a forwarding table: nothing is captured.
CommitNothing(k) ==
  /\ pc[k] = "commit" /\ k # "activate"
  /\ ~capturing[k]
  /\ AfterCapture(k)
  /\ UNCHANGED <<storeVars, usageCoreRestarted, coreVars, forwardingVars, value, legacy,
                 carried, billed, stale>>

\* The queue limit or a bolt error; a consumed marker is put back.  A sync
\* whose seal fails does not touch the table.
CommitCaptureFails(k) ==
  /\ pc[k] = "commit" /\ k # "activate"
  /\ capturing[k]
  /\ CaptureFails
  /\ Return(k)
  /\ UNCHANGED <<usageCoreRestarted, coreVars, forwardingVars, value, legacy,
                 carried, billed, stale>>

\* Traffic since the sample is the first that may be billed.
CarriedSince(k) ==
  [c \in Counters |->
     CASE c \in DOMAIN sample[k] /\ c \notin resetSince[k] -> value[c] - sample[k][c]
       [] c \in DOMAIN sample[k] /\ c \in resetSince[k] -> value[c]
       [] c \notin DOMAIN sample[k] /\ (IF c \in Forwarding THEN c = scope ELSE running) -> value[c]
       [] OTHER -> 0]

CommitActivate ==
  LET k == "activate"
  IN  /\ pc[k] = "commit"
      /\ coreComplete[k]
      /\ Activate(1, sample[k])
      /\ carried' = CarriedSince(k)
      /\ billed' = Zero
      /\ stale' = [c \in Counters |-> c \in resetSince[k]]
      /\ Return(k)
      /\ UNCHANGED <<usageCoreRestarted, coreVars, forwardingVars, value, legacy>>

\* ErrCoreUnavailable, already active, or a bolt error.
CommitActivateRefused ==
  /\ pc["activate"] = "commit"
  /\ Return("activate")
  /\ UNCHANGED <<storeVars, usageCoreRestarted, coreVars, forwardingVars, value, legacy,
                 carried, billed, stale>>

-----------------------------------------------------------------------------
\* Forwarding: SyncWithHash after the seal, and the restore of a new agent.

ResetCounters(S) ==
  /\ value' = [c \in Counters |-> IF c \in S THEN 0 ELSE value[c]]
  /\ stale' = [c \in Counters |-> stale[c] \/ c \in S]

\* A new ruleset: its scope names a counter that starts at zero.
NewScope ==
  /\ applies < MaxScopes
  /\ applies' = applies + 1
  /\ scope' = applies + 1
  /\ tableMatches' = TRUE
  /\ lastError' = FALSE
  /\ UNCHANGED <<value, stale>>

\* An empty or disabled configuration deletes the table.
NoScope ==
  /\ scope' = 0
  /\ tableMatches' = FALSE
  /\ lastError' = FALSE
  /\ UNCHANGED <<applies, value, stale>>

\* Validation, DNS, a conflict or nft fails: the old table stays.
ApplyFails ==
  /\ lastError' = TRUE
  /\ UNCHANGED <<scope, applies, tableMatches, value, stale>>

\* The kernel table was replaced (by one with the same hash or another) or
\* deleted, and then the state could not be persisted.
PersistFails ==
  /\ lastError' = TRUE
  /\ UNCHANGED <<scope, applies>>
  /\ \/ tableMatches' = FALSE /\ UNCHANGED <<value, stale>>
     \/ UNCHANGED tableMatches /\ ResetCounters({scope})

ForwardingApply ==
  /\ pc["sync"] = "apply"
  /\ NewScope \/ NoScope \/ ApplyFails \/ PersistFails
  /\ Return("sync")
  /\ UNCHANGED <<storeVars, usageCoreRestarted, coreVars, legacy, carried, billed>>

\* Service.Restore: a table that still matches is kept with its scope,
\* another (lost with the host, or left by PersistFails) is applied anew.
Restore(tableLost) ==
  \/ /\ scope = 0 \/ (tableMatches /\ ~tableLost)
     /\ lastError' \in BOOLEAN
     /\ UNCHANGED <<scope, applies, tableMatches, value, stale>>
  \/ /\ scope # 0 /\ (tableLost \/ ~tableMatches)
     /\ \/ NewScope
        \/ /\ lastError' = TRUE
           /\ tableMatches' = FALSE
           /\ UNCHANGED <<scope, applies, value, stale>>

\* The agent restarts, and its container with it (the agent is its first
\* process), or the host: memory and the core are gone.
AgentRestart(tableLost) ==
  /\ Restore(tableLost)
  /\ core' = "down"
  /\ running' = FALSE
  /\ usageCoreRestarted' = FALSE
  /\ coreMu' = Free
  /\ pc' = [k \in Callers |-> "idle"]
  /\ asked' = [k \in Callers |-> 0]
  /\ sample' = [k \in Callers |-> EmptySample]
  /\ capturing' = [k \in Callers |-> FALSE]
  /\ coreComplete' = [k \in Callers |-> FALSE]
  /\ legacy' = FALSE
  /\ resetSince' = [k \in Callers |-> {}]
  /\ UNCHANGED <<storeVars, carried, billed>>

-----------------------------------------------------------------------------
\* The core.  Lifecycle operations hold coreMu from start to end.

\* Start: restartSingBox succeeded; the marker is set while snapshots are active.
StartRestarts ==
  /\ coreMu = Free
  /\ core' = "up" /\ running' = TRUE
  /\ ResetCounters(CoreCounters)
  /\ usageCoreRestarted' = (active \/ usageCoreRestarted)
  /\ UNCHANGED <<storeVars, coreMu, pc, asked, sample, capturing, coreComplete,
                 forwardingVars, legacy, carried, billed, resetSince>>

\* AddUser(s) and RemoveUser(s) restart the core without the marker, and so
\* does a rollback to the previous configuration.
RestartsUnmarked ==
  /\ coreMu = Free
  /\ running
  /\ core' = "up" /\ UNCHANGED running
  /\ ResetCounters(CoreCounters)
  /\ UNCHANGED <<storeVars, managerVars, forwardingVars, legacy, carried, billed,
                 resetSince>>

\* A restart and its rollback both fail, or there was nothing to roll back to:
\* the process may be down, new, or (StopProcess failed) the old one.
RestartFails ==
  /\ coreMu = Free
  /\ running' = FALSE
  /\ \/ core' = "down" /\ UNCHANGED <<value, stale>>
     \/ core' = "up" /\ ResetCounters(CoreCounters)
     \/ UNCHANGED <<core, value, stale>>
  /\ UNCHANGED <<storeVars, managerVars, forwardingVars, legacy, carried, billed,
                 resetSince>>

\* Stop ignores the error of StopProcess.
Stop ==
  /\ coreMu = Free
  /\ running' = FALSE
  /\ core' \in {core, "down"}
  /\ UNCHANGED <<storeVars, managerVars, forwardingVars, value, legacy, historyVars>>

CoreCrashes ==
  /\ core # "down" /\ core' = "down"
  /\ UNCHANGED <<storeVars, managerVars, running, forwardingVars, value, legacy, historyVars>>

CoreHangs ==
  /\ core = "up" /\ core' = "hung"
  /\ UNCHANGED <<storeVars, managerVars, running, forwardingVars, value, legacy, historyVars>>

\* Total is only there for the bound.
Total(f) == MapThenSumSet(LAMBDA c : f[c], Counters)

Traffic(c) ==
  /\ IF c \in Forwarding THEN c = scope /\ tableMatches ELSE core # "down"
  /\ Total(value) < MaxTraffic /\ Total(carried) < MaxTraffic
  /\ c \in Forwarding => value[c] < MaxForwarded /\ carried[c] < MaxForwarded
  /\ value' = [value EXCEPT ![c] = @ + 1]
  /\ carried' = [carried EXCEPT ![c] = IF active THEN @ + 1 ELSE @]
  /\ UNCHANGED <<storeVars, managerVars, coreVars, forwardingVars, legacy,
                 billed, stale, resetSince>>

-----------------------------------------------------------------------------
\* Reset-based statistics: the check and the query are not one step and hold
\* no lock.

RejectLegacyReset ==
  /\ LegacyPanel
  /\ ~active /\ ~legacy
  /\ legacy' = TRUE
  /\ UNCHANGED <<storeVars, managerVars, coreVars, forwardingVars, value, historyVars>>

LegacyQuery(n) ==
  /\ legacy
  /\ legacy' = FALSE
  /\ \/ core # "up" /\ UNCHANGED <<value, stale, resetSince>>
     \/ /\ core = "up"
        /\ ResetCounters(Queries[n])
        /\ resetSince' = [k \in Callers |->
                            resetSince[k] \cup (Queries[n] \cap DOMAIN sample[k])]
  /\ UNCHANGED <<storeVars, managerVars, coreVars, forwardingVars, carried, billed>>

\* The panel acknowledges the queue (UsageDelivery has the details).
PanelAcks ==
  /\ Ack(generation, Latest)
  /\ UNCHANGED <<managerVars, coreVars, forwardingVars, value, legacy, historyVars>>

-----------------------------------------------------------------------------
Step(k) ==
  \/ SampleForwarding(k)
  \/ SampleForwardingFails(k)
  \/ QueryCore(k)
  \/ QueryCoreFails(k)
  \/ CommitCapture(k)
  \/ CommitNothing(k)
  \/ CommitCaptureFails(k)
  \/ k = "activate" /\ (CommitActivate \/ CommitActivateRefused)
  \/ k = "sync" /\ ForwardingApply

Next ==
  \/ \E k \in Callers : Begin(k) \/ Step(k)
  \/ \E tableLost \in BOOLEAN : AgentRestart(tableLost)
  \/ StartRestarts
  \/ RestartsUnmarked
  \/ RestartFails
  \/ Stop
  \/ CoreCrashes
  \/ CoreHangs
  \/ \E c \in Counters : Traffic(c)
  \/ RejectLegacyReset
  \/ \E n \in DOMAIN Queries : LegacyQuery(n)
  \/ PanelAcks

Spec == Init /\ [][Next]_vars

\* A caller that holds the lock runs: reads have a deadline, the rest is local.
FairSpec == Spec /\ WF_<<pc, asked>>(\E k \in Callers : Step(k))

-----------------------------------------------------------------------------
(***************************************************************************)
(* No byte is billed twice: what the snapshots bill is at most what the    *)
(* counter carried since the activation (since its table was applied, for  *)
(* a forwarding counter without a baseline), whatever restarts, failed     *)
(* samples, failed commits and resets fall between the reads.  (Release    *)
(* 3.16.1 fixed a violation.)                                              *)
(***************************************************************************)
NeverOverbills == active => \A c \in Counters : billed[c] <= carried[c]

(***************************************************************************)
(* While the marker is set every core baseline is older than the running   *)
(* core: a pending marker never turns a live baseline into fresh traffic.  *)
(***************************************************************************)
MarkerMeansOldBaselines ==
  usageCoreRestarted => active /\ \A c \in CoreCounters : stale[c]

(***************************************************************************)
(* Only a complete sample consumes the marker, and it bills every core     *)
(* counter it has read in full (release 3.16.2); otherwise the marker      *)
(* lasts as long as the agent has a core.                                  *)
(***************************************************************************)
MarkerBillsInFull ==
  [][usageCoreRestarted /\ ~usageCoreRestarted' /\ running' =>
       \E k \in Callers :
         /\ coreComplete[k]
         /\ \A c \in DOMAIN sample[k] \cap CoreCounters :
              billed'[c] = billed[c] + sample[k][c]]_vars

-----------------------------------------------------------------------------
(***************************************************************************)
(* The inductive invariant behind NeverOverbills.                          *)
(***************************************************************************)

(***************************************************************************)
(* coreMu fences sampling: at most one caller is between its first read    *)
(* and its commit, and it holds the lock.                                  *)
(***************************************************************************)
SamplingHoldsLock == \A k \in Callers : pc[k] # "idle" => coreMu = k

\* What a caller has read exists only between its first read and its commit,
\* and it asks a core the agent has.
SamplesAreInFlight ==
  \A k \in Callers :
    /\ pc[k] \in {"idle", "forwarding", "apply"} => DOMAIN sample[k] = {} /\ resetSince[k] = {}
    /\ pc[k] = "query" => running /\ coreComplete[k]

\* A counter that may still be sampled: a core counter while the agent has a
\* core, the counter of the current ruleset or of a later one.
Live(c) == IF c \in Forwarding THEN c = scope \/ c > applies ELSE running

\* The next sample of c bills at most what c carried and nobody billed yet.
Owed(c) ==
  IF stale[c]
  THEN billed[c] + value[c] <= carried[c]
  ELSE /\ baseline[c] <= value[c]
       /\ billed[c] + (value[c] - baseline[c]) <= carried[c]

Accounted ==
  active => \A c \in Counters :
    billed[c] <= carried[c] /\ (Live(c) => Owed(c))

\* A sample in flight belongs to the running core and the current ruleset; it
\* lies between the baseline and the value unless its counter was reset, and
\* then billing it is covered by traffic older than the reset.
SamplesAreCurrent ==
  \A k \in Callers : \A c \in DOMAIN sample[k] :
    /\ IF c \in Forwarding THEN c = scope ELSE running /\ coreComplete[k]
    /\ c \notin resetSince[k] =>
         /\ sample[k][c] <= value[c]
         /\ active /\ ~stale[c] => baseline[c] <= sample[k][c]
    /\ c \in resetSince[k] =>
         /\ stale[c]
         /\ active =>
              billed[c] + Delta(c, sample[k][c], usageCoreRestarted) + value[c] <= carried[c]

\* A ruleset that is yet to come has counted nothing.
FreshScopes ==
  \A c \in Forwarding : c > applies => value[c] = 0

(***************************************************************************)
(* Accounting holds at every step of every caller: the reads, the restart  *)
(* marker, the baselines and the ledger of billed and carried traffic fit  *)
(* together (captureUsageSnapshot, Start, the forwarding seal).            *)
(***************************************************************************)
Accounting ==
  /\ SamplingHoldsLock
  /\ SamplesAreInFlight
  /\ MarkerMeansOldBaselines
  /\ FreshScopes
  /\ SamplesAreCurrent
  /\ Accounted

-----------------------------------------------------------------------------
(***************************************************************************)
(* A sampler always gives coreMu back, even when the stats RPC hangs.      *)
(***************************************************************************)
LockIsReleased == []<>(coreMu = Free)

(***************************************************************************)
(* "treat the post restart values as fresh traffic instead of a delta from *)
(* the old baseline": whenever a core counter is sampled for the first     *)
(* time after a restart, its whole value is billed.  Not true of the code. *)
(***************************************************************************)
PostRestartIsFresh ==
  [][\A c \in CoreCounters :
       active /\ stale[c] /\ ~stale'[c] => billed'[c] - billed[c] = baseline'[c]]_vars
=============================================================================
