# A verification of the remnawave node agent

The agent runs beside one sing-box process on a proxy node. A panel drives it over HTTP: it
starts and stops the core, adds and removes users, pulls billing data, installs port forwarding
and firewall plugins, selects users for an access audit and orders benchmarks. This directory
models the parts of the agent that keep state, checks them with TLC on small instances and proves
their safety with TLAPS for every instance. Paths are relative to `src/`; `manager.go` is
`internal/node/manager.go`, `forwarding.go` is `internal/forwarding/forwarding.go`.

## 1. The system

| Component | State | Operations | What is hard |
|---|---|---|---|
| Usage store (`internal/usagesnapshot`) | bolt: mode, generation, sequences, baselines, queue | Activate, Capture, Pull, Ack | repeated and late acknowledgements, queue limit, lost volume |
| Usage capture (`manager.go`) | restart marker, `coreMu` | ticker capture, forwarding seal, activation | samples out of order, failed and hung queries, restarts between reads |
| Core lifecycle (`manager.go`, `internal/supervisor`, `internal/state`) | config in memory, hashes, online flag, live and last-good file | Start, Stop, user operations, rollback, status ticker | a failure or crash at every step of the transaction |
| Forwarding (`internal/forwarding`) | applied rules, resolved targets, state file, nftables table and chain | SyncWithHash, RefreshDNS, Restore | three places that must agree and are written one after another |
| Access audit (`internal/accessaudit`) | bolt: policy, records, queue, index, counters | Configure, Apply, Pull, Ack, Prune | replayed streams, late policies, limits |
| Benchmark runner (`internal/benchmark/runner.go`) | jobs in memory and one file each | Start, Cancel, Close, New, prune | crashes, failed saves, damaged records, retries |
| Plugin firewall (`manager.go`) | plugin state, nftables sets | SyncPlugin, DNS refresh, BlockIPs, UnblockIPs, RecreateTables | a failing command between others, requests without a lock, clients that reconnect |
| User connections (`manager.go`, `internal/node/user_connection_provider.go`, `internal/state`, `internal/statname`) | users per inbound in memory and file, index of users, statistics names | AddUser(s), RemoveUser(s), DropUsersConnections, DropIPs, the user queries | requests that fail half way, one HTTP call per connection without a lock, a hung API |

They interact through `Manager.coreMu`, a mutex that Start, Stop, the user operations, captures,
forwarding syncs and plugin syncs hold from start to end. Outside it run the status ticker, the
reset-based statistics, BlockIPs, UnblockIPs, RecreateTables and the requests that close connections.
Forwarding calls into capture
(the seal before a ruleset is replaced) and the core start calls into forwarding (the port check).
Three tickers in `cmd/remnawave-node-go/main.go` drive the status refresh (5 s), the capture and
the DNS refresh (1 min).

`PROJECT.json` lists every component with its status, and under "hazards" what is hard to test in
this code, each at its line with the properties that cover it.

## 2. Modules

| Module | Models |
|---|---|
| `UsageStore` | the store; every method is one bolt transaction, hence one action; no `Next` of its own |
| `ExactlyOnce` | abstract: one log per activation, booked by the panel in order and forgotten behind it |
| `UsageDelivery` | extends `UsageStore` with the panel, the pull and ack exchange and a reinstalled volume; implements `ExactlyOnce` |
| `UsageCapture` | extends `UsageStore` with the samplers, `coreMu`, the restart marker, sing-box, the forwarding table and the legacy queries |
| `ConfigInForce` | abstract: one configuration is in force; a request replaces it, leaves it, or loses it and says so |
| `CoreLifecycle` | Start, Stop, user operations and the transaction `restartSingBox` with rollback; implements `ConfigInForce` |
| `Forwarding` | syncs, DNS refreshes and restores against chain, table, file and DNS |
| `AccessAudit` | audit policies, event stream, delivery |
| `BenchmarkRunner` | the job runner, its files and its recovery |
| `PluginFirewall` | plugin syncs command by command, and the clients an address block cuts off |
| `UserSessions` | which user may use which inbound under which name, and the requests that close connections |
| `MC*` | model values, counters and symmetry for TLC |
| `*_proofs` | the TLAPS proofs about the module of that name: `UsageCapture`, `UsageDelivery`, `CoreLifecycle`, `Forwarding`, `AccessAudit`, `BenchmarkRunner`, `PluginFirewall`, `UserSessions` |

An operation that holds a lock is split where something else can happen in between: at RPC reads,
disk writes, supervisor calls and nft commands, so that a crash, a fault or an unlocked request may
fall between any two. Variables carry the names of the Go fields where there is one; the comment
at each declaration gives the field. Operators named as mutants in a comment are not part of a
specification: each is a plausible wrong version of the definition after it, and the property it
is listed for fails with it.

### How state and actions correspond to the code

**UsageStore.** `active`, `generation`, `nextSequence` and `ackedThrough` are the metadata bucket,
`baseline` and `snapshots` the other two. A counter key is a member of `Counters`; a snapshot is
the function of its deltas, its size the number of counters in it. `Capture` computes the deltas,
advances the baselines and enqueues in one step or, at the limit, does nothing (bolt rolls back).

A pull is limited by a number of snapshots and by a byte budget (`PullBytesCap`), and it stops at the
first snapshot that is larger than the budget.

**UsageDelivery.** The panel is not in this repository. It is modelled from what the request types
allow: it books snapshots in sequence order per generation, and acknowledges what it has booked.
One pull response is under way at a time and may be read twice, late or never; acknowledgements
overtake one another, repeat and get lost. `ExactlyOnce` is what remains without the messages: one log per
activation, which the panel books in order and the agent forgets behind it. Its log is mapped to the queue
of the store behind what was acknowledged (`Log`), so that a snapshot changed in the queue, an
acknowledgement of the wrong generation or a sequence used twice is a step the abstract one does not have.

**UsageCapture.** A caller (`"ticker"`, `"sync"` for the forwarding seal, `"activate"`) goes through
`Begin` (lock), `SampleForwarding`, one `QueryCore` per stats query, and a commit. `"sync"` then
applies a ruleset (`ForwardingApply`, which stands for ForwardingSync and for the apply of a DNS
refresh). A forwarding counter is named by the number of the apply that made it, as its key carries
the scope. The core may restart with the marker (`StartRestarts`), without (`RestartsUnmarked`),
half (`RestartFails`), crash, or hang. History variables: `carried`, the traffic that may be billed
(since the activation, or since its table was applied for a forwarding counter the activation could
not read), `billed`, `stale` baselines older than the last reset of their counter, `resetSince` for samples
in flight.

**CoreLifecycle.** A configuration is the set of its users; hashes are the configuration they were
computed from. `proc` is what the process was started with, `file` and `lastGood` the two files,
`config`, `running`, `online`, `lastHashes`, `hashesDirty` the runtime state, `result` the apply
result. `pc` walks through `restartSingBox`: prepare, check, save, activate, stop, start, health,
commit, or rollback, restore, restart. `misplaced` is history: a configuration that was not applied
has been left in the live file or as the last-known-good one, where the next rollback finds it and takes
it for the previous one. In `ConfigInForce` the configuration in force
is `Unknown` from then (`Misplace`) until a transaction succeeds.

**Forwarding.** A configuration maps enabled rules to a literal address or the host name. `applied`,
`appliedHash`, `resolved`, `lastError`, `dnsStale` are the fields of Service; `disk`, `table` and
`chain` what is outside. The hash of a table is the panel's hash of the configuration it sent. A rule
has a port and a protocol, an inbound of sing-box a listen address, a port, a network and a type;
`CoreListeners` and `inferProtocols` turn inbounds into listeners as `listeners.go` does. `listens` are
the inbounds of the running core, `Services` what the socket and ruleset scans may find.

**AccessAudit.** A window is the number of the policy that opened it, a record is keyed by window
and connection, `pending` and `index` are the buckets. Bytes of upload and download are one total.
An open record has size one and a closed one size two, so that the byte counter changes when a record
is replaced.

**BenchmarkRunner.** `jobs` and `active` in memory, `disk` what the files show and `synced` what
survives a power loss; `runs` counts executions per identifier until retention forgets it.

**PluginFirewall.** `core` is the request under coreMu with its next nft step, `recreate` the one of
RecreateTables beside it. The refresh of every minute loads the sets again when the egress list differs,
and always when it has no address: `reflect.DeepEqual` then compares a nil slice with an empty one.
`connected` are the clients, `blocking` the step each block request is at (`BlockSteps`): it records the
address, adds it to the set and kills its connections, which ss may silently not do. History: `enforced`
are the addresses whose block was answered while the rules dropped it, until the kernel forgets it;
`spared` those whose last block killed nothing. `disturbed` marks that a request outside the lock, an
agent restart or a failed restore has changed the table since the last sync that ran alone, or the last
refresh whose lists make it right again (`LoadSuffices`).

**UserSessions.** A configuration is the set of names in each inbound and the list of counted names; a
name is a user and the inbound it was encoded for, or `Plain`. `memory`, `index`, `running` are the
fields of Runtime, `file` and `served` the configuration on disk and in the process. A user operation
edits the memory and leaves a `pending` restart, which ends in one of the outcomes of `restartSingBox`
(`Restarted`, `Rejected`, `NotWritten`, `RolledBack`, `RollbackFails`); CoreLifecycle has its inner
steps. `NotWritten` includes the case that CoreLifecycle calls `misplaced`: the candidate stays in the live
file while the old process goes on. `drop` walks through DropUsersConnections: list the connections of a user, delete them one by
one, on an error list the addresses and kill those, then the next user. History: `granted` inbounds,
users that are `unsure` after a failed request, connections `due`, users `missed`.

## 3. Runs

| Run | Checks | Bounds | States |
|---|---|---|---|
| `usage_delivery` | `QueueIsInterval`, `NothingLost`, `LedgerIsPrefix`, `SequencesOnlyGrow`, `ImplementsExactlyOnce`, `EventuallyDelivered` | 2 counters, 2 snapshots per generation, 2 generations, 2 acks under way, a byte budget of one entry | 43 thousand |
| `usage_capture` | `NeverOverbills`, `Accounting`, `MarkerBillsInFull`, `LockIsReleased` | 1 core counter in the first of two queries, 1 ruleset, 2 units of traffic, 2 snapshots, 3 callers, a legacy panel | 917 thousand |
| `core_lifecycle` | `UnchangedIsServed`, `LastGoodWasHealthy`, `FileIsServed`, `AnswersAreTrue`, `ImplementsConfigInForce` | 1 user (two configurations), 2 faults, 1 agent restart | 1.92 million |
| `core_noticed` | `DownIsNoticed` | 1 user, 1 fault, no agent restart | 273 thousand |
| `forwarding` | `AppliedIsServed`, `FlowsAreAllowed`, `DiskIsMemory`, `NoPortConflict` | 2 rules and 2 core configurations on one port, 2 addresses, 2 faults, 1 restart, 1 DNS change | 884 thousand |
| `access_audit` | `BucketsAgree`, `NothingLost`, `NeverOvercounts`, `OnlySelectedRecorded`, `ClosedWindowStaysClosed`, `QueueDrains` | 1 connection, 2 windows, 2 records, 3 sequences | 1.13 million |
| `benchmark` | `RunsOnce`, `ReportedIsDurable`, `CancelledIsNotCompleted`, `FinishedIsKept`, `BusyEnds` | 2 identifiers, room for 1 job, 2 items, 2 faults, 1 crash | 66 thousand |
| `plugin_firewall` | `AppliedIsEnforced`, `DomainsStayBlocked`, `BlockedIsCut` | 1 address, 1 domain with 2 addresses, 4 requests, 2 faults, 1 restart | 1.09 million |
| `user_sessions` | `AccessIsGranted`, `ServedIsCounted`, `IndexFollowsCore`, `DropIsComplete`, `DropNeverWaits`, `DropAdvances` | 2 users, 2 inbounds, 1 address, 3 requests, 2 faults, 2 connections | 1.01 million |
| `usage_restart_unmarked` | violates `PostRestartIsFresh` | 1 core counter, 3 units of traffic, 3 snapshots | |
| `core_unchanged` | violates `UnchangedCoreStays` | no faults, audit API on | |
| `forwarding_dns` | violates `RefreshFollowsDNS` | 1 rule, 1 DNS change | |

`TypeOK` is checked as the first conjunct of `QueueIsInterval`, `UnchangedIsServed`, `AppliedIsServed`,
`BucketsAgree`, `RunsOnce`, `AppliedIsEnforced` and `AccessIsGranted`, and by its proof for
`UsageCapture`. It is proved in every module.

The bounds are chosen so that every action fires and the interesting orders exist: two units of traffic
are the least at which a delta differs from a total and from zero; a second query exists so that one may
fail after the other; two generations let an old acknowledgement meet a new database; a byte budget of
one entry lets a snapshot of two block a pull; two rules on one port exclude each other, one core
excludes both of them, the other only the second rule (its inbound on the loopback address excludes
nothing); two users let the failed request of one meet the request of the other; one address shared by
both lets a kill hit a bystander; the queue limits are reached in every run that has one. Counters are
independent of each other in Capture except through the queue limit, which is why one per kind is enough
for billing. The proofs of section 4 remove every bound for the safety properties. Symmetry is used where no liveness is checked
(`plugin_firewall`, `user_sessions`).

### Fairness

* `UsageDelivery`: the panel keeps polling and acknowledging (weak), and an exchange tried for ever
  succeeds sometimes (strong fairness of receiving and of handling an acknowledgement).
* `UsageCapture`: whoever holds `coreMu` takes its next step; every RPC has the 5 s deadline of
  `usageCaptureTimeout`, and the rest is local.
* `AccessAudit`: the panel goes on polling, booking and acknowledging (weak fairness of the three
  together; repeated messages that change nothing do not count as progress).
* `CoreLifecycle`: steps of a request end (supervisor calls and the health wait have timeouts), the
  ticker finishes a refresh, the panel repeats Start and obtains the mutex.
* `Forwarding` (only in `forwarding_dns`): the minute ticker refreshes, and what has begun goes on.
* `BenchmarkRunner`: the goroutine is scheduled, items end within their own limits, and the agent is
  started again after a crash.

`DropNeverWaits` needs no fairness: it says that the handler of a drop request always has a next step,
because the HTTP client has a timeout. `DropAdvances` says that each step leaves it less to do, and that
nobody else's step changes what it has to do: together they bound the request.

### What the violations show

1. `PostRestartIsFresh`. Only Start sets the restart marker. User operations and rollbacks restart
   sing-box without it, and traffic below the old baseline is then never billed. The loss is
   bounded: `NeverOverbills` still holds, so the error is always in the user's favour.
2. `UnchangedCoreStays`. The audit service's `listen_port` is a Go int in the request and a float64
   in memory, so `reflect.DeepEqual` fails and every Start restarts the core, dropping connections.
   Together with 1 each such restart is a marked one, because Start performs it.
3. `RefreshFollowsDNS`. `validateLocked` replaces host names by addresses in the slice it shares
   with its caller; the stored configuration has none left for RefreshDNS to look up.

### Promises with an exception

Each of these states what the code does keep; the excluded case is a behaviour of the code.

* `NeverOverbills` counts, for a forwarding counter that had no baseline at the activation because its
  table was in error, the traffic since the table was applied: the code bills that total, once.
* `EventuallyDelivered` leaves out a snapshot larger than the byte budget of a pull and what is queued
  behind it: `Pull` returns nothing for ever then. One snapshot reaches the budget of 4 MiB only with a
  very large number of users, and the code has no way around it.
* `AppliedIsServed` excludes the time after an apply whose last write failed (`unpersisted`): the
  hash is the panel's, so a table changed by a DNS refresh still matches.
* `FlowsAreAllowed` excludes agents started from a state file with host names (`earlier`), where
  RefreshDNS clears the error of a failed apply without reconciling the chain.
* `UnchangedIsServed` allows a process that died after the last refresh of the online flag.
* `AnswersAreTrue` allows a core that died after the step that confirmed it. It asks nothing of the
  configuration in memory after a rollback, or a rejection, that found no live file.
* `LastGoodWasHealthy`, `UnchangedIsServed` and `FileIsServed` hold while no configuration is
  `misplaced`, and the refinement maps that time to a configuration in force that is `Unknown`. It
  begins when the candidate is renamed into place and both the sync of the directory and the write that
  should undo the rename fail, or when there was no live file and the commit fails after it has
  replaced the last-known-good file. It ends with the next transaction that succeeds.
* `NoPortConflict` covers the rules in memory always, and those the kernel still redirects unless the
  service reports an error or an apply was not recorded: Start looks at the memory alone.
* `AccessIsGranted` leaves out the users of a failed request until a request for them succeeds
  (`unsure`), and `IndexFollowsCore` holds while there are none. A failed Start edits nothing, and puts
  nobody in doubt, unless the sync of the directory fails and restoring the old file fails too: its
  configuration then stays in the live file, where the next rejection or rollback takes it for the
  previous one, and all users are in doubt.
* `DropIsComplete` leaves out users whose addresses could not be listed or killed (`missed`): the code
  answers success all the same.
* `BlockedIsCut` is about blocks that are in force when they are answered, until the kernel forgets them
  (`enforced`): without a table, or while it is recreated, a block is accepted and has no effect. It
  leaves out addresses that ss did not act on (`spared`), because it is missing, fails or the address is
  one it ignores: such a block is answered as accepted too, and old connections stay open.
* `AppliedIsEnforced` does not cover the time after a request outside the lock, an agent restart, a failed
  removal or a failed restore (`disturbed`). It covers that this time ends: with the next sync that runs
  alone, or the next refresh that loads its lists into a table with its rules, or empty lists into any.

## 4. Proofs

Every safety property the runs check, but for `DropNeverWaits`, is also proved with TLAPS, for all values of
the constants that satisfy the named assumptions of the modules. The theorems of a module rest on one
inductive invariant `IInv` (`Forwarding` has a second one on top of it, `Durable`), which TLC checked on the
instance of the module's run before it was proved; the lemmas show `Init => IInv` and, action by action,
`IInv /\ [Next]_vars => IInv'`. An action property follows from `IInv` and one look at every action that can
matter.

| Module | Theorem | Property |
|---|---|---|
| `UsageCapture_proofs` | `AccountingInvariant`, `BillingSafety`, `MarkerSafety`, `MarkerIsBilled` | `TypeOK` and `Accounting`, `NeverOverbills`, `MarkerMeansOldBaselines`, `MarkerBillsInFull` |
| `UsageDelivery_proofs` | `QueueSafety`, `DeliverySafety`, `LedgerSafety`, `SequenceSafety`, `Refinement` | `QueueIsInterval`, `NothingLost`, `LedgerIsPrefix`, `SequencesOnlyGrow`, `ImplementsExactlyOnce` |
| `CoreLifecycle_proofs` | `ShortCutSafety`, `LastGoodSafety`, `FileSafety`, `AnswerSafety`, `Refinement` | `UnchangedIsServed`, `LastGoodWasHealthy`, `FileIsServed`, `AnswersAreTrue`, `ImplementsConfigInForce` |
| `Forwarding_proofs` | `ServiceSafety`, `FirewallSafety`, `PersistenceSafety`, `PortSafety` | `AppliedIsServed`, `FlowsAreAllowed`, `DiskIsMemory`, `NoPortConflict` |
| `AccessAudit_proofs` | `BucketSafety`, `DeliverySafety`, `CountingSafety`, `SelectionSafety`, `PolicySafety` | `BucketsAgree`, `NothingLost`, `NeverOvercounts`, `OnlySelectedRecorded`, `ClosedWindowStaysClosed` |
| `BenchmarkRunner_proofs` | `ExecutionSafety`, `DurabilitySafety`, `CancellationSafety`, `RetentionSafety` | `RunsOnce`, `ReportedIsDurable`, `CancelledIsNotCompleted`, `FinishedIsKept` |
| `PluginFirewall_proofs` | `EnforcementSafety`, `DomainSafety`, `BlockSafety` | `AppliedIsEnforced`, `DomainsStayBlocked`, `BlockedIsCut` |
| `UserSessions_proofs` | `AccessSafety`, `CountingSafety`, `IndexSafety`, `DropSafety`, `DropProgress` | `AccessIsGranted`, `ServedIsCounted`, `IndexFollowsCore`, `DropIsComplete`, `DropAdvances` |

### Assumptions

The assumptions say that bounds are natural numbers, that flags are Booleans and that the marks for
"none" are not values. Beyond that: the set of counters is finite (`StoreAssumption`), as bolt buckets
are; the set of task identifiers is finite (`BenchmarkAssumption`), so that retention can choose the
oldest record; forwarding counters are named by the number of their apply, and no periodic caller has
the name of another one (`CaptureAssumption`); rules have a port and one of the three protocols, inbounds
one of the types that `listeners.go` tells apart (`ForwardingAssumption`). Users, connections, addresses,
inbounds, domains and rules may be infinite sets. TLC evaluates every assumption in the runs.

### The invariants

**UsageCapture** (`TypeOK`, `Accounting`). `NeverOverbills` is not inductive: nothing in it says what a
sample that is under way may still bill. `SamplingHoldsLock` says that whoever is between its first read
and its commit holds `coreMu`, so there is only one sample in flight and the baseline cannot move under
it. `SamplesAreInFlight` ties samples to the phase of their caller. `MarkerMeansOldBaselines` says that
a pending marker only ever turns old baselines into fresh traffic. `FreshScopes` says that a ruleset yet
to come has counted nothing. `SamplesAreCurrent` bounds each value read by baseline and current value,
or, when a legacy query has reset the counter since, says that billing the value and everything since is
covered by carried traffic. `Accounted` is the ledger: `billed` plus what the next sample may add
(`Owed`) is at most `carried`. `MarkerBillsInFull` uses that a delta after a marked restart is the value
itself.

**UsageDelivery.** `NothingLost` is about the queue and the ledger, but what breaks it would be a
message: `AcksAreBooked` says that every acknowledgement under way, however old, claims no more than the
ledger of its own generation, and `ResponsesAreCaptured` that every response is a part of what its own
generation captured. With `QueueFollowsHistory` (the queue is the end of the history) and
`LedgerIsCaptured` (the ledger is its beginning) the two meet. `Refinement` then shows for each action
which step of `ExactlyOnce` it is: the logs of the mapping are what was captured (`LogsAreCaptured`), so an
accepted acknowledgement forgets no more than was booked, a response adds to the ledger the next snapshot of
its own log or nothing, and losing, repeating or delaying a message is no step at all.

**CoreLifecycle** (`TypeOK`, `Tracked`, `Placed`). `Tracked` follows the transaction: its locals are what
there was when it began, and which of the two files and the process have been replaced at each step.
`Placed` is the argument for the short cut of Start: what a rollback would bring back (`Recoverable`) was
healthy, is on disk, is served, and is what `lastHashes` stands for unless `hashesDirty`. `AnswerSafety`
goes through the steps that answer and compares what they leave with what there was before the request
(`BeforeIsKnown` ties the history variable to the locals of the transaction); it also supports the outcomes
that `UserSessions` takes a restart to have. `Refinement` shows that every step maps to one of
`ConfigInForce` or changes nothing of it.

**Forwarding.** The three places: `MemoryIsDisk`, `TableIsDisk` (unless an apply was not recorded) and,
for agents without a file of an earlier release, `NoHostsLeft` for the chain. `CallIsKnown` says what
the steps of an apply have done so far, `LoadedUnlessError` that a file outside the memory means an error,
`FileIsSound` and `RulesAreFree` that no conflict is stored. `PortSafety` also needs that the code's
inference of listeners finds every socket an inbound opens (lemmas about `CoreListeners`).
`PersistenceSafety` speaks of every moment, in the middle of an apply as well, and needs a second invariant
on top of the first: `Durable` says that file and memory are about the configuration acknowledged last
(`FileIsWanted`, `MemoryIsWanted`, host names resolved or not) and that an apply under way is too, unless a
sync began it (`CallIsWanted`).

**AccessAudit.** `BucketsAgree` includes both counters, so the proof follows the cardinality of the records
and of the closed ones through every change of the bucket. `NothingLost` needs `BatchesAreCurrent`, which
says that a batch, however late it is booked, holds no version newer than the record, the same one if
it is as new, and everything queued up to its last sequence, and `AckedIsBooked`. `NeverOvercounts` needs that a
record starts from what was carried when its window opened (`RecordsAreHonest`) and that the stream is
never ahead of the connection (`BytesGrow`). `ClosedWindowStaysClosed` needs `PoliciesAreOrdered`: a
window a later policy has and an earlier one has not is newer than the earlier policy.

**BenchmarkRunner.** `ExecutedIsKnown` says that whatever was executed and not forgotten has a record in
memory, on disk and on durable storage; `ActiveIsRunning` that the active job is the youngest, for
which `TimesPast` bounds the times of all records, those of damaged files included.

**PluginFirewall.** `BuiltSoFar` says which part of the target the commands issued so far have built; a
refresh begins at the lists, so there it says that the table has its rules or that the lists are empty.
`Consistent` says that a compiled plugin blocks exactly the addresses of its domains, and at least one each.
`CutIsEnforced` adds to `BlockedIsCut` that an enforced block is in a table that drops it: no packet of the
address makes a connection, so what ss has killed stays killed.

**UserSessions.** `UsersAsGranted` gives file and, but for the edits under way, memory; `CoreServesGranted`
the process, which need not run the file when a candidate was left there; `CandidateIsRequested` what a
pending request will write. `DueIsPending` says at which step of the drop each connection that is
due will be closed. `DropProgress` needs that only the steps of the handler change what it has to do
(`DropIsAlone`); the order is users left, then the phase, then what the phase has listed.

### What the proofs found

* With two disk faults `UnchangedIsServed`, `LastGoodWasHealthy`, `FileIsServed` and the refinement were
  false as first stated. The case is a behaviour of the code and is now part of the model (`misplaced`,
  `Unknown`), of the run and of the theorems.
* Two CASE expressions had guards that overlap (the outcome of a benchmark job, the protocols of an
  inbound). The code tests them in order; they are nested conditionals now.
* The byte counter and the windows of `AccessAudit` are defined by `Put`, `SizeOf` and `NewPolicy`
  without folds, so that they can be reasoned about.

### Only model-checked

Liveness (`EventuallyDelivered`, `LockIsReleased`, `QueueDrains`, `DownIsNoticed`, `BusyEnds`) and
`DropNeverWaits` need ENABLED, which the provers do not support. The three violations are
counterexamples of TLC.

## 5. Not modelled

Configuration, authentication, system statistics, runtime status, geocheck and request validation keep
no state across calls. The wire formats (HTTP routing, XML-RPC, gRPC, protobuf) and the text of
nftables rulesets are data. The benchmark's measurements and sing-box itself are external. Byte sizes
are counts of entries. `DISABLE_HASH_CHECK` only adds restarts. int64 overflow of counters is out of
range for bytes carried by a node (UsageCounters clamps at the maximum). The audit's database is not lost
in `AccessAudit`, so the generation check of its `Ack` always passes and is left out. `BenchmarkRunner`
assumes a wall clock that does not step back. The map of seen addresses in
`internal/state` has no writer (RecordUserIP is never called). A shutdown cancels the tickers and closes the servers in turn;
every module allows the agent to end between any two of its steps, so no order of shutdown shows
anything the crashes do not.

## 6. Order of work, and what is left

In order of importance: billing (`UsageStore`, `UsageDelivery`, `UsageCapture`), core lifecycle with its
abstract specification, forwarding with its port checks, audit with its delivery, benchmark, plugins with
the clients they cut off, users and their connections. The safety of all of them is proved, and so are the
refinements of `ConfigInForce` and `ExactlyOnce`.

Left for later:

1. An abstract specification of the audit's delivery, where a newer version replaces an older one, and one
   of what the panel sees of a benchmark job.
2. The safety half of the other liveness properties, in the way of `DropAdvances`: what a pull and its
   acknowledgement, or the apply of a ruleset, leave less of.
3. Inbounds beyond the three types that stand for the cases of `inferProtocols`.
