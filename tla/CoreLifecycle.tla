---------------------------- MODULE CoreLifecycle ----------------------------
(***************************************************************************)
(* The lifecycle of the sing-box process (internal/node/manager.go,        *)
(* internal/state/state.go): Start, Stop and the user operations, and the  *)
(* transaction restartSingBox that all of them but Stop run under coreMu.  *)
(* The transaction writes files, calls supervisord and waits for health;   *)
(* each of these may fail, the process may crash and the agent may be      *)
(* restarted between any two of them.  SyncProcessStatus and Healthcheck   *)
(* refresh the online flag without the lock.                               *)
(*                                                                         *)
(* Data: a configuration is the set of its users.  Its hashes (StartHashes *)
(* in the panel's request, sha256 in the apply result) tell configurations *)
(* apart, so a hash is the configuration itself.                           *)
(***************************************************************************)
EXTENDS Naturals, FiniteSets

CONSTANTS
  Users,          \* the users a configuration may list
  NoUser,         \* not a user; marks the absence of a configuration
  Unknown,        \* not a configuration: nothing is promised about which one it is
  AuditPort,      \* cfg.SingBoxAuditAPIPort > 0, the default
  MaxFaults,      \* bound: writes that fail and live files that somebody else removes
  MaxRestarts     \* bound: restarts of the agent

Configs == SUBSET Users
NoConfig == {NoUser}    \* no file, no process, no hash

ASSUME LifecycleAssumption ==
  /\ NoUser \notin Users
  /\ \A c \in Configs \cup {NoConfig} : c # Unknown
  /\ AuditPort \in BOOLEAN
  /\ MaxFaults \in Nat /\ MaxRestarts \in Nat

Phases == {"idle", "decide", "prepare", "check", "save", "activate", "stop", "start",
           "health", "commit", "rollback", "restore", "restart"}

VARIABLES
  proc,          \* supervisord: the configuration sing-box was started with, or NoConfig
  file,          \* the live configuration file (cfg.SingBoxConfigPath)
  lastGood,      \* the last-known-good file (cfg.SingBoxLastGoodPath)
  running,       \* state.running = SING_BOX
  config,        \* state.singBoxConfig, NoConfig when it was never set
  online,        \* state.singBoxOnline
  lastHashes,    \* state.lastHashes
  hashesDirty,   \* state.hashesDirty
  result,        \* singBoxApplyResult: status, activeHash and rollback
  pc,            \* where the holder of coreMu is; "idle" when nobody holds it
  request,       \* the request it serves: "start" or "users", the configuration, force
  previous,      \* the locals previousCore, previousConfig and previousRuntimeConfig
  ticker         \* what an unlocked refreshOnlineStatus has read but not yet stored

\* History: the configurations that passed a health check, what there was when
\* the transaction began, whether a configuration that was not applied has been
\* left where a rollback finds it, and the faults so far.
VARIABLES confirmed, before, misplaced, faults

filesVars == <<file, lastGood>>
stateVars == <<running, config, online, lastHashes, hashesDirty>>
callVars == <<pc, request, previous, result>>
historyVars == <<confirmed, before, misplaced, faults>>
vars == <<proc, filesVars, stateVars, callVars, ticker, historyVars>>

Statuses == {"NONE", "PENDING", "UNCHANGED", "REJECTED", "APPLIED", "ROLLED_BACK", "FAILED"}
Rollbacks == {"NOT_REQUIRED", "NOT_AVAILABLE", "SUCCEEDED", "FAILED"}
Optional == Configs \cup {NoConfig}

\* Every variable of the agent, of supervisord and of the disk has its type; in
\* particular a user operation never makes a configuration where there is none.
TypeOK ==
  /\ proc \in Optional /\ file \in Optional /\ lastGood \in Optional
  /\ running \in BOOLEAN /\ online \in BOOLEAN /\ hashesDirty \in BOOLEAN
  /\ config \in Optional /\ lastHashes \in Optional
  /\ result \in [status : Statuses, active : Optional, rollback : Rollbacks]
  /\ pc \in Phases
  /\ request \in [kind : {"start", "users"}, config : Configs, force : BOOLEAN]
  /\ previous \in [core : BOOLEAN, config : Optional, runtime : Optional]
  /\ ticker \in {"none", "online", "offline"}
  /\ confirmed \subseteq Configs
  /\ before \in [proc : Optional, file : Optional, lastGood : Optional, running : BOOLEAN]
  /\ misplaced \in BOOLEAN
  /\ faults \in [disk : 0..MaxFaults, agent : 0..MaxRestarts]

NoRequest == [kind |-> "start", config |-> {}, force |-> FALSE]
NoPrevious == [core |-> FALSE, config |-> NoConfig, runtime |-> NoConfig]
NoBefore == [proc |-> NoConfig, file |-> NoConfig, lastGood |-> NoConfig, running |-> FALSE]
NoResult == [status |-> "NONE", active |-> NoConfig, rollback |-> "NOT_REQUIRED"]

Init ==
  /\ proc = NoConfig /\ file = NoConfig /\ lastGood = NoConfig
  /\ running = FALSE /\ online = FALSE /\ hashesDirty = FALSE
  /\ config = NoConfig /\ lastHashes = NoConfig
  /\ pc = "idle" /\ request = NoRequest /\ previous = NoPrevious /\ result = NoResult
  /\ ticker = "none"
  /\ confirmed = {}
  /\ before = NoBefore /\ misplaced = FALSE
  /\ faults = [disk |-> 0, agent |-> 0]

-----------------------------------------------------------------------------
\* supervisord, the disk and the online flag.

\* The state of the process as GetProcessInfo tells it; a call that fails
\* tells nothing, which reads as "not running".
RefreshOnline(p) == online' \in {p # NoConfig, FALSE}

\* StopProcess: the caller ignores an error.
StopProcess == proc' \in {NoConfig, proc}

\* Mutant: the fault "already started" counts as a success.
StartProcessTwice ==
  /\ file # NoConfig
  /\ proc' = IF proc = NoConfig THEN file ELSE proc

\* StartProcess succeeds only on a stopped process.
StartProcess ==
  /\ proc = NoConfig
  /\ file # NoConfig
  /\ proc' = file

\* An error of StartProcess: already started, a bad exit, or a lost answer.
StartProcessFails ==
  \/ UNCHANGED proc
  \/ StartProcess

DiskFaults(n) ==
  /\ faults.disk + n <= MaxFaults
  /\ faults' = [faults EXCEPT !.disk = @ + n]

Result(status, active, rollback) ==
  result' = [status |-> status, active |-> active, rollback |-> rollback]

\* A request is answered, the deferred unlock.
Return ==
  /\ pc' = "idle"
  /\ request' = NoRequest
  /\ previous' = NoPrevious
  /\ before' = NoBefore
  /\ UNCHANGED ticker

Goto(phase) == pc' = phase

-----------------------------------------------------------------------------
\* Start, up to its decision.

\* Start takes the lock; SyncEnvironment refreshes the online flag.
BeginStart(c, force) ==
  /\ pc = "idle"
  /\ Goto("decide")
  /\ request' = [kind |-> "start", config |-> c, force |-> force]
  /\ RefreshOnline(proc)
  /\ UNCHANGED <<proc, filesVars, running, config, lastHashes, hashesDirty, previous, result,
                 ticker, historyVars>>

\* The configuration is empty, or forwarding.ValidateCoreConfig finds a port
\* conflict.
StartRefused ==
  /\ pc = "decide"
  /\ UNCHANGED online \/ RefreshOnline(proc)
  /\ Return
  /\ UNCHANGED <<proc, filesVars, running, config, lastHashes, hashesDirty, result, confirmed, misplaced, faults>>

\* The configuration in memory and the requested one, compared by
\* reflect.DeepEqual.  Memory holds what was decoded from JSON; the service
\* that applySingBoxAPIConfig adds for the audit API to the requested one has
\* a Go int as its listen_port, which no decoded number equals.
DeepEqual(c) == ~AuditPort /\ config = c

\* Mutants: the online flag, or the dirty mark and the hashes, are not looked at.
ShouldRestartIgnoresOnline(c, force) ==
  force \/ ~running \/ hashesDirty \/ lastHashes # c \/ ~DeepEqual(c)

ShouldRestartIgnoresHashes(c, force) == force \/ ~running \/ ~online \/ ~DeepEqual(c)

\* shouldRestartCore and the comparison with the configuration in memory.
ShouldRestart(c, force) ==
  \/ force
  \/ ~running
  \/ ~online
  \/ hashesDirty
  \/ lastHashes # c
  \/ ~DeepEqual(c)

StartUnchanged ==
  /\ pc = "decide"
  /\ ~ShouldRestart(request.config, request.force)
  /\ config' = request.config
  /\ Result("UNCHANGED", request.config, "NOT_REQUIRED")
  /\ lastHashes' = request.config
  /\ hashesDirty' = FALSE
  /\ RefreshOnline(proc)
  /\ Return
  /\ UNCHANGED <<proc, filesVars, running, confirmed, misplaced, faults>>

StartDecides ==
  /\ pc = "decide"
  /\ ShouldRestart(request.config, request.force)
  /\ Goto("prepare")
  /\ UNCHANGED <<proc, filesVars, stateVars, request, previous, result, ticker, historyVars>>

-----------------------------------------------------------------------------
\* User operations: they edit the configuration in memory, then restart.

RestartCurrentCore(c) ==
  /\ hashesDirty' = TRUE
  /\ Goto("prepare")
  /\ request' = [kind |-> "users", config |-> c, force |-> FALSE]
  /\ UNCHANGED <<proc, filesVars, running, online, lastHashes, previous, result, ticker, historyVars>>

AddUsers(added) ==
  /\ pc = "idle" /\ running
  /\ config' = config \cup added
  /\ RestartCurrentCore(config \cup added)

\* An item fails after the earlier ones were applied and its own user was
\* removed: the request fails, the configuration in memory stays edited.
AddUsersFails(done, failed) ==
  /\ pc = "idle" /\ running
  /\ config' = (config \cup done) \ {failed}
  /\ UNCHANGED <<proc, filesVars, running, online, lastHashes, hashesDirty, callVars, ticker, historyVars>>

RemoveUsers(removed) ==
  /\ pc = "idle" /\ running
  /\ config' = config \ removed
  /\ RestartCurrentCore(config \ removed)

\* A request without users passes even when no core is running.
NoUsersNoCore ==
  /\ pc = "idle" /\ ~running
  /\ hashesDirty' = TRUE
  /\ UNCHANGED <<proc, filesVars, running, config, online, lastHashes, callVars, ticker, historyVars>>

-----------------------------------------------------------------------------
\* The transaction restartSingBox.

\* The candidate is written and the live configuration read.
Prepare ==
  /\ pc = "prepare"
  /\ previous' = [core |-> running, config |-> file,
                  runtime |-> IF running /\ file # NoConfig THEN file ELSE config]
  /\ before' = [proc |-> proc, file |-> file, lastGood |-> lastGood, running |-> running]
  /\ Result("PENDING", NoConfig, "NOT_REQUIRED")
  /\ Goto("check")
  /\ UNCHANGED <<proc, filesVars, stateVars, request, ticker, confirmed, misplaced, faults>>

\* The requester is told that nothing was applied; Start refreshes the flag.
FailRequest ==
  /\ Return
  /\ IF request.kind = "start" THEN RefreshOnline(proc) ELSE UNCHANGED online

PrepareFails ==
  /\ pc = "prepare"
  /\ DiskFaults(1)
  /\ Result("FAILED", NoConfig, "NOT_REQUIRED") \/ UNCHANGED result
  /\ FailRequest
  /\ UNCHANGED <<proc, filesVars, running, config, lastHashes, hashesDirty, confirmed, misplaced>>

Check ==
  /\ pc = "check"
  /\ Goto("save")
  /\ UNCHANGED <<proc, filesVars, stateVars, request, previous, result, ticker, historyVars>>

Rejects ==
  /\ pc = "check"
  /\ config' = IF previous.core /\ previous.config # NoConfig THEN previous.runtime ELSE config
  /\ Result("REJECTED", previous.config, "NOT_REQUIRED")
  /\ FailRequest
  /\ UNCHANGED <<proc, filesVars, running, lastHashes, hashesDirty, confirmed, misplaced, faults>>

\* Mutant: the candidate is made last-known-good before it was healthy.
SaveLastGoodEarly ==
  /\ pc = "save"
  /\ lastGood' = request.config
  /\ Goto("activate")
  /\ UNCHANGED <<proc, file, stateVars, request, previous, result, ticker, historyVars>>

SaveLastGood ==
  /\ pc = "save"
  /\ lastGood' = IF previous.core /\ previous.config # NoConfig THEN previous.config ELSE lastGood
  /\ Goto("activate")
  /\ UNCHANGED <<proc, file, stateVars, request, previous, result, ticker, historyVars>>

\* writeFileAtomic may fail before or after its rename.
SaveLastGoodFails ==
  /\ pc = "save"
  /\ previous.core /\ previous.config # NoConfig
  /\ DiskFaults(1)
  /\ lastGood' \in {lastGood, previous.config}
  /\ Result("FAILED", previous.config, "NOT_REQUIRED")
  /\ FailRequest
  /\ UNCHANGED <<proc, file, running, config, lastHashes, hashesDirty, confirmed, misplaced>>

\* The candidate replaces the live file.
Activate ==
  /\ pc = "activate"
  /\ file' = request.config
  /\ Goto("stop")
  /\ UNCHANGED <<proc, lastGood, stateVars, request, previous, result, ticker, historyVars>>

\* The rename fails, or the directory cannot be synced and the old file is
\* put back, or that fails as well and the candidate may stay.
ActivateFails ==
  /\ pc = "activate"
  /\ \/ /\ DiskFaults(1)
        /\ UNCHANGED file
        /\ Result("FAILED", previous.config, "NOT_REQUIRED")
     \/ /\ DiskFaults(1)
        /\ file' = previous.config
        /\ Result("FAILED", previous.config, "SUCCEEDED")
     \/ /\ DiskFaults(2)
        /\ file' \in {request.config, previous.config}
        /\ Result("FAILED", previous.config, "FAILED")
  /\ misplaced' = (misplaced \/ file' # previous.config)
  /\ FailRequest
  /\ UNCHANGED <<proc, lastGood, running, config, lastHashes, hashesDirty, confirmed>>

StopOld ==
  /\ pc = "stop"
  /\ StopProcess
  /\ Goto("start")
  /\ UNCHANGED <<filesVars, stateVars, request, previous, result, ticker, historyVars>>

StartNew ==
  /\ pc = "start"
  /\ \/ StartProcess /\ Goto("health")
     \/ StartProcessFails /\ Goto("rollback")
  /\ UNCHANGED <<filesVars, stateVars, request, previous, result, ticker, historyVars>>

\* supervisord says RUNNING and the stats API answers; or a final state, or
\* the timeout.
WaitHealthy ==
  /\ pc = "health"
  /\ \/ /\ proc # NoConfig
        /\ confirmed' = confirmed \cup {proc}
        /\ Goto("commit")
     \/ /\ Goto("rollback")
        /\ UNCHANGED confirmed
  /\ UNCHANGED <<proc, filesVars, stateVars, request, previous, result, ticker, before, misplaced, faults>>

Commit ==
  /\ pc = "commit"
  /\ lastGood' = request.config
  /\ Result("APPLIED", request.config, "NOT_REQUIRED")
  /\ config' = request.config
  /\ running' = TRUE
  /\ RefreshOnline(proc)
  /\ \/ /\ request.kind = "start"
        /\ lastHashes' = request.config
        /\ hashesDirty' = FALSE
     \/ /\ request.kind = "users"
        /\ UNCHANGED <<lastHashes, hashesDirty>>
  /\ misplaced' = FALSE
  /\ Return
  /\ UNCHANGED <<proc, file, confirmed, faults>>

\* Without a previous file the rollback will take this one for the last good.
CommitFails ==
  /\ pc = "commit"
  /\ DiskFaults(1)
  /\ lastGood' \in {lastGood, request.config}
  /\ misplaced' = (misplaced \/ (previous.config = NoConfig /\ lastGood' # lastGood))
  /\ Goto("rollback")
  /\ UNCHANGED <<proc, file, stateVars, request, previous, result, ticker, confirmed, before>>

-----------------------------------------------------------------------------
\* rollbackSingBox.

RollbackStops ==
  /\ pc = "rollback"
  /\ StopProcess
  /\ Goto("restore")
  /\ UNCHANGED <<filesVars, stateVars, request, previous, result, ticker, historyVars>>

\* Without a previous file the last-known-good one stands in for it.
RestoredFile ==
  IF previous.config # NoConfig \/ ~previous.core THEN previous.config ELSE lastGood

RestoreFiles ==
  /\ pc = "restore"
  /\ file' = RestoredFile
  /\ lastGood' = IF previous.core /\ previous.config # NoConfig THEN previous.config ELSE lastGood
  /\ Goto("restart")
  /\ UNCHANGED <<proc, stateVars, request, previous, result, ticker, historyVars>>

\* Mutant: the core still counts as running.
RollbackFailsKeepsRunning ==
  /\ UNCHANGED running
  /\ RefreshOnline(proc')
  /\ Result("FAILED", previous.config, "FAILED")
  /\ Return

RollbackFails ==
  /\ running' = FALSE
  /\ RefreshOnline(proc')
  /\ Result("FAILED", previous.config, "FAILED")
  /\ Return

RestoreFilesFails ==
  /\ pc = "restore"
  /\ DiskFaults(1)
  /\ file' \in {file, previous.config, RestoredFile}
  /\ lastGood' \in IF previous.core /\ previous.config # NoConfig /\ file' = previous.config
                   THEN {lastGood, previous.config} ELSE {lastGood}
  /\ UNCHANGED <<proc, config, lastHashes, hashesDirty, confirmed, misplaced>>
  /\ RollbackFails

\* Mutant: the edited configuration stays in memory.
RestartPreviousKeepsEdits ==
  /\ pc = "restart"
  /\ previous.core
  /\ StartProcess
  /\ running' = TRUE
  /\ RefreshOnline(proc')
  /\ Result("ROLLED_BACK", previous.config, "SUCCEEDED")
  /\ Return
  /\ UNCHANGED <<config, filesVars, lastHashes, hashesDirty, confirmed, misplaced, faults>>

RestartPrevious ==
  /\ pc = "restart"
  /\ previous.core
  /\ config' = previous.runtime
  /\ StartProcess
  /\ running' = TRUE
  /\ RefreshOnline(proc')
  /\ Result("ROLLED_BACK", previous.config, "SUCCEEDED")
  /\ Return
  /\ UNCHANGED <<filesVars, lastHashes, hashesDirty, confirmed, misplaced, faults>>

RestartPreviousFails ==
  /\ pc = "restart"
  /\ previous.core
  /\ config' = previous.runtime
  /\ StartProcessFails
  /\ RollbackFails
  /\ UNCHANGED <<filesVars, lastHashes, hashesDirty, confirmed, misplaced, faults>>

\* No core was running: nothing is started.
NothingToRestart ==
  /\ pc = "restart"
  /\ ~previous.core
  /\ running' = FALSE
  /\ RefreshOnline(proc)
  /\ IF previous.config = NoConfig
     THEN Result("FAILED", NoConfig, "NOT_AVAILABLE")
     ELSE Result("ROLLED_BACK", previous.config, "SUCCEEDED")
  /\ Return
  /\ UNCHANGED <<proc, filesVars, config, lastHashes, hashesDirty, confirmed, misplaced, faults>>

-----------------------------------------------------------------------------
\* Stop, the unlocked refresh, and the environment.

Stop ==
  /\ pc = "idle"
  /\ StopProcess
  /\ running' = FALSE /\ online' = FALSE
  /\ UNCHANGED <<filesVars, config, lastHashes, hashesDirty, callVars, ticker, historyVars>>

\* refreshOnlineStatus from SyncProcessStatus or Healthcheck: the answer of
\* supervisord and the store of the flag are two steps.
TickerReads ==
  /\ ticker = "none"
  /\ ticker' \in {IF proc # NoConfig THEN "online" ELSE "offline", "offline"}
  /\ UNCHANGED <<proc, filesVars, stateVars, callVars, historyVars>>

TickerStores ==
  /\ ticker # "none"
  /\ online' = (ticker = "online")
  /\ ticker' = "none"
  /\ UNCHANGED <<proc, filesVars, running, config, lastHashes, hashesDirty, callVars, historyVars>>

CoreCrashes ==
  /\ proc # NoConfig
  /\ proc' = NoConfig
  /\ UNCHANGED <<filesVars, stateVars, callVars, ticker, historyVars>>

FileLost ==
  /\ pc = "idle" /\ file # NoConfig
  /\ DiskFaults(1)
  /\ file' = NoConfig
  /\ UNCHANGED <<proc, lastGood, stateVars, callVars, ticker, confirmed, misplaced, before>>

\* The agent is the container's first process: sing-box dies with it.  The
\* volume with lastGood stays, /run may be empty afterwards.
AgentRestarts ==
  /\ faults.agent < MaxRestarts
  /\ faults' = [faults EXCEPT !.agent = @ + 1]
  /\ proc' = NoConfig
  /\ file' \in {file, NoConfig}
  /\ running' = FALSE /\ online' = FALSE /\ hashesDirty' = FALSE
  /\ config' = NoConfig /\ lastHashes' = NoConfig
  /\ pc' = "idle" /\ request' = NoRequest /\ previous' = NoPrevious /\ result' = NoResult
  /\ ticker' = "none"
  /\ before' = NoBefore
  /\ UNCHANGED <<lastGood, confirmed, misplaced>>

-----------------------------------------------------------------------------
\* The steps of the request that holds coreMu.
Step ==
  \/ StartRefused \/ StartUnchanged \/ StartDecides
  \/ Prepare \/ PrepareFails \/ Check \/ Rejects \/ SaveLastGood \/ SaveLastGoodFails
  \/ Activate \/ ActivateFails \/ StopOld \/ StartNew \/ WaitHealthy \/ Commit \/ CommitFails
  \/ RollbackStops \/ RestoreFiles \/ RestoreFilesFails
  \/ RestartPrevious \/ RestartPreviousFails \/ NothingToRestart

Environment == CoreCrashes \/ FileLost \/ AgentRestarts

Next ==
  \/ \E c \in Configs, force \in BOOLEAN : BeginStart(c, force)
  \/ \E added \in Configs : AddUsers(added)
  \/ \E done \in Configs, failed \in Users : AddUsersFails(done, failed)
  \/ \E removed \in Configs : RemoveUsers(removed)
  \/ NoUsersNoCore
  \/ Step
  \/ Stop
  \/ TickerReads
  \/ TickerStores
  \/ Environment

Spec == Init /\ [][Next]_vars

(***************************************************************************)
(* The panel sends Start again and again and gets coreMu in the end (a Go  *)
(* mutex does not starve a waiter); the steps of a request end (every call *)
(* has a timeout), and so does a refresh of the ticker; it does not ask    *)
(* for a port conflict every time.                                         *)
(***************************************************************************)
FairSpec ==
  /\ Spec
  /\ WF_vars(Step)
  /\ SF_vars(StartDecides)
  /\ WF_vars(TickerStores)
  /\ SF_vars(\E c \in Configs : BeginStart(c, FALSE))

-----------------------------------------------------------------------------
\* restartSingBox between its first write and its answer.
Transaction == {"check", "save", "activate", "stop", "start", "health", "commit",
                "rollback", "restore", "restart"}

OrLastGood(c, good) == IF c = NoConfig THEN good ELSE c

(***************************************************************************)
(* The short cut of Start is sound: when it decides not to restart, the    *)
(* process runs the requested configuration (or has just died), whatever   *)
(* failed requests, partly applied user operations and rollbacks came      *)
(* before.  hashesDirty, lastHashes and config are needed for that.  Not   *)
(* while a candidate is misplaced: a rollback may have started that one.   *)
(* Every variable of the lifecycle has its type.                           *)
(***************************************************************************)
UnchangedIsServed ==
  /\ TypeOK
  /\ pc = "decide" /\ ~ShouldRestart(request.config, request.force) /\ ~misplaced =>
       proc \in {request.config, NoConfig}

(***************************************************************************)
(* The last-known-good file holds a configuration that passed the health   *)
(* check, at every step of every transaction and across agent restarts     *)
(* (a misplaced candidate is saved as if it had been running).             *)
(***************************************************************************)
LastGoodWasHealthy == ~misplaced => lastGood \in confirmed \cup {NoConfig}

(***************************************************************************)
(* Between requests the live file is what the process was started with, so *)
(* that the next rollback recovers the running configuration from disk,    *)
(* unless a candidate that could not be removed has taken its place.       *)
(***************************************************************************)
FileIsServed ==
  pc = "idle" /\ running /\ proc # NoConfig /\ ~misplaced => file \in {proc, NoConfig}

\* What the step that answers has left behind, by the status it answers with.

AppliedIsTrue ==
  /\ running'
  /\ file' = request.config /\ lastGood' = file' /\ config' = file'
  /\ proc' \in {file', NoConfig}

RejectedIsTrue ==
  /\ running' = before.running /\ proc' \in {before.proc, NoConfig}
  /\ file' = before.file /\ lastGood' = before.lastGood
  /\ running' /\ file' # NoConfig => config' = file'

RolledBackIsTrue ==
  /\ running' = before.running
  /\ before.file # NoConfig => file' = before.file
  /\ running' => proc' = file'
  /\ running' /\ before.file # NoConfig => config' = file'
  /\ running' /\ ~misplaced' => file' = OrLastGood(before.file, before.lastGood)

FailedIsTrue ==
  \/ ~running'
  \/ /\ before.running /\ proc' \in {before.proc, NoConfig}
     /\ file' = before.file \/ misplaced'
     /\ lastGood' \in {before.lastGood, before.file}

AnswerIsTrue ==
  /\ result'.status = "APPLIED" => AppliedIsTrue
  /\ result'.status = "REJECTED" => RejectedIsTrue
  /\ result'.status = "ROLLED_BACK" => RolledBackIsTrue
  /\ result'.status = "FAILED" => FailedIsTrue
  /\ running' /\ ~misplaced' => result'.active \in {file', NoConfig}

(***************************************************************************)
(* What restartSingBox answers is what it did, whatever failed on the way. *)
(* APPLIED: files and memory hold the candidate, and no other one runs.    *)
(* REJECTED: process and files are untouched, memory is the running        *)
(* configuration again.  ROLLED_BACK: the file from before is back, and a  *)
(* core that ran before runs it (the last good one if there was no file).  *)
(* FAILED: the core counts as stopped, or it was never touched.  The hash  *)
(* reported as active, if any, is the live file's.                         *)
(***************************************************************************)
AnswersAreTrue == [][result' # result /\ pc \in Transaction => AnswerIsTrue]_vars

(***************************************************************************)
(* A core that is down is noticed: the panel's Start restarts it, stale    *)
(* refreshes of the online flag can only delay that.                       *)
(***************************************************************************)
DownIsNoticed == (proc = NoConfig) ~> (proc # NoConfig \/ pc = "prepare")

(***************************************************************************)
(* "unchanged online core should not restart": the same request for the    *)
(* same configuration leaves a running core, found online, alone.  Not     *)
(* true of the code as it ships: with the audit API on, the comparison of  *)
(* the configurations always fails and every Start restarts the core.      *)
(***************************************************************************)
UnchangedCoreStays ==
  /\ pc = "decide" /\ ~request.force /\ running /\ online
  /\ ~hashesDirty /\ lastHashes = request.config /\ config = request.config
  => ~ShouldRestart(request.config, request.force)

-----------------------------------------------------------------------------
\* What a panel sees of all this: the configuration in force.

InForce ==
  IF ~(IF pc \in Transaction THEN previous.core ELSE running) THEN NoConfig
  ELSE IF misplaced THEN Unknown
  ELSE IF pc \in Transaction THEN OrLastGood(previous.config, before.lastGood)
  ELSE OrLastGood(file, lastGood)

Requested == IF pc = "idle" THEN NoConfig ELSE request.config

Promise ==
  INSTANCE ConfigInForce WITH
    inForce   <- InForce,
    requested <- Requested,
    status    <- result.status

(***************************************************************************)
(* Start, Stop and the user operations implement the abstract transaction  *)
(* ConfigInForce.                                                          *)
(***************************************************************************)
ImplementsConfigInForce == Promise!Spec
=============================================================================
