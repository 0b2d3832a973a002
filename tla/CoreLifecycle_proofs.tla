------------------------ MODULE CoreLifecycle_proofs ------------------------
(***************************************************************************)
(* Proofs about CoreLifecycle: for every set of users and any number of    *)
(* disk faults and agent restarts, the short cut of Start is sound, the    *)
(* last-known-good file was healthy, the live file is what is served,      *)
(* every answer of the transaction is true of what it left behind, and the *)
(* transaction implements ConfigInForce.                                   *)
(***************************************************************************)
EXTENDS CoreLifecycle, TLAPS

\* A user operation has marked the hashes as dirty before it restarts.
UsersAreDirty ==
  pc # "idle" /\ request.kind = "users" => hashesDirty

\* There is a configuration to edit while a core counts as running.
RunningIsConfigured == running => config \in Configs

\* The locals of a transaction and what there was when it began.
PreviousIsBefore ==
  pc \in Transaction =>
    /\ previous.core <=> running
    /\ before.running <=> running
    /\ before.file = previous.config
    /\ result.status = "PENDING"
    /\ previous.runtime = IF running /\ previous.config # NoConfig THEN previous.config ELSE config

\* The live file and the process from step to step.
FilesFollow ==
  /\ pc \in {"check", "save", "activate"} => file = previous.config
  /\ pc \in {"check", "save", "activate"} => proc \in {before.proc, NoConfig}
  /\ pc \in {"check", "save"} => lastGood = before.lastGood
  /\ pc = "activate" => lastGood \in {before.lastGood, before.file}
  /\ pc \in {"stop", "start", "health", "commit"} => file = request.config
  /\ pc \in {"health", "commit"} => proc \in {file, NoConfig}
  /\ pc = "commit" => request.config \in confirmed
  /\ pc = "restart" => file = RestoredFile

Tracked == UsersAreDirty /\ RunningIsConfigured /\ PreviousIsBefore /\ FilesFollow

Touched == {"stop", "start", "health", "commit", "rollback", "restore", "restart"}

\* The configuration that a rollback brings back.
Recoverable ==
  IF pc \in Transaction THEN OrLastGood(previous.config, before.lastGood)
  ELSE OrLastGood(file, lastGood)

\* As long as no candidate is misplaced: what a rollback would bring back was
\* healthy, is on disk, is served, and is what the hashes stand for unless
\* they are dirty.
Placed ==
  ~misplaced =>
    /\ lastGood \in confirmed \cup {NoConfig}
    /\ running /\ pc \notin Transaction => file \in {lastGood, NoConfig}
    /\ running /\ pc \in Transaction =>
         /\ previous.config \in confirmed \cup {NoConfig}
         /\ previous.config = NoConfig => lastGood = before.lastGood
         /\ previous.config # NoConfig /\ pc \notin {"rollback", "restore"} => lastGood = previous.config
    /\ running => Recoverable # NoConfig
    /\ running /\ pc \notin Touched => proc \in {Recoverable, NoConfig}
    /\ running /\ ~hashesDirty => Recoverable = lastHashes

IInv == TypeOK /\ Tracked /\ Placed

\* What a step may do to the configuration in force.
Allowed == Promise!Next \/ UNCHANGED <<InForce, Requested, result>>

-----------------------------------------------------------------------------
\* Configurations.

LEMMA NoConfigIsNone ==
  /\ NoConfig \notin Configs /\ Optional = Configs \cup {NoConfig}
  /\ Unknown # NoConfig /\ \A c \in Configs : c # Unknown
BY LifecycleAssumption DEF NoConfig, Configs, Optional

LEMMA Edited ==
  ASSUME NEW c \in Configs, NEW d \in Configs
  PROVE  c \cup d \in Configs /\ c \ d \in Configs /\ \A u : c \ {u} \in Configs
BY DEF Configs

\* The bounds on the faults.
LEMMA DiskFaultsType ==
  ASSUME NEW n \in Nat, faults \in [disk : 0..MaxFaults, agent : 0..MaxRestarts], DiskFaults(n)
  PROVE  faults' \in [disk : 0..MaxFaults, agent : 0..MaxRestarts]
BY LifecycleAssumption DEF DiskFaults

\* What is in memory while nothing is asked for.
LEMMA NothingTyped ==
  /\ NoRequest \in [kind : {"start", "users"}, config : Configs, force : BOOLEAN]
  /\ NoPrevious \in [core : BOOLEAN, config : Optional, runtime : Optional]
  /\ NoBefore \in [proc : Optional, file : Optional, lastGood : Optional, running : BOOLEAN]
  /\ NoResult \in [status : Statuses, active : Optional, rollback : Rollbacks]
<1>1. {} \in Configs
  BY DEF Configs
<1>2. NoRequest \in [kind : {"start", "users"}, config : Configs, force : BOOLEAN]
  BY <1>1 DEF NoRequest
<1>3. NoPrevious \in [core : BOOLEAN, config : Optional, runtime : Optional]
  BY NoConfigIsNone DEF NoPrevious
<1>4. NoBefore \in [proc : Optional, file : Optional, lastGood : Optional, running : BOOLEAN]
  BY NoConfigIsNone DEF NoBefore
<1>5. NoResult \in [status : Statuses, active : Optional, rollback : Rollbacks]
  BY NoConfigIsNone DEF NoResult, Statuses, Rollbacks
<1> QED BY <1>2, <1>3, <1>4, <1>5

LEMMA ResultTyped ==
  ASSUME NEW status \in Statuses, NEW active \in Optional, NEW rollback \in Rollbacks
  PROVE  [status |-> status, active |-> active, rollback |-> rollback]
           \in [status : Statuses, active : Optional, rollback : Rollbacks]
OBVIOUS

\* The parts of the records.
LEMMA FieldsTyped ==
  ASSUME TypeOK
  PROVE  /\ request.config \in Configs /\ request.kind \in {"start", "users"} /\ request.force \in BOOLEAN
         /\ previous.core \in BOOLEAN /\ previous.config \in Optional /\ previous.runtime \in Optional
         /\ before.proc \in Optional /\ before.file \in Optional /\ before.lastGood \in Optional
         /\ before.running \in BOOLEAN
BY DEF TypeOK

-----------------------------------------------------------------------------
\* The steps.

LEMMA BeginStartIInv ==
  ASSUME IInv, NEW c \in Configs, NEW force \in BOOLEAN, BeginStart(c, force)
  PROVE  IInv' /\ Allowed
<1>0. TypeOK /\ Tracked /\ Placed
  BY DEF IInv
<1>1. /\ pc = "idle" /\ pc' = "decide"
      /\ request' = [kind |-> "start", config |-> c, force |-> force]
      /\ online' \in BOOLEAN
      /\ UNCHANGED <<proc, file, lastGood, running, config, lastHashes, hashesDirty, result, previous,
                     ticker, confirmed, before, misplaced, faults>>
  BY DEF BeginStart, Goto, RefreshOnline, filesVars, historyVars
<1>2. TypeOK'
  BY <1>0, <1>1, NothingTyped DEF TypeOK, Phases
<1>3. Tracked'
  BY <1>0, <1>1 DEF Tracked, UsersAreDirty, RunningIsConfigured, PreviousIsBefore, FilesFollow,
     Transaction
<1>4. Placed'
  BY <1>0, <1>1 DEF Placed, Recoverable, Transaction, Touched
<1>5. Promise!Begin(c)
  BY <1>0, <1>1 DEF Promise!Begin, InForce, Requested, Transaction
<1> QED BY <1>1, <1>2, <1>3, <1>4, <1>5 DEF IInv, Allowed, Promise!Next

LEMMA StartRefusedIInv == ASSUME IInv, StartRefused PROVE IInv' /\ Allowed
<1>0. TypeOK /\ Tracked /\ Placed
  BY DEF IInv
<1>1. /\ pc = "decide"
      /\ pc' = "idle" /\ request' = NoRequest /\ previous' = NoPrevious /\ before' = NoBefore
      /\ online' \in BOOLEAN
      /\ UNCHANGED <<proc, file, lastGood, running, config, lastHashes, hashesDirty, result,
                     ticker, confirmed, misplaced, faults>>
  BY <1>0 DEF StartRefused, Return, RefreshOnline, filesVars, TypeOK
<1>2. TypeOK'
  BY <1>0, <1>1, NothingTyped DEF TypeOK, Phases
<1>3. Tracked'
  BY <1>0, <1>1 DEF Tracked, UsersAreDirty, RunningIsConfigured, PreviousIsBefore, FilesFollow,
     Transaction
<1>4. Placed'
  BY <1>0, <1>1 DEF Placed, Recoverable, Transaction, Touched
<1>5. Promise!Refuse
  BY <1>0, <1>1, FieldsTyped, NoConfigIsNone DEF Promise!Refuse, InForce, Requested, Transaction
<1> QED BY <1>1, <1>2, <1>3, <1>4, <1>5 DEF IInv, Allowed, Promise!Next

LEMMA StartUnchangedIInv == ASSUME IInv, StartUnchanged PROVE IInv' /\ Allowed
<1>0. TypeOK /\ Tracked /\ Placed
  BY DEF IInv
<1>1. /\ pc = "decide"
      /\ pc' = "idle" /\ request' = NoRequest /\ previous' = NoPrevious /\ before' = NoBefore
      /\ running /\ ~hashesDirty /\ lastHashes = request.config /\ config = request.config
      /\ config' = request.config /\ lastHashes' = request.config /\ hashesDirty' = FALSE
      /\ online' \in BOOLEAN
      /\ result' = [status |-> "UNCHANGED", active |-> request.config, rollback |-> "NOT_REQUIRED"]
      /\ UNCHANGED <<proc, file, lastGood, running, ticker, confirmed, misplaced, faults>>
  BY DEF StartUnchanged, ShouldRestart, DeepEqual, Result, Return, RefreshOnline, filesVars
<1>2. TypeOK'
  <2>1. result' \in [status : Statuses, active : Optional, rollback : Rollbacks]
    BY <1>0, <1>1, FieldsTyped, NoConfigIsNone DEF Statuses, Rollbacks
  <2>2. config' \in Optional /\ lastHashes' \in Optional
    BY <1>0, <1>1, FieldsTyped, NoConfigIsNone
  <2> QED BY <1>0, <1>1, <2>1, <2>2, NothingTyped DEF TypeOK, Phases
<1>3. Tracked'
  BY <1>0, <1>1, FieldsTyped DEF Tracked, UsersAreDirty, RunningIsConfigured, PreviousIsBefore,
     FilesFollow, Transaction
<1>4. Placed'
  BY <1>0, <1>1 DEF Placed, Recoverable, Transaction, Touched
<1>5. Promise!Unchanged
  BY <1>0, <1>1, FieldsTyped, NoConfigIsNone DEF Promise!Unchanged, InForce, Requested,
     Transaction, Placed, Recoverable
<1> QED BY <1>1, <1>2, <1>3, <1>4, <1>5 DEF IInv, Allowed, Promise!Next

LEMMA StartDecidesIInv == ASSUME IInv, StartDecides PROVE IInv' /\ Allowed
<1>0. TypeOK /\ Tracked /\ Placed
  BY DEF IInv
<1>1. /\ pc = "decide" /\ pc' = "prepare"
      /\ UNCHANGED <<proc, file, lastGood, running, config, online, lastHashes, hashesDirty, result, request,
                     previous, ticker, confirmed, before, misplaced, faults>>
  BY DEF StartDecides, Goto, filesVars, stateVars, historyVars
<1>2. TypeOK'
  BY <1>0, <1>1, NothingTyped DEF TypeOK, Phases
<1>3. Tracked'
  BY <1>0, <1>1 DEF Tracked, UsersAreDirty, RunningIsConfigured, PreviousIsBefore, FilesFollow,
     Transaction
<1>4. Placed'
  BY <1>0, <1>1 DEF Placed, Recoverable, Transaction, Touched
<1>5. UNCHANGED <<InForce, Requested, result>>
  BY <1>0, <1>1 DEF InForce, Requested, Transaction
<1> QED BY <1>1, <1>2, <1>3, <1>4, <1>5 DEF IInv, Allowed, Promise!Next

LEMMA AddUsersIInv == ASSUME IInv, NEW added \in Configs, AddUsers(added) PROVE IInv' /\ Allowed
<1>0. TypeOK /\ Tracked /\ Placed
  BY DEF IInv
<1>1. /\ pc = "idle" /\ pc' = "prepare" /\ running /\ hashesDirty' = TRUE
      /\ config \in Configs /\ config' \in Configs
      /\ request' = [kind |-> "users", config |-> config', force |-> FALSE]
      /\ UNCHANGED <<proc, file, lastGood, running, online, lastHashes, result, previous,
                     ticker, confirmed, before, misplaced, faults>>
  BY <1>0, Edited DEF AddUsers, RestartCurrentCore, Goto, filesVars, historyVars, Tracked,
     RunningIsConfigured
<1>2. TypeOK'
  <2>1. config' \in Optional /\ request' \in [kind : {"start", "users"}, config : Configs, force : BOOLEAN]
    BY <1>1, NoConfigIsNone
  <2> QED BY <1>0, <1>1, <2>1, NothingTyped DEF TypeOK, Phases
<1>3. Tracked'
  BY <1>0, <1>1 DEF Tracked, UsersAreDirty, RunningIsConfigured, PreviousIsBefore, FilesFollow,
     Transaction
<1>4. Placed'
  BY <1>0, <1>1 DEF Placed, Recoverable, Transaction, Touched
<1>5. Promise!Begin(config')
  BY <1>0, <1>1 DEF Promise!Begin, InForce, Requested, Transaction
<1> QED BY <1>1, <1>2, <1>3, <1>4, <1>5 DEF IInv, Allowed, Promise!Next

\* The edits that an item which fails leaves in memory.
LEMMA AddUsersFailsIInv ==
  ASSUME IInv, NEW done \in Configs, NEW failed \in Users, AddUsersFails(done, failed)
  PROVE  IInv' /\ Allowed
<1>0. TypeOK /\ Tracked /\ Placed
  BY DEF IInv
<1>1. /\ pc = "idle" /\ running
      /\ config' \in Configs
      /\ UNCHANGED <<proc, file, lastGood, running, online, lastHashes, hashesDirty, result, pc, request,
                     previous, ticker, confirmed, before, misplaced, faults>>
  BY <1>0, Edited DEF AddUsersFails, filesVars, callVars, historyVars, Tracked, RunningIsConfigured
<1>2. TypeOK'
  <2>1. config' \in Optional
    BY <1>1, NoConfigIsNone
  <2> QED BY <1>0, <1>1, <2>1, NothingTyped DEF TypeOK, Phases
<1>3. Tracked'
  BY <1>0, <1>1 DEF Tracked, UsersAreDirty, RunningIsConfigured, PreviousIsBefore, FilesFollow,
     Transaction
<1>4. Placed'
  BY <1>0, <1>1 DEF Placed, Recoverable, Transaction, Touched
<1>5. UNCHANGED <<InForce, Requested, result>>
  BY <1>0, <1>1 DEF InForce, Requested, Transaction
<1> QED BY <1>1, <1>2, <1>3, <1>4, <1>5 DEF IInv, Allowed, Promise!Next

LEMMA RemoveUsersIInv ==
  ASSUME IInv, NEW removed \in Configs, RemoveUsers(removed)
  PROVE  IInv' /\ Allowed
<1>0. TypeOK /\ Tracked /\ Placed
  BY DEF IInv
<1>1. /\ pc = "idle" /\ pc' = "prepare" /\ running /\ hashesDirty' = TRUE
      /\ config' \in Configs
      /\ request' = [kind |-> "users", config |-> config', force |-> FALSE]
      /\ UNCHANGED <<proc, file, lastGood, running, online, lastHashes, result, previous,
                     ticker, confirmed, before, misplaced, faults>>
  BY <1>0, Edited DEF RemoveUsers, RestartCurrentCore, Goto, filesVars, historyVars, Tracked,
     RunningIsConfigured
<1>2. TypeOK'
  <2>1. config' \in Optional /\ request' \in [kind : {"start", "users"}, config : Configs, force : BOOLEAN]
    BY <1>1, NoConfigIsNone
  <2> QED BY <1>0, <1>1, <2>1, NothingTyped DEF TypeOK, Phases
<1>3. Tracked'
  BY <1>0, <1>1 DEF Tracked, UsersAreDirty, RunningIsConfigured, PreviousIsBefore, FilesFollow,
     Transaction
<1>4. Placed'
  BY <1>0, <1>1 DEF Placed, Recoverable, Transaction, Touched
<1>5. Promise!Begin(config')
  BY <1>0, <1>1 DEF Promise!Begin, InForce, Requested, Transaction
<1> QED BY <1>1, <1>2, <1>3, <1>4, <1>5 DEF IInv, Allowed, Promise!Next

LEMMA NoUsersNoCoreIInv == ASSUME IInv, NoUsersNoCore PROVE IInv' /\ Allowed
<1>0. TypeOK /\ Tracked /\ Placed
  BY DEF IInv
<1>1. /\ pc = "idle" /\ ~running /\ hashesDirty' = TRUE
      /\ UNCHANGED <<proc, file, lastGood, running, config, online, lastHashes, result, pc, request,
                     previous, ticker, confirmed, before, misplaced, faults>>
  BY DEF NoUsersNoCore, filesVars, callVars, historyVars
<1>2. TypeOK'
  BY <1>0, <1>1, NothingTyped DEF TypeOK, Phases
<1>3. Tracked'
  BY <1>0, <1>1 DEF Tracked, UsersAreDirty, RunningIsConfigured, PreviousIsBefore, FilesFollow,
     Transaction
<1>4. Placed'
  BY <1>0, <1>1 DEF Placed, Recoverable, Transaction, Touched
<1>5. UNCHANGED <<InForce, Requested, result>>
  BY <1>0, <1>1 DEF InForce, Requested, Transaction
<1> QED BY <1>1, <1>2, <1>3, <1>4, <1>5 DEF IInv, Allowed, Promise!Next

\* The transaction begins: its locals are what there is.
LEMMA PrepareIInv == ASSUME IInv, Prepare PROVE IInv' /\ Allowed
<1>0. TypeOK /\ Tracked /\ Placed
  BY DEF IInv
<1>1. /\ pc = "prepare" /\ pc' = "check"
      /\ previous' = [core |-> running, config |-> file,
                     runtime |-> IF running /\ file # NoConfig THEN file ELSE config]
      /\ before' = [proc |-> proc, file |-> file, lastGood |-> lastGood, running |-> running]
      /\ result' = [status |-> "PENDING", active |-> NoConfig, rollback |-> "NOT_REQUIRED"]
      /\ UNCHANGED <<proc, file, lastGood, running, config, online, lastHashes, hashesDirty,
                     request, ticker, confirmed, misplaced, faults>>
  BY DEF Prepare, Result, Goto, filesVars, stateVars
<1>2. TypeOK'
  <2>1. previous' \in [core : BOOLEAN, config : Optional, runtime : Optional]
    BY <1>0, <1>1 DEF TypeOK
  <2>2. before' \in [proc : Optional, file : Optional, lastGood : Optional, running : BOOLEAN]
    BY <1>0, <1>1 DEF TypeOK
  <2>3. result' \in [status : Statuses, active : Optional, rollback : Rollbacks]
    BY <1>0, <1>1, FieldsTyped, NoConfigIsNone DEF Statuses, Rollbacks
  <2> QED BY <1>0, <1>1, <2>1, <2>2, <2>3, NothingTyped DEF TypeOK, Phases
<1>3. Tracked'
  BY <1>0, <1>1 DEF Tracked, UsersAreDirty, RunningIsConfigured, PreviousIsBefore, FilesFollow,
     Transaction
<1>4. Placed'
  BY <1>0, <1>1 DEF Placed, Recoverable, Transaction, Touched
<1>5. Promise!Attempt
  BY <1>0, <1>1, FieldsTyped, NoConfigIsNone DEF Promise!Attempt, InForce, Requested, Transaction,
     OrLastGood
<1> QED BY <1>1, <1>2, <1>3, <1>4, <1>5 DEF IInv, Allowed, Promise!Next

LEMMA PrepareFailsIInv == ASSUME IInv, PrepareFails PROVE IInv' /\ Allowed
<1>0. TypeOK /\ Tracked /\ Placed
  BY DEF IInv
<1>1. /\ pc = "prepare"
      /\ pc' = "idle" /\ request' = NoRequest /\ previous' = NoPrevious /\ before' = NoBefore
      /\ online' \in BOOLEAN
      /\ DiskFaults(1)
      /\ \/ result' = [status |-> "FAILED", active |-> NoConfig, rollback |-> "NOT_REQUIRED"]
         \/ UNCHANGED result
      /\ UNCHANGED <<proc, file, lastGood, running, config, lastHashes,
                     hashesDirty, ticker, confirmed, misplaced>>
  BY <1>0 DEF PrepareFails, FailRequest, Result, Return, RefreshOnline, filesVars, TypeOK
<1>2. TypeOK'
  <2>1. faults' \in [disk : 0..MaxFaults, agent : 0..MaxRestarts]
    BY <1>0, <1>1, DiskFaultsType DEF TypeOK
  <2>2. result' \in [status : Statuses, active : Optional, rollback : Rollbacks]
    BY <1>0, <1>1, NoConfigIsNone DEF TypeOK, Statuses, Rollbacks
  <2> QED BY <1>0, <1>1, <2>1, <2>2, NothingTyped DEF TypeOK, Phases
<1>3. Tracked'
  BY <1>0, <1>1 DEF Tracked, UsersAreDirty, RunningIsConfigured, PreviousIsBefore, FilesFollow,
     Transaction
<1>4. Placed'
  BY <1>0, <1>1 DEF Placed, Recoverable, Transaction, Touched
<1>5. Promise!Keep \/ Promise!Refuse
  BY <1>0, <1>1, FieldsTyped, NoConfigIsNone DEF Promise!Keep, Promise!Refuse, InForce, Requested,
     Transaction
<1> QED BY <1>1, <1>2, <1>3, <1>4, <1>5 DEF IInv, Allowed, Promise!Next

LEMMA CheckIInv == ASSUME IInv, Check PROVE IInv' /\ Allowed
<1>0. TypeOK /\ Tracked /\ Placed
  BY DEF IInv
<1>1. /\ pc = "check" /\ pc' = "save"
      /\ UNCHANGED <<proc, file, lastGood, running, config, online, lastHashes, hashesDirty, result, request,
                     previous, ticker, confirmed, before, misplaced, faults>>
  BY DEF Check, Goto, filesVars, stateVars, historyVars
<1>2. TypeOK'
  BY <1>0, <1>1, NothingTyped DEF TypeOK, Phases
<1>3. Tracked'
  BY <1>0, <1>1 DEF Tracked, UsersAreDirty, RunningIsConfigured, PreviousIsBefore, FilesFollow,
     Transaction
<1>4. Placed'
  BY <1>0, <1>1 DEF Placed, Recoverable, Transaction, Touched
<1>5. UNCHANGED <<InForce, Requested, result>>
  BY <1>0, <1>1 DEF InForce, Requested, Transaction
<1> QED BY <1>1, <1>2, <1>3, <1>4, <1>5 DEF IInv, Allowed, Promise!Next

\* The candidate does not pass the check.
LEMMA RejectsIInv == ASSUME IInv, Rejects PROVE IInv' /\ Allowed
<1>0. TypeOK /\ Tracked /\ Placed
  BY DEF IInv
<1>1. /\ pc = "check"
      /\ pc' = "idle" /\ request' = NoRequest /\ previous' = NoPrevious /\ before' = NoBefore
      /\ online' \in BOOLEAN
      /\ config' = IF previous.core /\ previous.config # NoConfig THEN previous.runtime ELSE config
      /\ result' = [status |-> "REJECTED", active |-> previous.config, rollback |-> "NOT_REQUIRED"]
      /\ UNCHANGED <<proc, file, lastGood, running, lastHashes, hashesDirty,
                     ticker, confirmed, misplaced, faults>>
  BY <1>0 DEF Rejects, FailRequest, Result, Return, RefreshOnline, filesVars, TypeOK
<1>2. TypeOK'
  <2>1. config' \in Optional
    BY <1>0, <1>1, FieldsTyped DEF TypeOK
  <2>2. result' \in [status : Statuses, active : Optional, rollback : Rollbacks]
    BY <1>0, <1>1, FieldsTyped, NoConfigIsNone DEF Statuses, Rollbacks
  <2> QED BY <1>0, <1>1, <2>1, <2>2, NothingTyped DEF TypeOK, Phases
<1>3. Tracked'
  BY <1>0, <1>1, FieldsTyped, NoConfigIsNone DEF Tracked, UsersAreDirty, RunningIsConfigured,
     PreviousIsBefore, FilesFollow, Transaction
<1>4. Placed'
  BY <1>0, <1>1 DEF Placed, Recoverable, Transaction, Touched, Tracked, PreviousIsBefore,
     FilesFollow
<1>5. Promise!Keep
  BY <1>0, <1>1, FieldsTyped, NoConfigIsNone DEF Promise!Keep, InForce, Requested, Transaction,
     Recoverable, OrLastGood, Tracked, PreviousIsBefore, FilesFollow, Placed
<1> QED BY <1>1, <1>2, <1>3, <1>4, <1>5 DEF IInv, Allowed, Promise!Next

LEMMA SaveLastGoodIInv == ASSUME IInv, SaveLastGood PROVE IInv' /\ Allowed
<1>0. TypeOK /\ Tracked /\ Placed
  BY DEF IInv
<1>1. /\ pc = "save" /\ pc' = "activate"
      /\ lastGood' = IF previous.core /\ previous.config # NoConfig THEN previous.config ELSE lastGood
      /\ UNCHANGED <<proc, file, running, config, online, lastHashes, hashesDirty, result, request, previous,
                     ticker, confirmed, before, misplaced, faults>>
  BY DEF SaveLastGood, Goto, stateVars, historyVars
<1>2. TypeOK'
  <2>1. lastGood' \in Optional
    BY <1>0, <1>1, FieldsTyped DEF TypeOK
  <2> QED BY <1>0, <1>1, <2>1, NothingTyped DEF TypeOK, Phases
<1>3. Tracked'
  BY <1>0, <1>1 DEF Tracked, UsersAreDirty, RunningIsConfigured, PreviousIsBefore, FilesFollow,
     Transaction
<1>4. Placed'
  BY <1>0, <1>1 DEF Placed, Recoverable, Transaction, Touched, Tracked, PreviousIsBefore
<1>5. UNCHANGED <<InForce, Requested, result>>
  BY <1>0, <1>1 DEF InForce, Requested, Transaction
<1> QED BY <1>1, <1>2, <1>3, <1>4, <1>5 DEF IInv, Allowed, Promise!Next

LEMMA SaveLastGoodFailsIInv == ASSUME IInv, SaveLastGoodFails PROVE IInv' /\ Allowed
<1>0. TypeOK /\ Tracked /\ Placed
  BY DEF IInv
<1>1. /\ pc = "save" /\ previous.core /\ previous.config # NoConfig
      /\ pc' = "idle" /\ request' = NoRequest /\ previous' = NoPrevious /\ before' = NoBefore
      /\ online' \in BOOLEAN
      /\ lastGood' \in {lastGood, previous.config}
      /\ DiskFaults(1)
      /\ result' = [status |-> "FAILED", active |-> previous.config, rollback |-> "NOT_REQUIRED"]
      /\ UNCHANGED <<proc, file, running, config, lastHashes, hashesDirty,
                     ticker, confirmed, misplaced>>
  BY <1>0 DEF SaveLastGoodFails, FailRequest, Result, Return, RefreshOnline, TypeOK
<1>2. TypeOK'
  <2>1. faults' \in [disk : 0..MaxFaults, agent : 0..MaxRestarts]
    BY <1>0, <1>1, DiskFaultsType DEF TypeOK
  <2>2. lastGood' \in Optional
    BY <1>0, <1>1, FieldsTyped DEF TypeOK
  <2>3. result' \in [status : Statuses, active : Optional, rollback : Rollbacks]
    BY <1>0, <1>1, FieldsTyped, NoConfigIsNone DEF Statuses, Rollbacks
  <2> QED BY <1>0, <1>1, <2>1, <2>2, <2>3, NothingTyped DEF TypeOK, Phases
<1>3. Tracked'
  BY <1>0, <1>1 DEF Tracked, UsersAreDirty, RunningIsConfigured, PreviousIsBefore, FilesFollow,
     Transaction
<1>4. Placed'
  BY <1>0, <1>1 DEF Placed, Recoverable, Transaction, Touched, OrLastGood, Tracked,
     PreviousIsBefore, FilesFollow
<1>5. Promise!Keep
  BY <1>0, <1>1, FieldsTyped, NoConfigIsNone DEF Promise!Keep, InForce, Requested, Transaction,
     Recoverable, OrLastGood, Tracked, PreviousIsBefore, FilesFollow, Placed
<1> QED BY <1>1, <1>2, <1>3, <1>4, <1>5 DEF IInv, Allowed, Promise!Next

LEMMA ActivateIInv == ASSUME IInv, Activate PROVE IInv' /\ Allowed
<1>0. TypeOK /\ Tracked /\ Placed
  BY DEF IInv
<1>1. /\ pc = "activate" /\ pc' = "stop"
      /\ file' = request.config
      /\ UNCHANGED <<proc, lastGood, running, config, online, lastHashes, hashesDirty, result, request, previous,
                     ticker, confirmed, before, misplaced, faults>>
  BY DEF Activate, Goto, stateVars, historyVars
<1>2. TypeOK'
  <2>1. file' \in Optional
    BY <1>0, <1>1, FieldsTyped, NoConfigIsNone
  <2> QED BY <1>0, <1>1, <2>1, NothingTyped DEF TypeOK, Phases
<1>3. Tracked'
  BY <1>0, <1>1 DEF Tracked, UsersAreDirty, RunningIsConfigured, PreviousIsBefore, FilesFollow,
     Transaction
<1>4. Placed'
  BY <1>0, <1>1 DEF Placed, Recoverable, Transaction, Touched
<1>5. UNCHANGED <<InForce, Requested, result>>
  BY <1>0, <1>1 DEF InForce, Requested, Transaction
<1> QED BY <1>1, <1>2, <1>3, <1>4, <1>5 DEF IInv, Allowed, Promise!Next

\* The candidate is not put in force; when it stays in the live file it is
\* misplaced.
LEMMA ActivateFailsIInv == ASSUME IInv, ActivateFails PROVE IInv' /\ Allowed
<1>0. TypeOK /\ Tracked /\ Placed
  BY DEF IInv
<1>1. /\ pc = "activate"
      /\ pc' = "idle" /\ request' = NoRequest /\ previous' = NoPrevious /\ before' = NoBefore
      /\ online' \in BOOLEAN
      /\ file' \in {file, previous.config, request.config}
      /\ misplaced' = (misplaced \/ file' # previous.config)
      /\ DiskFaults(1) \/ DiskFaults(2)
      /\ \E rollback \in Rollbacks : result' = [status |-> "FAILED", active |-> previous.config, rollback |-> rollback]
      /\ UNCHANGED <<proc, lastGood, running, config, lastHashes,
                     hashesDirty, ticker, confirmed>>
  BY <1>0 DEF ActivateFails, FailRequest, Result, Return, RefreshOnline, Rollbacks, TypeOK
<1>2. TypeOK'
  <2>1. faults' \in [disk : 0..MaxFaults, agent : 0..MaxRestarts]
    BY <1>0, <1>1, DiskFaultsType DEF TypeOK
  <2>2. file' \in Optional /\ misplaced' \in BOOLEAN
    BY <1>0, <1>1, FieldsTyped, NoConfigIsNone DEF TypeOK
  <2>3. result' \in [status : Statuses, active : Optional, rollback : Rollbacks]
    BY <1>0, <1>1, FieldsTyped DEF Statuses
  <2> QED BY <1>0, <1>1, <2>1, <2>2, <2>3, NothingTyped DEF TypeOK, Phases
<1>3. Tracked'
  BY <1>0, <1>1 DEF Tracked, UsersAreDirty, RunningIsConfigured, PreviousIsBefore, FilesFollow,
     Transaction
<1>4. Placed'
  BY <1>0, <1>1 DEF Placed, Recoverable, Transaction, Touched, OrLastGood, Tracked,
     PreviousIsBefore, FilesFollow
<1>5. Promise!Keep \/ Promise!Misplace
  BY <1>0, <1>1, FieldsTyped, NoConfigIsNone DEF Promise!Keep, Promise!Misplace, InForce,
     Requested, Transaction, Recoverable, OrLastGood, Tracked, PreviousIsBefore, FilesFollow, Placed
<1> QED BY <1>1, <1>2, <1>3, <1>4, <1>5 DEF IInv, Allowed, Promise!Next

LEMMA StopOldIInv == ASSUME IInv, StopOld PROVE IInv' /\ Allowed
<1>0. TypeOK /\ Tracked /\ Placed
  BY DEF IInv
<1>1. /\ pc = "stop" /\ pc' = "start"
      /\ proc' \in {NoConfig, proc}
      /\ UNCHANGED <<file, lastGood, running, config, online, lastHashes, hashesDirty, result, request, previous,
                     ticker, confirmed, before, misplaced, faults>>
  BY DEF StopOld, StopProcess, Goto, filesVars, stateVars, historyVars
<1>2. TypeOK'
  <2>1. proc' \in Optional
    BY <1>0, <1>1, NoConfigIsNone DEF TypeOK
  <2> QED BY <1>0, <1>1, <2>1, NothingTyped DEF TypeOK, Phases
<1>3. Tracked'
  BY <1>0, <1>1 DEF Tracked, UsersAreDirty, RunningIsConfigured, PreviousIsBefore, FilesFollow,
     Transaction
<1>4. Placed'
  BY <1>0, <1>1 DEF Placed, Recoverable, Transaction, Touched
<1>5. UNCHANGED <<InForce, Requested, result>>
  BY <1>0, <1>1 DEF InForce, Requested, Transaction
<1> QED BY <1>1, <1>2, <1>3, <1>4, <1>5 DEF IInv, Allowed, Promise!Next

LEMMA StartNewIInv == ASSUME IInv, StartNew PROVE IInv' /\ Allowed
<1>0. TypeOK /\ Tracked /\ Placed
  BY DEF IInv
<1>1. /\ pc = "start" /\ pc' \in {"health", "rollback"}
      /\ proc' \in {file, proc}
      /\ pc' = "health" => proc' = file
      /\ UNCHANGED <<file, lastGood, running, config, online, lastHashes, hashesDirty, result, request, previous,
                     ticker, confirmed, before, misplaced, faults>>
  BY DEF StartNew, StartProcess, StartProcessFails, Goto, filesVars, stateVars, historyVars
<1>2. TypeOK'
  <2>1. proc' \in Optional
    BY <1>0, <1>1 DEF TypeOK
  <2> QED BY <1>0, <1>1, <2>1, NothingTyped DEF TypeOK, Phases
<1>3. Tracked'
  BY <1>0, <1>1 DEF Tracked, UsersAreDirty, RunningIsConfigured, PreviousIsBefore, FilesFollow,
     Transaction
<1>4. Placed'
  BY <1>0, <1>1 DEF Placed, Recoverable, Transaction, Touched
<1>5. UNCHANGED <<InForce, Requested, result>>
  BY <1>0, <1>1 DEF InForce, Requested, Transaction
<1> QED BY <1>1, <1>2, <1>3, <1>4, <1>5 DEF IInv, Allowed, Promise!Next

\* The process that passes is the one started from the candidate.
LEMMA WaitHealthyIInv == ASSUME IInv, WaitHealthy PROVE IInv' /\ Allowed
<1>0. TypeOK /\ Tracked /\ Placed
  BY DEF IInv
<1>1. /\ pc = "health"
      /\ \/ pc' = "commit" /\ proc # NoConfig /\ confirmed' = confirmed \cup {proc}
         \/ pc' = "rollback" /\ confirmed' = confirmed
      /\ UNCHANGED <<proc, file, lastGood, running, config, online, lastHashes, hashesDirty, result, request,
                     previous, ticker, before, misplaced, faults>>
  BY DEF WaitHealthy, Goto, filesVars, stateVars
<1>2. TypeOK'
  <2>1. confirmed' \subseteq Configs
    BY <1>0, <1>1, NoConfigIsNone DEF TypeOK
  <2> QED BY <1>0, <1>1, <2>1, NothingTyped DEF TypeOK, Phases
<1>3. Tracked'
  BY <1>0, <1>1 DEF Tracked, UsersAreDirty, RunningIsConfigured, PreviousIsBefore, FilesFollow,
     Transaction
<1>4. Placed'
  BY <1>0, <1>1 DEF Placed, Recoverable, Transaction, Touched
<1>5. UNCHANGED <<InForce, Requested, result>>
  BY <1>0, <1>1 DEF InForce, Requested, Transaction
<1> QED BY <1>1, <1>2, <1>3, <1>4, <1>5 DEF IInv, Allowed, Promise!Next

\* The candidate is applied: file, process and last-known-good are the same.
LEMMA CommitIInv == ASSUME IInv, Commit PROVE IInv' /\ Allowed
<1>0. TypeOK /\ Tracked /\ Placed
  BY DEF IInv
<1>1. /\ pc = "commit"
      /\ pc' = "idle" /\ request' = NoRequest /\ previous' = NoPrevious /\ before' = NoBefore
      /\ online' \in BOOLEAN
      /\ lastGood' = request.config /\ config' = request.config /\ running' = TRUE /\ misplaced' = FALSE
      /\ \/ lastHashes' = request.config /\ hashesDirty' = FALSE
         \/ request.kind = "users" /\ UNCHANGED <<lastHashes, hashesDirty>>
      /\ result' = [status |-> "APPLIED", active |-> request.config, rollback |-> "NOT_REQUIRED"]
      /\ UNCHANGED <<proc, file, ticker, confirmed, faults>>
  BY DEF Commit, Result, Return, RefreshOnline
<1>2. TypeOK'
  <2>1. lastGood' \in Optional /\ config' \in Optional /\ lastHashes' \in Optional /\ hashesDirty' \in BOOLEAN
    BY <1>0, <1>1, FieldsTyped, NoConfigIsNone DEF TypeOK
  <2>2. result' \in [status : Statuses, active : Optional, rollback : Rollbacks]
    BY <1>0, <1>1, FieldsTyped, NoConfigIsNone DEF Statuses, Rollbacks
  <2> QED BY <1>0, <1>1, <2>1, <2>2, NothingTyped DEF TypeOK, Phases
<1>3. Tracked'
  BY <1>0, <1>1, FieldsTyped DEF Tracked, UsersAreDirty, RunningIsConfigured, PreviousIsBefore,
     FilesFollow, Transaction
<1>4. Placed'
  BY <1>0, <1>1, FieldsTyped, NoConfigIsNone DEF Placed, Recoverable, Transaction, Touched,
     OrLastGood, Tracked, UsersAreDirty, FilesFollow
<1>5. Promise!Apply
  BY <1>0, <1>1, FieldsTyped, NoConfigIsNone DEF Promise!Apply, InForce, Requested, Transaction,
     Recoverable, OrLastGood, Tracked, PreviousIsBefore, FilesFollow, Placed
<1> QED BY <1>1, <1>2, <1>3, <1>4, <1>5 DEF IInv, Allowed, Promise!Next

LEMMA CommitFailsIInv == ASSUME IInv, CommitFails PROVE IInv' /\ Allowed
<1>0. TypeOK /\ Tracked /\ Placed
  BY DEF IInv
<1>1. /\ pc = "commit" /\ pc' = "rollback"
      /\ lastGood' \in {lastGood, request.config}
      /\ misplaced' = (misplaced \/ (previous.config = NoConfig /\ lastGood' # lastGood))
      /\ DiskFaults(1)
      /\ UNCHANGED <<proc, file, running, config, online, lastHashes, hashesDirty, result,
                     request, previous, ticker, confirmed, before>>
  BY DEF CommitFails, Goto, stateVars
<1>2. TypeOK'
  <2>1. faults' \in [disk : 0..MaxFaults, agent : 0..MaxRestarts]
    BY <1>0, <1>1, DiskFaultsType DEF TypeOK
  <2>2. lastGood' \in Optional /\ misplaced' \in BOOLEAN
    BY <1>0, <1>1, FieldsTyped, NoConfigIsNone DEF TypeOK
  <2> QED BY <1>0, <1>1, <2>1, <2>2, NothingTyped DEF TypeOK, Phases
<1>3. Tracked'
  BY <1>0, <1>1 DEF Tracked, UsersAreDirty, RunningIsConfigured, PreviousIsBefore, FilesFollow,
     Transaction
<1>4. Placed'
  BY <1>0, <1>1 DEF Placed, Recoverable, Transaction, Touched, Tracked, FilesFollow
<1>5. UNCHANGED <<InForce, Requested, result>> \/ Promise!Misplace
  BY <1>0, <1>1, FieldsTyped, NoConfigIsNone DEF Promise!Misplace, InForce, Requested, Transaction,
     Recoverable, OrLastGood, Tracked, PreviousIsBefore, FilesFollow, Placed
<1> QED BY <1>1, <1>2, <1>3, <1>4, <1>5 DEF IInv, Allowed, Promise!Next

LEMMA RollbackStopsIInv == ASSUME IInv, RollbackStops PROVE IInv' /\ Allowed
<1>0. TypeOK /\ Tracked /\ Placed
  BY DEF IInv
<1>1. /\ pc = "rollback" /\ pc' = "restore"
      /\ proc' \in {NoConfig, proc}
      /\ UNCHANGED <<file, lastGood, running, config, online, lastHashes, hashesDirty, result, request, previous,
                     ticker, confirmed, before, misplaced, faults>>
  BY DEF RollbackStops, StopProcess, Goto, filesVars, stateVars, historyVars
<1>2. TypeOK'
  <2>1. proc' \in Optional
    BY <1>0, <1>1, NoConfigIsNone DEF TypeOK
  <2> QED BY <1>0, <1>1, <2>1, NothingTyped DEF TypeOK, Phases
<1>3. Tracked'
  BY <1>0, <1>1 DEF Tracked, UsersAreDirty, RunningIsConfigured, PreviousIsBefore, FilesFollow,
     Transaction
<1>4. Placed'
  BY <1>0, <1>1 DEF Placed, Recoverable, Transaction, Touched
<1>5. UNCHANGED <<InForce, Requested, result>>
  BY <1>0, <1>1 DEF InForce, Requested, Transaction
<1> QED BY <1>1, <1>2, <1>3, <1>4, <1>5 DEF IInv, Allowed, Promise!Next

LEMMA RestoreFilesIInv == ASSUME IInv, RestoreFiles PROVE IInv' /\ Allowed
<1>0. TypeOK /\ Tracked /\ Placed
  BY DEF IInv
<1>1. /\ pc = "restore" /\ pc' = "restart"
      /\ file' = RestoredFile
      /\ lastGood' = IF previous.core /\ previous.config # NoConfig THEN previous.config ELSE lastGood
      /\ UNCHANGED <<proc, running, config, online, lastHashes, hashesDirty, result, request, previous,
                     ticker, confirmed, before, misplaced, faults>>
  BY DEF RestoreFiles, Goto, stateVars, historyVars
<1>2. TypeOK'
  <2>1. file' \in Optional /\ lastGood' \in Optional
    BY <1>0, <1>1, FieldsTyped DEF TypeOK, RestoredFile
  <2> QED BY <1>0, <1>1, <2>1, NothingTyped DEF TypeOK, Phases
<1>3. Tracked'
  BY <1>0, <1>1 DEF Tracked, UsersAreDirty, RunningIsConfigured, PreviousIsBefore, FilesFollow,
     Transaction, RestoredFile
<1>4. Placed'
  BY <1>0, <1>1 DEF Placed, Recoverable, Transaction, Touched, Tracked, PreviousIsBefore
<1>5. UNCHANGED <<InForce, Requested, result>>
  BY <1>0, <1>1 DEF InForce, Requested, Transaction
<1> QED BY <1>1, <1>2, <1>3, <1>4, <1>5 DEF IInv, Allowed, Promise!Next

\* The rollback does not get to its end: no core counts as running.
LEMMA RestoreFilesFailsIInv == ASSUME IInv, RestoreFilesFails PROVE IInv' /\ Allowed
<1>0. TypeOK /\ Tracked /\ Placed
  BY DEF IInv
<1>1. /\ pc = "restore"
      /\ pc' = "idle" /\ request' = NoRequest /\ previous' = NoPrevious /\ before' = NoBefore
      /\ running' = FALSE /\ online' \in BOOLEAN
      /\ file' \in {file, previous.config, RestoredFile}
      /\ lastGood' \in {lastGood, previous.config}
      /\ lastGood' # lastGood => previous.core /\ lastGood' = previous.config
      /\ DiskFaults(1)
      /\ result' = [status |-> "FAILED", active |-> previous.config, rollback |-> "FAILED"]
      /\ UNCHANGED <<proc, config, lastHashes, hashesDirty, ticker, confirmed, misplaced>>
  BY DEF RestoreFilesFails, RollbackFails, Result, Return, RefreshOnline
<1>2. TypeOK'
  <2>1. faults' \in [disk : 0..MaxFaults, agent : 0..MaxRestarts]
    BY <1>0, <1>1, DiskFaultsType DEF TypeOK
  <2>2. file' \in Optional /\ lastGood' \in Optional
    BY <1>0, <1>1, FieldsTyped DEF TypeOK, RestoredFile
  <2>3. result' \in [status : Statuses, active : Optional, rollback : Rollbacks]
    BY <1>0, <1>1, FieldsTyped, NoConfigIsNone DEF Statuses, Rollbacks
  <2> QED BY <1>0, <1>1, <2>1, <2>2, <2>3, NothingTyped DEF TypeOK, Phases
<1>3. Tracked'
  BY <1>0, <1>1 DEF Tracked, UsersAreDirty, RunningIsConfigured, PreviousIsBefore, FilesFollow,
     Transaction
<1>4. Placed'
  BY <1>0, <1>1 DEF Placed, Recoverable, Transaction, Touched, Tracked, PreviousIsBefore
<1>5. Promise!Lose
  BY <1>0, <1>1, FieldsTyped, NoConfigIsNone DEF Promise!Lose, InForce, Requested, Transaction,
     Recoverable, OrLastGood, Tracked, PreviousIsBefore, FilesFollow, Placed
<1> QED BY <1>1, <1>2, <1>3, <1>4, <1>5 DEF IInv, Allowed, Promise!Next

\* The previous configuration is served again.
LEMMA RestartPreviousIInv == ASSUME IInv, RestartPrevious PROVE IInv' /\ Allowed
<1>0. TypeOK /\ Tracked /\ Placed
  BY DEF IInv
<1>1. /\ pc = "restart" /\ previous.core
      /\ pc' = "idle" /\ request' = NoRequest /\ previous' = NoPrevious /\ before' = NoBefore
      /\ config' = previous.runtime /\ file # NoConfig /\ proc' = file /\ running' = TRUE /\ online' \in BOOLEAN
      /\ result' = [status |-> "ROLLED_BACK", active |-> previous.config, rollback |-> "SUCCEEDED"]
      /\ UNCHANGED <<file, lastGood, lastHashes, hashesDirty, ticker,
                     confirmed, misplaced, faults>>
  BY DEF RestartPrevious, StartProcess, Result, Return, RefreshOnline, filesVars
<1>2. TypeOK'
  <2>1. config' \in Optional /\ proc' \in Optional
    BY <1>0, <1>1, FieldsTyped DEF TypeOK
  <2>2. result' \in [status : Statuses, active : Optional, rollback : Rollbacks]
    BY <1>0, <1>1, FieldsTyped, NoConfigIsNone DEF Statuses, Rollbacks
  <2> QED BY <1>0, <1>1, <2>1, <2>2, NothingTyped DEF TypeOK, Phases
<1>3. Tracked'
  BY <1>0, <1>1, FieldsTyped, NoConfigIsNone DEF Tracked, UsersAreDirty, RunningIsConfigured,
     PreviousIsBefore, FilesFollow, Transaction
<1>4. Placed'
  BY <1>0, <1>1 DEF Placed, Recoverable, Transaction, Touched, OrLastGood, RestoredFile, Tracked,
     PreviousIsBefore, FilesFollow
<1>5. Promise!Keep
  BY <1>0, <1>1, FieldsTyped, NoConfigIsNone DEF Promise!Keep, InForce, Requested, Transaction,
     Recoverable, OrLastGood, Tracked, PreviousIsBefore, FilesFollow, Placed, RestoredFile
<1> QED BY <1>1, <1>2, <1>3, <1>4, <1>5 DEF IInv, Allowed, Promise!Next

LEMMA RestartPreviousFailsIInv == ASSUME IInv, RestartPreviousFails PROVE IInv' /\ Allowed
<1>0. TypeOK /\ Tracked /\ Placed
  BY DEF IInv
<1>1. /\ pc = "restart" /\ previous.core
      /\ pc' = "idle" /\ request' = NoRequest /\ previous' = NoPrevious /\ before' = NoBefore
      /\ config' = previous.runtime /\ proc' \in {proc, file} /\ running' = FALSE /\ online' \in BOOLEAN
      /\ result' = [status |-> "FAILED", active |-> previous.config, rollback |-> "FAILED"]
      /\ UNCHANGED <<file, lastGood, lastHashes, hashesDirty, ticker,
                     confirmed, misplaced, faults>>
  BY DEF RestartPreviousFails, StartProcessFails, StartProcess, RollbackFails, Result, Return,
     RefreshOnline, filesVars
<1>2. TypeOK'
  <2>1. config' \in Optional /\ proc' \in Optional
    BY <1>0, <1>1, FieldsTyped DEF TypeOK
  <2>2. result' \in [status : Statuses, active : Optional, rollback : Rollbacks]
    BY <1>0, <1>1, FieldsTyped, NoConfigIsNone DEF Statuses, Rollbacks
  <2> QED BY <1>0, <1>1, <2>1, <2>2, NothingTyped DEF TypeOK, Phases
<1>3. Tracked'
  BY <1>0, <1>1 DEF Tracked, UsersAreDirty, RunningIsConfigured, PreviousIsBefore, FilesFollow,
     Transaction
<1>4. Placed'
  BY <1>0, <1>1 DEF Placed, Recoverable, Transaction, Touched
<1>5. Promise!Lose
  BY <1>0, <1>1, FieldsTyped, NoConfigIsNone DEF Promise!Lose, InForce, Requested, Transaction,
     Recoverable, OrLastGood, Tracked, PreviousIsBefore, FilesFollow, Placed
<1> QED BY <1>1, <1>2, <1>3, <1>4, <1>5 DEF IInv, Allowed, Promise!Next

LEMMA NothingToRestartIInv == ASSUME IInv, NothingToRestart PROVE IInv' /\ Allowed
<1>0. TypeOK /\ Tracked /\ Placed
  BY DEF IInv
<1>1. /\ pc = "restart" /\ ~previous.core
      /\ pc' = "idle" /\ request' = NoRequest /\ previous' = NoPrevious /\ before' = NoBefore
      /\ running' = FALSE /\ online' \in BOOLEAN
      /\ \/ result' = [status |-> "FAILED", active |-> NoConfig, rollback |-> "NOT_AVAILABLE"]
         \/ result' = [status |-> "ROLLED_BACK", active |-> previous.config, rollback |-> "SUCCEEDED"]
      /\ UNCHANGED <<proc, file, lastGood, config, lastHashes, hashesDirty,
                     ticker, confirmed, misplaced, faults>>
  BY DEF NothingToRestart, Result, Return, RefreshOnline, filesVars
<1>2. TypeOK'
  <2>1. result' \in [status : Statuses, active : Optional, rollback : Rollbacks]
    BY <1>0, <1>1, FieldsTyped, NoConfigIsNone DEF Statuses, Rollbacks
  <2> QED BY <1>0, <1>1, <2>1, NothingTyped DEF TypeOK, Phases
<1>3. Tracked'
  BY <1>0, <1>1 DEF Tracked, UsersAreDirty, RunningIsConfigured, PreviousIsBefore, FilesFollow,
     Transaction
<1>4. Placed'
  BY <1>0, <1>1 DEF Placed, Recoverable, Transaction, Touched
<1>5. Promise!Keep
  BY <1>0, <1>1, FieldsTyped, NoConfigIsNone DEF Promise!Keep, InForce, Requested, Transaction,
     Recoverable, OrLastGood, Tracked, PreviousIsBefore, FilesFollow, Placed, RestoredFile
<1> QED BY <1>1, <1>2, <1>3, <1>4, <1>5 DEF IInv, Allowed, Promise!Next

LEMMA StopIInv == ASSUME IInv, Stop PROVE IInv' /\ Allowed
<1>0. TypeOK /\ Tracked /\ Placed
  BY DEF IInv
<1>1. /\ pc = "idle"
      /\ proc' \in {NoConfig, proc} /\ running' = FALSE /\ online' = FALSE
      /\ UNCHANGED <<file, lastGood, config, lastHashes, hashesDirty, result, pc, request, previous,
                     ticker, confirmed, before, misplaced, faults>>
  BY DEF Stop, StopProcess, filesVars, callVars, historyVars
<1>2. TypeOK'
  <2>1. proc' \in Optional
    BY <1>0, <1>1, NoConfigIsNone DEF TypeOK
  <2> QED BY <1>0, <1>1, <2>1, NothingTyped DEF TypeOK, Phases
<1>3. Tracked'
  BY <1>0, <1>1 DEF Tracked, UsersAreDirty, RunningIsConfigured, PreviousIsBefore, FilesFollow,
     Transaction
<1>4. Placed'
  BY <1>0, <1>1 DEF Placed, Recoverable, Transaction, Touched
<1>5. Promise!Stop
  BY <1>0, <1>1 DEF Promise!Stop, InForce, Requested, Transaction
<1> QED BY <1>1, <1>2, <1>3, <1>4, <1>5 DEF IInv, Allowed, Promise!Next

\* The unlocked refresh touches the online flag alone.
LEMMA TickerIInv == ASSUME IInv, TickerReads \/ TickerStores PROVE IInv' /\ Allowed
<1>0. TypeOK /\ Tracked /\ Placed
  BY DEF IInv
<1>1. /\ online' \in BOOLEAN /\ ticker' \in {"none", "online", "offline"}
      /\ UNCHANGED <<proc, file, lastGood, running, config, lastHashes, hashesDirty, result, pc, request,
                     previous, confirmed, before, misplaced, faults>>
  BY <1>0 DEF TickerReads, TickerStores, filesVars, stateVars, callVars, historyVars, TypeOK
<1>2. TypeOK'
  BY <1>0, <1>1, NothingTyped DEF TypeOK, Phases
<1>3. Tracked'
  BY <1>0, <1>1 DEF Tracked, UsersAreDirty, RunningIsConfigured, PreviousIsBefore, FilesFollow,
     Transaction, RestoredFile
<1>4. Placed'
  BY <1>0, <1>1 DEF Placed, Recoverable, Transaction, Touched
<1>5. UNCHANGED <<InForce, Requested, result>>
  BY <1>0, <1>1 DEF InForce, Requested, Transaction
<1> QED BY <1>1, <1>2, <1>3, <1>4, <1>5 DEF IInv, Allowed, Promise!Next

LEMMA CoreCrashesIInv == ASSUME IInv, CoreCrashes PROVE IInv' /\ Allowed
<1>0. TypeOK /\ Tracked /\ Placed
  BY DEF IInv
<1>1. /\ proc' = NoConfig
      /\ UNCHANGED <<file, lastGood, running, config, online, lastHashes, hashesDirty, result, pc, request,
                     previous, ticker, confirmed, before, misplaced, faults>>
  BY DEF CoreCrashes, filesVars, stateVars, callVars, historyVars
<1>2. TypeOK'
  <2>1. proc' \in Optional
    BY <1>0, <1>1, NoConfigIsNone DEF TypeOK
  <2> QED BY <1>0, <1>1, <2>1, NothingTyped DEF TypeOK, Phases
<1>3. Tracked'
  BY <1>0, <1>1 DEF Tracked, UsersAreDirty, RunningIsConfigured, PreviousIsBefore, FilesFollow,
     Transaction, RestoredFile
<1>4. Placed'
  BY <1>0, <1>1 DEF Placed, Recoverable, Transaction, Touched
<1>5. UNCHANGED <<InForce, Requested, result>>
  BY <1>0, <1>1 DEF InForce, Requested, Transaction
<1> QED BY <1>1, <1>2, <1>3, <1>4, <1>5 DEF IInv, Allowed, Promise!Next

LEMMA FileLostIInv == ASSUME IInv, FileLost PROVE IInv' /\ Allowed
<1>0. TypeOK /\ Tracked /\ Placed
  BY DEF IInv
<1>1. /\ pc = "idle"
      /\ file' = NoConfig
      /\ DiskFaults(1)
      /\ UNCHANGED <<proc, lastGood, running, config, online, lastHashes, hashesDirty, result, pc, request,
                     previous, ticker, confirmed, before, misplaced>>
  BY DEF FileLost, stateVars, callVars
<1>2. TypeOK'
  <2>1. faults' \in [disk : 0..MaxFaults, agent : 0..MaxRestarts]
    BY <1>0, <1>1, DiskFaultsType DEF TypeOK
  <2>2. file' \in Optional
    BY <1>0, <1>1, NoConfigIsNone DEF TypeOK
  <2> QED BY <1>0, <1>1, <2>1, <2>2, NothingTyped DEF TypeOK, Phases
<1>3. Tracked'
  BY <1>0, <1>1 DEF Tracked, UsersAreDirty, RunningIsConfigured, PreviousIsBefore, FilesFollow,
     Transaction
<1>4. Placed'
  BY <1>0, <1>1 DEF Placed, Recoverable, Transaction, Touched, OrLastGood
<1>5. UNCHANGED <<InForce, Requested, result>>
  BY <1>0, <1>1 DEF InForce, Requested, Transaction, OrLastGood, Placed
<1> QED BY <1>1, <1>2, <1>3, <1>4, <1>5 DEF IInv, Allowed, Promise!Next

LEMMA AgentRestartsIInv == ASSUME IInv, AgentRestarts PROVE IInv' /\ Allowed
<1>0. TypeOK /\ Tracked /\ Placed
  BY DEF IInv
<1>1. /\ faults' \in [disk : 0..MaxFaults, agent : 0..MaxRestarts]
      /\ proc' = NoConfig /\ file' \in {file, NoConfig}
      /\ running' = FALSE /\ online' = FALSE /\ hashesDirty' = FALSE
      /\ config' = NoConfig /\ lastHashes' = NoConfig
      /\ pc' = "idle" /\ request' = NoRequest /\ previous' = NoPrevious /\ before' = NoBefore
      /\ result' = NoResult /\ ticker' = "none"
      /\ UNCHANGED <<lastGood, confirmed, misplaced>>
  BY <1>0, LifecycleAssumption DEF AgentRestarts, TypeOK
<1>2. TypeOK'
  <2>1. proc' \in Optional /\ file' \in Optional /\ config' \in Optional /\ lastHashes' \in Optional
    BY <1>0, <1>1, NoConfigIsNone DEF TypeOK
  <2> QED BY <1>0, <1>1, <2>1, NothingTyped DEF TypeOK, Phases
<1>3. Tracked'
  BY <1>0, <1>1 DEF Tracked, UsersAreDirty, RunningIsConfigured, PreviousIsBefore, FilesFollow,
     Transaction
<1>4. Placed'
  BY <1>0, <1>1 DEF Placed, Recoverable, Transaction, Touched
<1>5. Promise!Restart
  BY <1>0, <1>1 DEF Promise!Restart, InForce, Requested, Transaction, NoResult
<1> QED BY <1>1, <1>2, <1>3, <1>4, <1>5 DEF IInv, Allowed, Promise!Next

-----------------------------------------------------------------------------
\* The invariant.

LEMMA InitIInv == ASSUME Init PROVE IInv
<1>1. TypeOK
  <2>1. faults \in [disk : 0..MaxFaults, agent : 0..MaxRestarts]
    BY LifecycleAssumption DEF Init
  <2>2. /\ proc \in Optional /\ file \in Optional /\ lastGood \in Optional
        /\ config \in Optional /\ lastHashes \in Optional
    BY NoConfigIsNone DEF Init
  <2> QED BY <2>1, <2>2, NothingTyped DEF Init, TypeOK, Phases
<1>2. Tracked
  BY DEF Init, Tracked, UsersAreDirty, RunningIsConfigured, PreviousIsBefore, FilesFollow,
     Transaction
<1>3. Placed
  BY DEF Init, Placed
<1> QED BY <1>1, <1>2, <1>3 DEF IInv

LEMMA StutterIInv == ASSUME IInv, UNCHANGED vars PROVE IInv' /\ Allowed
<1>1. UNCHANGED <<proc, file, lastGood, running, config, online, lastHashes, hashesDirty, result,
                  pc, request, previous, ticker, confirmed, before, misplaced, faults>>
  BY DEF vars, filesVars, stateVars, callVars, historyVars
<1>2. TypeOK'
  BY <1>1 DEF IInv, TypeOK
<1>3. Tracked'
  BY <1>1 DEF IInv, Tracked, UsersAreDirty, RunningIsConfigured, PreviousIsBefore, FilesFollow,
     RestoredFile
<1>4. Placed'
  BY <1>1 DEF IInv, Placed, Recoverable, OrLastGood
<1>5. UNCHANGED <<InForce, Requested, result>>
  BY <1>1 DEF InForce, Requested, OrLastGood
<1> QED BY <1>2, <1>3, <1>4, <1>5 DEF IInv, Allowed

\* Every step of the request that holds coreMu.
LEMMA StepIInv == ASSUME IInv, Step PROVE IInv' /\ Allowed
<1>1. CASE StartRefused \/ StartUnchanged \/ StartDecides
  BY <1>1, StartRefusedIInv, StartUnchangedIInv, StartDecidesIInv
<1>2. CASE Prepare \/ PrepareFails \/ Check \/ Rejects \/ SaveLastGood \/ SaveLastGoodFails
  BY <1>2, PrepareIInv, PrepareFailsIInv, CheckIInv, RejectsIInv, SaveLastGoodIInv,
     SaveLastGoodFailsIInv
<1>3. CASE Activate \/ ActivateFails \/ StopOld \/ StartNew \/ WaitHealthy \/ Commit \/ CommitFails
  BY <1>3, ActivateIInv, ActivateFailsIInv, StopOldIInv, StartNewIInv, WaitHealthyIInv, CommitIInv,
     CommitFailsIInv
<1>4. CASE RollbackStops \/ RestoreFiles \/ RestoreFilesFails
  BY <1>4, RollbackStopsIInv, RestoreFilesIInv, RestoreFilesFailsIInv
<1>5. CASE RestartPrevious \/ RestartPreviousFails \/ NothingToRestart
  BY <1>5, RestartPreviousIInv, RestartPreviousFailsIInv, NothingToRestartIInv
<1> QED BY <1>1, <1>2, <1>3, <1>4, <1>5 DEF Step

LEMMA NextIInv == ASSUME IInv, [Next]_vars PROVE IInv' /\ Allowed
<1>1. ASSUME NEW c \in Configs, NEW force \in BOOLEAN, BeginStart(c, force) PROVE IInv' /\ Allowed
  BY <1>1, BeginStartIInv
<1>2. ASSUME NEW users \in Configs, AddUsers(users) \/ RemoveUsers(users) PROVE IInv' /\ Allowed
  BY <1>2, AddUsersIInv, RemoveUsersIInv
<1>3. ASSUME NEW done \in Configs, NEW failed \in Users, AddUsersFails(done, failed)
      PROVE  IInv' /\ Allowed
  BY <1>3, AddUsersFailsIInv
<1>4. CASE NoUsersNoCore \/ Stop
  BY <1>4, NoUsersNoCoreIInv, StopIInv
<1>5. CASE Step
  BY <1>5, StepIInv
<1>6. CASE TickerReads \/ TickerStores
  BY <1>6, TickerIInv
<1>7. CASE Environment
  BY <1>7, CoreCrashesIInv, FileLostIInv, AgentRestartsIInv DEF Environment
<1>8. CASE UNCHANGED vars
  BY <1>8, StutterIInv
<1> QED BY <1>1, <1>2, <1>3, <1>4, <1>5, <1>6, <1>7, <1>8 DEF Next

\* The conjunction the theorems are read off is an invariant.
THEOREM Inductive == Spec => []IInv
<1>1. Init => IInv
  BY InitIInv
<1>2. IInv /\ [Next]_vars => IInv'
  BY NextIInv
<1> QED BY <1>1, <1>2, PTL DEF Spec

\* When Start decides not to restart, the requested configuration is served.
THEOREM ShortCutSafety == Spec => []UnchangedIsServed
<1>1. IInv => UnchangedIsServed
  <2> SUFFICES ASSUME IInv, pc = "decide", ~ShouldRestart(request.config, request.force), ~misplaced
               PROVE  proc \in {request.config, NoConfig}
    BY DEF UnchangedIsServed, IInv
  <2>1. running /\ ~hashesDirty /\ lastHashes = request.config
    BY DEF ShouldRestart
  <2>2. proc \in {Recoverable, NoConfig} /\ Recoverable = lastHashes
    BY <2>1 DEF IInv, Placed, Touched
  <2> QED BY <2>1, <2>2
<1> QED BY <1>1, Inductive, PTL

\* The last-known-good file is one that passed the health check.
THEOREM LastGoodSafety == Spec => []LastGoodWasHealthy
<1>1. IInv => LastGoodWasHealthy
  BY DEF IInv, Placed, LastGoodWasHealthy
<1> QED BY <1>1, Inductive, PTL

\* Between requests the live file is the one the process was started with.
THEOREM FileSafety == Spec => []FileIsServed
<1>1. IInv => FileIsServed
  <2> SUFFICES ASSUME IInv, pc = "idle", running, proc # NoConfig, ~misplaced
               PROVE  file \in {proc, NoConfig}
    BY DEF FileIsServed
  <2>1. proc = OrLastGood(file, lastGood)
    BY DEF IInv, Placed, Touched, Recoverable, Transaction
  <2> QED BY <2>1 DEF OrLastGood
<1> QED BY <1>1, Inductive, PTL

\* The steps of a transaction that answer the request.
LEMMA Answers ==
  ASSUME Next, pc \in Transaction, result' # result
  PROVE  \/ Commit \/ Rejects \/ RestartPrevious \/ NothingToRestart
         \/ SaveLastGoodFails \/ ActivateFails \/ RestoreFilesFails \/ RestartPreviousFails
         \/ AgentRestarts
<1>1. ASSUME NEW c \in Configs, NEW force \in BOOLEAN, BeginStart(c, force) PROVE FALSE
  BY <1>1 DEF BeginStart
<1>2. ASSUME NEW users \in Configs, AddUsers(users) \/ RemoveUsers(users) PROVE FALSE
  BY <1>2 DEF AddUsers, RemoveUsers, RestartCurrentCore
<1>3. ASSUME NEW done \in Configs, NEW failed \in Users, AddUsersFails(done, failed) PROVE FALSE
  BY <1>3 DEF AddUsersFails, callVars
<1>4. ~(NoUsersNoCore \/ Stop \/ TickerReads \/ TickerStores \/ CoreCrashes \/ FileLost)
  BY DEF NoUsersNoCore, Stop, TickerReads, TickerStores, CoreCrashes, FileLost, callVars
<1>5. ~(StartRefused \/ StartDecides \/ Check \/ SaveLastGood \/ Activate \/ StopOld \/ StartNew
         \/ WaitHealthy \/ CommitFails \/ RollbackStops \/ RestoreFiles)
  BY DEF StartRefused, StartDecides, Check, SaveLastGood, Activate, StopOld, StartNew, WaitHealthy,
     CommitFails, RollbackStops, RestoreFiles
<1>6. ~(StartUnchanged \/ Prepare \/ PrepareFails)
  BY DEF StartUnchanged, Prepare, PrepareFails, Transaction
<1> QED BY <1>1, <1>2, <1>3, <1>4, <1>5, <1>6 DEF Next, Step, Environment

\* What the transaction knows of the state it began in.
LEMMA BeforeIsKnown ==
  ASSUME IInv, pc \in Transaction
  PROVE  /\ previous.core = running /\ before.running = running
         /\ before.file = previous.config
         /\ previous.runtime = IF running /\ previous.config # NoConfig THEN previous.config ELSE config
         /\ running /\ ~misplaced /\ previous.config = NoConfig => lastGood = before.lastGood
<1>1. /\ running \in BOOLEAN /\ previous.core \in BOOLEAN /\ before.running \in BOOLEAN
  BY FieldsTyped DEF IInv, TypeOK
<1>2. /\ previous.core <=> running
      /\ before.running <=> running
  BY DEF IInv, Tracked, PreviousIsBefore
<1>3. previous.core = running /\ before.running = running
  BY <1>1, <1>2
<1> QED BY <1>3 DEF IInv, Tracked, PreviousIsBefore, Placed

(***************************************************************************)
(* Every status a transaction answers with is true of what it left behind, *)
(* for every combination of failed writes, calls and health checks.        *)
(***************************************************************************)
THEOREM AnswerSafety == Spec => AnswersAreTrue
<1>1. ASSUME IInv, Next, pc \in Transaction, result' # result PROVE AnswerIsTrue
  <2> USE <1>1
  <2>0. /\ previous.core = running /\ before.running = running
        /\ before.file = previous.config
        /\ previous.runtime = IF running /\ previous.config # NoConfig THEN previous.config ELSE config
        /\ running /\ ~misplaced /\ previous.config = NoConfig => lastGood = before.lastGood
    BY BeforeIsKnown
  <2>1. CASE Commit
    <3>1. /\ file = request.config /\ proc \in {file, NoConfig}
          /\ result' = [status |-> "APPLIED", active |-> request.config, rollback |-> "NOT_REQUIRED"]
          /\ lastGood' = request.config /\ config' = request.config /\ running' = TRUE
          /\ UNCHANGED <<proc, file>>
      BY <2>1 DEF Commit, Result, IInv, Tracked, FilesFollow
    <3> QED BY <3>1 DEF AnswerIsTrue, AppliedIsTrue
  <2>2. CASE Rejects
    <3>1. /\ file = previous.config /\ lastGood = before.lastGood /\ proc \in {before.proc, NoConfig}
          /\ result' = [status |-> "REJECTED", active |-> previous.config, rollback |-> "NOT_REQUIRED"]
          /\ config' = IF previous.core /\ previous.config # NoConfig THEN previous.runtime ELSE config
          /\ UNCHANGED <<proc, file, lastGood, running>>
      BY <2>2 DEF Rejects, Result, filesVars, IInv, Tracked, FilesFollow
    <3> QED BY <2>0, <3>1 DEF AnswerIsTrue, RejectedIsTrue
  <2>3. CASE RestartPrevious
    <3>1. /\ file = RestoredFile /\ running /\ proc' = file /\ running' = TRUE
          /\ result' = [status |-> "ROLLED_BACK", active |-> previous.config, rollback |-> "SUCCEEDED"]
          /\ config' = previous.runtime /\ UNCHANGED <<file, lastGood, misplaced>>
      BY <2>0, <2>3 DEF RestartPrevious, StartProcess, Result, filesVars, IInv, Tracked, FilesFollow
    <3> QED BY <2>0, <3>1 DEF AnswerIsTrue, RolledBackIsTrue, RestoredFile, OrLastGood
  <2>4. CASE NothingToRestart
    <3>1. /\ file = RestoredFile /\ ~previous.core /\ running' = FALSE
          /\ result'.status \in {"FAILED", "ROLLED_BACK"}
          /\ UNCHANGED file
      BY <2>4 DEF NothingToRestart, Result, filesVars, IInv, Tracked, FilesFollow
    <3> QED BY <2>0, <3>1, FieldsTyped
        DEF AnswerIsTrue, RolledBackIsTrue, FailedIsTrue, RestoredFile, IInv, TypeOK
  <2>5. CASE SaveLastGoodFails
    <3>1. /\ file = previous.config /\ lastGood = before.lastGood /\ proc \in {before.proc, NoConfig}
          /\ result' = [status |-> "FAILED", active |-> previous.config, rollback |-> "NOT_REQUIRED"]
          /\ lastGood' \in {lastGood, previous.config} /\ previous.core
          /\ UNCHANGED <<proc, file, running>>
      BY <2>5 DEF SaveLastGoodFails, Result, IInv, Tracked, FilesFollow
    <3> QED BY <2>0, <3>1 DEF AnswerIsTrue, FailedIsTrue
  <2>6. CASE ActivateFails
    <3>1. /\ file = previous.config /\ lastGood \in {before.lastGood, before.file}
          /\ proc \in {before.proc, NoConfig}
          /\ result'.status = "FAILED" /\ result'.active = previous.config
          /\ misplaced' = (misplaced \/ file' # previous.config)
          /\ UNCHANGED <<proc, lastGood, running>>
      BY <2>6 DEF ActivateFails, Result, IInv, Tracked, FilesFollow
    <3> QED BY <2>0, <3>1 DEF AnswerIsTrue, FailedIsTrue
  <2>7. CASE RestoreFilesFails \/ RestartPreviousFails
    <3>1. running' = FALSE /\ result'.status = "FAILED"
      BY <2>7 DEF RestoreFilesFails, RestartPreviousFails, RollbackFails, Result
    <3> QED BY <3>1 DEF AnswerIsTrue, FailedIsTrue
  <2>8. CASE AgentRestarts
    BY <2>8 DEF AgentRestarts, NoResult, AnswerIsTrue
  <2> QED BY <2>1, <2>2, <2>3, <2>4, <2>5, <2>6, <2>7, <2>8, Answers
<1>2. IInv /\ [Next]_vars => [result' # result /\ pc \in Transaction => AnswerIsTrue]_vars
  BY <1>1
<1> QED BY <1>2, Inductive, PTL DEF Spec, AnswersAreTrue

\* The transaction implements the abstract one: each step of Start, Stop, the
\* user operations and the environment is a step of ConfigInForce or leaves
\* what the panel sees alone.
THEOREM Refinement == Spec => ImplementsConfigInForce
<1>1. Init => Promise!Init
  BY DEF Init, NoResult, Promise!Init, InForce, Requested, Transaction
<1>2. IInv /\ [Next]_vars => [Promise!Next]_<<InForce, Requested, result.status>>
  BY NextIInv DEF Allowed
<1> QED BY <1>1, <1>2, Inductive, PTL DEF Spec, ImplementsConfigInForce, Promise!Spec
=============================================================================
