--------------------------- MODULE BenchmarkRunner ---------------------------
(***************************************************************************)
(* The benchmark runner (src/internal/benchmark/runner.go): tasks named by *)
(* the panel, at most one executing, each kept as one JSON file that is    *)
(* rewritten on every change, so that a retried request is answered from   *)
(* the record instead of spending the traffic budget again.                *)
(*                                                                         *)
(* A job is abstracted to its status and its creation time; a file also    *)
(* has a modification time.  Times are numbers of Start calls: two jobs    *)
(* never overlap, so only their order matters.  The results of a job are   *)
(* the set of item statuses seen so far, all that its final status needs.  *)
(* "disk" is what the file system shows, "synced" what survives a power    *)
(* loss: a rename is durable once the directory is synced.                 *)
(***************************************************************************)
EXTENDS Integers, FiniteSets

CONSTANTS
  IDs,        \* the task identifiers the panel uses
  MaxJobs,    \* the number of records prune keeps (100 in the code)
  Items,      \* the number of test items or targets of a request
  MaxStarts,  \* bound on the tasks launched
  MaxFaults,  \* bound on failed writes, failed removals and damaged files
  MaxCrashes  \* bound on agent restarts

ASSUME BenchmarkAssumption ==
  /\ IDs # {} /\ IsFiniteSet(IDs)
  /\ MaxJobs \in Nat \ {0}
  /\ Items \in Nat \ {0}
  /\ {MaxStarts, MaxFaults, MaxCrashes} \subseteq Nat

VARIABLES
  up,        \* the agent process runs
  jobs,      \* Runner.jobs
  active,    \* Runner.active, {} or one identifier
  ctx,       \* the context of the active job: "none", "live", "cancelled", "expired"
  left,      \* items the run loop has not started
  testing,   \* an item is executing
  results,   \* the item statuses reported by the active job
  disk,      \* <id>.json as the file system shows it
  synced,    \* <id>.json as it would be after a power loss
  clock,     \* number of tasks launched, the time of the model
  runs,      \* history: executions of an identifier since it was last forgotten
  cancelled, \* history: identifiers whose cancellation was accepted in time
  faults, crashes

memory == <<jobs, active, ctx, left, testing, results>>
files == <<disk, synced>>
bounds == <<faults, crashes>>
vars == <<up, memory, files, clock, runs, cancelled, bounds>>

None == [status |-> "none"]

ItemStatuses == {"COMPLETED", "FAILED", "SKIPPED"}
Terminal == {"COMPLETED", "PARTIAL", "FAILED", "CANCELLED", "INTERRUPTED"}
Times == 0..MaxStarts

JobRecords == [status : Terminal \cup {"RUNNING"}, created : Times]
FileRecords == [status : Terminal \cup {"RUNNING", "damaged"}, created : Times, modified : Times]

Known(records) == {id \in IDs : records[id] # None}

Init ==
  /\ up = TRUE
  /\ jobs = [id \in IDs |-> None]
  /\ active = {} /\ ctx = "none" /\ left = 0 /\ testing = FALSE /\ results = {}
  /\ disk = [id \in IDs |-> None] /\ synced = disk
  /\ clock = 0
  /\ runs = [id \in IDs |-> 0]
  /\ cancelled = {}
  /\ faults = 0 /\ crashes = 0

-----------------------------------------------------------------------------
(* Files. *)

FileOf(job) == [status |-> job.status, created |-> job.created, modified |-> clock']

(* save wrote the temporary file, renamed it and synced the directory. *)
Saved(id, job) ==
  /\ disk' = [disk EXCEPT ![id] = FileOf(job)]
  /\ synced' = [synced EXCEPT ![id] = FileOf(job)]
  /\ UNCHANGED faults

(* save returned an error: before the rename the record is the old one, after
   it (the directory cannot be opened or synced) the new one is visible. *)
SaveFails(id, job) ==
  /\ faults < MaxFaults
  /\ faults' = faults + 1
  /\ disk' \in {disk, [disk EXCEPT ![id] = FileOf(job)]}
  /\ UNCHANGED synced

Newest(records, n) ==
  {recent \in SUBSET Known(records) :
    /\ Cardinality(recent) = n
    /\ \A old \in Known(records) \ recent, new \in recent :
         records[old].created <= records[new].created}

Limit(records, n) == IF Cardinality(Known(records)) > n THEN n ELSE Cardinality(Known(records))

NotAged(records, ids, horizon) == {id \in ids : records[id].created > horizon}

(* Mutant: the newest records are dropped. *)
PrunedNewest(records, horizon) ==
  {NotAged(records, Known(records) \ dropped, horizon) :
     dropped \in Newest(records, Cardinality(Known(records)) - Limit(records, MaxJobs))}

(* prune keeps the MaxJobs newest records, ties in map order, and then drops
   what is older than ninety days, here everything created up to `horizon`.
   Both callers have cleared Runner.active. *)
Pruned(records, horizon) ==
  {NotAged(records, recent, horizon) : recent \in Newest(records, Limit(records, MaxJobs))}

(* The record of a forgotten task leaves memory; its files are removed and an
   error of the removal is ignored. *)
Forget(records, kept) ==
  /\ jobs' = [id \in IDs |-> IF id \in kept THEN records[id] ELSE None]
  /\ runs' = [id \in IDs |-> IF id \in Known(records) \ kept THEN 0 ELSE runs[id]]

(* The files of forgotten tasks that may be left behind. *)
MayStay(gone) == IF faults < MaxFaults THEN SUBSET gone ELSE {{}}

-----------------------------------------------------------------------------
(* Start, and the goroutine it launches. *)

(* The request does not pass validate. *)
StartInvalid == up /\ UNCHANGED vars

(* The identifier is known: the stored job, the tombstone of a damaged record
   or the error for a different request is returned and nothing changes. *)
StartKnown(id) == up /\ jobs[id] # None /\ UNCHANGED vars

(* Another job is active: ErrBusy. *)
StartBusy(id) == up /\ jobs[id] = None /\ active # {} /\ UNCHANGED vars

Launches(id) ==
  /\ up
  /\ jobs[id] = None
  /\ active = {}
  /\ clock < MaxStarts
  /\ clock' = clock + 1

NewJob == [status |-> "RUNNING", created |-> clock']

Launched(id) ==
  /\ jobs' = [jobs EXCEPT ![id] = NewJob]
  /\ active' = {id}
  /\ ctx' = "live"
  /\ left' = Items
  /\ testing' = FALSE
  /\ results' = {}
  /\ runs' = [runs EXCEPT ![id] = @ + 1]
  /\ cancelled' = cancelled \ {id}

(* Mutant: the result of the first save is ignored. *)
StartUnsaved(id) ==
  /\ Launches(id)
  /\ Saved(id, NewJob) \/ SaveFails(id, NewJob)
  /\ Launched(id)
  /\ UNCHANGED <<up, crashes>>

(* The record is written before anything executes. *)
Start(id) ==
  /\ Launches(id)
  /\ Saved(id, NewJob)
  /\ Launched(id)
  /\ UNCHANGED <<up, crashes>>

(* The record cannot be written: the request is refused and nothing executes. *)
StartFails(id) ==
  /\ Launches(id)
  /\ SaveFails(id, NewJob)
  /\ UNCHANGED <<up, memory, runs, cancelled, crashes>>

(* change rewrites the record of the active job; when it cannot be written
   the job is cancelled. *)
Change(id) ==
  \/ Saved(id, jobs[id]) /\ UNCHANGED ctx
  \/ SaveFails(id, jobs[id]) /\ ctx' = IF ctx = "live" THEN "cancelled" ELSE ctx

(* run starts the next item unless the context has ended. *)
ItemStarts(id) ==
  /\ up /\ active = {id} /\ ~testing
  /\ ctx = "live" /\ left > 0
  /\ testing' = TRUE
  /\ left' = left - 1
  /\ UNCHANGED clock
  /\ Change(id)
  /\ UNCHANGED <<up, jobs, active, results, runs, cancelled, crashes>>

(* The item's result is recorded even if the context ended meanwhile. *)
ItemEnds(id, status) ==
  /\ up /\ active = {id} /\ testing
  /\ testing' = FALSE
  /\ results' = results \cup {status}
  /\ UNCHANGED clock
  /\ Change(id)
  /\ UNCHANGED <<up, jobs, active, left, runs, cancelled, crashes>>

(* The status of a job that its context did not end. *)
ResultOf(statuses) ==
  CASE statuses = {"FAILED"}    -> "FAILED"
    [] statuses = {"COMPLETED"} -> "COMPLETED"
    [] OTHER                    -> "PARTIAL"

(* Mutant: the context's error is not looked at. *)
OutcomeIgnoresCancel == ResultOf(results)

(* The status of a job whose run loop has returned. *)
Outcome ==
  CASE ctx = "cancelled" -> "CANCELLED"
    [] ctx = "expired"   -> "FAILED"
    [] OTHER             -> ResultOf(results)

(* Mutant: the run loop does not stop when the context ends. *)
RunReturnedAtEnd(id) ==
  /\ up /\ active = {id} /\ ~testing
  /\ left = 0

RunReturned(id) ==
  /\ up /\ active = {id} /\ ~testing
  /\ ctx # "live" \/ left = 0

(* The runner is idle again and the finished job's record becomes `job`; the
   job is at most ten minutes old, so it is never beyond the horizon. *)
Idle(id, job, file, durable, failed) ==
  /\ active' = {} /\ ctx' = "none" /\ left' = 0 /\ results' = {}
  /\ UNCHANGED <<up, testing, clock, cancelled, crashes>>
  /\ LET records == [jobs EXCEPT ![id] = job] IN
     \E horizon \in 0..(clock - 1) : \E kept \in Pruned(records, horizon) :
     \E stays \in MayStay(Known(records) \ kept) :
       /\ Forget(records, kept)
       /\ disk' = [i \in IDs |-> IF i \in Known(records) \ (kept \cup stays) THEN None
                                 ELSE IF i = id THEN file ELSE disk[i]]
       /\ synced' = [synced EXCEPT ![id] = durable]
       /\ faults' = IF failed \/ stays # {} THEN faults + 1 ELSE faults

Ended(job) == [status |-> job.status, created |-> job.created, modified |-> clock]

Finish(id) ==
  /\ RunReturned(id)
  /\ LET job == [jobs[id] EXCEPT !.status = Outcome]
     IN  Idle(id, job, Ended(job), Ended(job), FALSE)

(* Mutant: the error of the last save is ignored. *)
FinishUnsavedReported(id) ==
  /\ RunReturned(id)
  /\ faults < MaxFaults
  /\ LET job == [jobs[id] EXCEPT !.status = Outcome]
     IN  \E file \in {disk[id], Ended(job)} : Idle(id, job, file, synced[id], TRUE)

(* The final record cannot be written: memory says FAILED, the file keeps the
   running record or, after the rename, has the outcome that was not reported. *)
FinishUnsaved(id) ==
  /\ RunReturned(id)
  /\ faults < MaxFaults
  /\ LET job == [jobs[id] EXCEPT !.status = Outcome]
     IN  \E file \in {disk[id], Ended(job)} :
           Idle(id, [job EXCEPT !.status = "FAILED"], file, synced[id], TRUE)

(* Cancel ends the context of the active job; after the deadline it has no
   effect, though it still answers that the job was cancelled. *)
Cancel(id) ==
  /\ up /\ active = {id}
  /\ ctx' = IF ctx = "live" THEN "cancelled" ELSE ctx
  /\ cancelled' = IF ctx = "live" THEN cancelled \cup {id} ELSE cancelled
  /\ UNCHANGED <<up, jobs, active, left, testing, results, files, clock, runs, bounds>>

(* The shutdown of the HTTP server cancels the active job. *)
Close ==
  /\ up /\ active # {} /\ ctx = "live"
  /\ ctx' = "cancelled"
  /\ UNCHANGED <<up, jobs, active, left, testing, results, files, clock, runs, cancelled, bounds>>

(* Ten minutes have passed since the job was launched. *)
Deadline ==
  /\ up /\ active # {} /\ ctx = "live"
  /\ ctx' = "expired"
  /\ UNCHANGED <<up, jobs, active, left, testing, results, files, clock, runs, cancelled, bounds>>

-----------------------------------------------------------------------------
(* Restarts. *)

(* The process ends, in the middle of a job or not; a power loss also takes
   the renames and removals that were not synced. *)
Crash ==
  /\ up /\ crashes < MaxCrashes
  /\ crashes' = crashes + 1
  /\ up' = FALSE
  /\ jobs' = [id \in IDs |-> None]
  /\ active' = {} /\ ctx' = "none" /\ left' = 0 /\ testing' = FALSE /\ results' = {}
  /\ \/ UNCHANGED files
     \/ \E lost \in SUBSET IDs :
          /\ disk' = [id \in IDs |-> IF id \in lost THEN synced[id] ELSE disk[id]]
          /\ synced' = disk'
  /\ UNCHANGED <<clock, runs, cancelled, faults>>

(* A file becomes unreadable while the agent is down. *)
Damage(id) ==
  /\ ~up /\ disk[id] # None /\ disk[id].status # "damaged"
  /\ faults < MaxFaults
  /\ faults' = faults + 1
  /\ disk' = [disk EXCEPT ![id].status = "damaged"]
  /\ synced' = disk'
  /\ UNCHANGED <<up, memory, clock, runs, cancelled, crashes>>

(* What New makes of a file: a running job was interrupted; a damaged record
   becomes a failed tombstone, created when its file was last written. *)
Recovered(file) ==
  IF file.status = "damaged" THEN [status |-> "FAILED", created |-> file.modified]
  ELSE [status |-> IF file.status = "RUNNING" THEN "INTERRUPTED" ELSE file.status,
        created |-> file.created]

Reloaded == [id \in IDs |-> IF disk[id] = None THEN None ELSE Recovered(disk[id])]

Rewritten(file) ==
  IF file.status = "damaged" THEN file ELSE Ended(Recovered(file))

(* New reads every file, writes each readable one back and prunes; the agent
   may have been down for any time. *)
New ==
  /\ ~up
  /\ up' = TRUE
  /\ \E horizon \in 0..clock : \E kept \in Pruned(Reloaded, horizon) :
     \E stays \in MayStay(Known(Reloaded) \ kept) :
       /\ Forget(Reloaded, kept)
       /\ faults' = IF stays = {} THEN faults ELSE faults + 1
       /\ disk' = [id \in IDs |-> IF id \in kept \cup stays THEN Rewritten(disk[id]) ELSE None]
  /\ synced' = [id \in IDs |-> IF disk[id] = None THEN synced[id] ELSE Rewritten(disk[id])]
  /\ UNCHANGED <<active, ctx, left, testing, results, clock, cancelled, crashes>>

(* A record cannot be written back: New fails and the agent exits, with some
   of the files rewritten. *)
NewFails ==
  /\ ~up
  /\ faults < MaxFaults
  /\ faults' = faults + 1
  /\ \E done \in SUBSET Known(disk) :
       /\ disk' = [id \in IDs |-> IF id \in done THEN Rewritten(disk[id]) ELSE disk[id]]
       /\ synced' = [id \in IDs |-> IF id \in done THEN Rewritten(disk[id]) ELSE synced[id]]
  /\ UNCHANGED <<up, memory, clock, runs, cancelled, crashes>>

Next ==
  \/ \E id \in IDs :
       \/ StartKnown(id) \/ StartBusy(id) \/ Start(id) \/ StartFails(id)
       \/ ItemStarts(id) \/ \E status \in ItemStatuses : ItemEnds(id, status)
       \/ Finish(id) \/ FinishUnsaved(id) \/ Cancel(id) \/ Damage(id)
  \/ StartInvalid \/ Close \/ Deadline \/ Crash \/ New \/ NewFails

Spec == Init /\ [][Next]_vars

(* The goroutine of Start is scheduled, every item ends (each is bounded by
   its own seconds and byte limits and by the context), and the process that
   supervises the agent starts it again. *)
FairSpec ==
  /\ Spec
  /\ \A id \in IDs :
       /\ WF_vars(ItemStarts(id))
       /\ WF_vars(\E status \in ItemStatuses : ItemEnds(id, status))
       /\ WF_vars(Finish(id))
  /\ WF_vars(New)

-----------------------------------------------------------------------------
(* Properties. *)

(* Every variable of the runner has its type. *)
TypeOK ==
  /\ up \in BOOLEAN /\ testing \in BOOLEAN
  /\ jobs \in [IDs -> JobRecords \cup {None}]
  /\ active \in SUBSET IDs
  /\ ctx \in {"none", "live", "cancelled", "expired"}
  /\ left \in 0..Items
  /\ results \subseteq ItemStatuses
  /\ {disk, synced} \subseteq [IDs -> FileRecords \cup {None}]
  /\ clock \in Times
  /\ runs \in [IDs -> Nat]
  /\ cancelled \subseteq IDs
  /\ faults \in 0..MaxFaults /\ crashes \in 0..MaxCrashes

(* "Retrying that ID must not silently spend the traffic budget a second
   time" (runner.go:208): until retention forgets an identifier it is executed
   at most once, whatever crashes, lost writes and damaged records happen;
   what is in memory and on disk has its type. *)
RunsOnce == TypeOK /\ \A id \in IDs : runs[id] <= 1

(* A result the panel can read, other than a failure, is on durable storage:
   the outcome a panel saw is still the outcome after a power loss. *)
ReportedIsDurable ==
  \A id \in Known(jobs) :
    jobs[id].status \in Terminal \ {"FAILED"} =>
      /\ synced[id] # None
      /\ synced[id].status = jobs[id].status

(* A job whose cancellation was accepted in time is never reported as having
   run to its end. *)
CancelledIsNotCompleted ==
  \A id \in cancelled \cap Known(jobs) : jobs[id].status \notin {"COMPLETED", "PARTIAL"}

(* The prune at the end of a job never drops the job that just finished,
   although the records of damaged files carry later times than their own. *)
FinishedIsKept ==
  [][\A id \in active : up' /\ active' = {} => jobs'[id] # None]_vars

(* A runner that is busy becomes idle again. *)
BusyEnds == (active # {}) ~> (active = {})

=============================================================================
