----------------------- MODULE BenchmarkRunner_proofs -----------------------
(***************************************************************************)
(* Proofs about BenchmarkRunner: for every set of task identifiers, every  *)
(* retention and number of items, starts, faults and crashes, a task is    *)
(* executed once, what is reported is durable, a cancelled task is not     *)
(* reported as completed and the job that finishes is not pruned.          *)
(***************************************************************************)
EXTENDS BenchmarkRunner, FiniteSetTheorems, TLAPS

\* A stopped agent has no memory.
DownIsEmpty == ~up => active = {} /\ \A id \in IDs : jobs[id] = None

\* No record is younger than the clock.
TimesPast ==
  \A id \in IDs :
    /\ jobs[id] # None => jobs[id].created <= clock
    /\ disk[id] # None => disk[id].created <= clock /\ disk[id].modified <= clock
    /\ synced[id] # None => synced[id].created <= clock /\ synced[id].modified <= clock

\* The active job is recorded as running wherever its record is, and it is
\* the youngest of all.
ActiveIsRunning ==
  \A id \in active :
    /\ active = {id}
    /\ jobs[id].status = "RUNNING" /\ jobs[id].created = clock
    /\ disk[id].status = "RUNNING" /\ synced[id].status = "RUNNING"
    /\ \A other \in Known(jobs) \ {id} : jobs[other].created < clock

\* What was executed and not forgotten has a record: in memory while the agent
\* is up, on disk, and on durable storage.
ExecutedIsKnown ==
  \A id \in IDs :
    /\ runs[id] <= 1
    /\ runs[id] = 1 => disk[id] # None /\ synced[id] # None /\ (up => jobs[id] # None)

Unwanted == {"COMPLETED", "PARTIAL"}

\* No record of a cancelled job says that it ran to its end, and none will.
CancelledStays ==
  \A id \in cancelled :
    /\ jobs[id].status \notin Unwanted
    /\ disk[id].status \notin Unwanted /\ synced[id].status \notin Unwanted
    /\ active = {id} => ctx = "cancelled"

IInv ==
  /\ TypeOK
  /\ DownIsEmpty
  /\ TimesPast
  /\ ActiveIsRunning
  /\ ExecutedIsKnown
  /\ ReportedIsDurable
  /\ CancelledStays

-----------------------------------------------------------------------------
\* Records.

LEMMA NoneIsNoRecord ==
  /\ None.status = "none"
  /\ None \notin JobRecords /\ None \notin FileRecords
  /\ \A r \in JobRecords : r # None /\ r.status \in Terminal \cup {"RUNNING"} /\ r.created \in Times
  /\ \A f \in FileRecords : /\ f # None /\ f.status \in Terminal \cup {"RUNNING", "damaged"}
                            /\ f.created \in Times /\ f.modified \in Times
<1>1. None.status = "none"
  BY DEF None
<1>2. "none" \notin Terminal \cup {"RUNNING", "damaged"}
  BY DEF Terminal
<1>3. /\ \A r \in JobRecords : r.status \in Terminal \cup {"RUNNING"} /\ r.created \in Times
      /\ \A f \in FileRecords : /\ f.status \in Terminal \cup {"RUNNING", "damaged"}
                                /\ f.created \in Times /\ f.modified \in Times
  BY DEF JobRecords, FileRecords
<1> QED BY <1>1, <1>2, <1>3

LEMMA TimesAreNat == Times \subseteq Nat /\ \A n \in Times : \A m \in Nat : m <= n => m \in Times
BY BenchmarkAssumption DEF Times

LEMMA Typed ==
  ASSUME TypeOK, NEW id \in IDs
  PROVE  /\ jobs[id] # None => jobs[id] \in JobRecords
         /\ disk[id] # None => disk[id] \in FileRecords
         /\ synced[id] # None => synced[id] \in FileRecords
BY DEF TypeOK

\* A file made of a job, by save or by the end of the run loop.
LEMMA MadeFile ==
  ASSUME NEW status \in Terminal \cup {"RUNNING"}, NEW created \in Times, NEW modified \in Times
  PROVE  [status |-> status, created |-> created, modified |-> modified] \in FileRecords
BY DEF FileRecords

\* What New makes of a file.
LEMMA RecoveredRecord ==
  ASSUME NEW file \in FileRecords, clock \in Times, file.created <= clock, file.modified <= clock
  PROVE  /\ Recovered(file) \in JobRecords /\ Recovered(file).status \in Terminal
         /\ Recovered(file).created <= clock
         /\ Rewritten(file) \in FileRecords
         /\ Rewritten(file).created <= clock /\ Rewritten(file).modified <= clock
         /\ Recovered(file).status # "FAILED" => Rewritten(file).status = Recovered(file).status
         /\ file.status \notin Unwanted => /\ Recovered(file).status \notin Unwanted
                                           /\ Rewritten(file).status \notin Unwanted
<1> DEFINE r == Recovered(file)
<1>0. file.status \in Terminal \cup {"RUNNING", "damaged"} /\ file.created \in Times /\ file.modified \in Times
  BY NoneIsNoRecord
<1>1. CASE file.status = "damaged"
  <2>1. r = [status |-> "FAILED", created |-> file.modified] /\ Rewritten(file) = file
    BY <1>1 DEF Recovered, Rewritten
  <2> HIDE DEF r
  <2>2. r.status = "FAILED" /\ r.created = file.modified /\ r \in JobRecords
    BY <1>0, <2>1 DEF JobRecords, Terminal
  <2> QED BY <1>0, <1>1, <2>1, <2>2 DEF r, Terminal, Unwanted
<1>2. CASE file.status # "damaged"
  <2> DEFINE st == IF file.status = "RUNNING" THEN "INTERRUPTED" ELSE file.status
  <2>1. r = [status |-> st, created |-> file.created]
    BY <1>2 DEF Recovered
  <2>2. st \in Terminal /\ (file.status \notin Unwanted => st \notin Unwanted)
    BY <1>0, <1>2 DEF Terminal, Unwanted
  <2> HIDE DEF st, r
  <2>3. r.status = st /\ r.created = file.created /\ r \in JobRecords
    BY <1>0, <2>1, <2>2 DEF JobRecords
  <2>4. Rewritten(file) = [status |-> st, created |-> file.created, modified |-> clock]
    BY <1>2, <2>3 DEF Rewritten, Ended, r
  <2>5. /\ Rewritten(file) \in FileRecords /\ Rewritten(file).status = st
        /\ Rewritten(file).created = file.created /\ Rewritten(file).modified = clock
    BY <1>0, <2>2, <2>4 DEF FileRecords
  <2>6. clock <= clock
    BY TimesAreNat
  <2> QED BY <2>2, <2>3, <2>5, <2>6 DEF r
<1> QED BY <1>1, <1>2

\* prune keeps known records only.
LEMMA PrunedIsKnown ==
  ASSUME NEW records, NEW horizon, NEW kept \in Pruned(records, horizon)
  PROVE  kept \subseteq Known(records) /\ kept \subseteq IDs
BY DEF Pruned, Newest, NotAged, Known

\* prune keeps a record that is younger than all the others and the horizon.
LEMMA PrunedKeepsYoungest ==
  ASSUME NEW records, NEW id \in Known(records), NEW horizon, NEW kept \in Pruned(records, horizon),
         records[id].created \in Nat, records[id].created > horizon,
         \A other \in Known(records) \ {id} : /\ records[other].created \in Nat
                                              /\ records[other].created < records[id].created
  PROVE  id \in kept
<1> DEFINE all == Known(records)
           n == Limit(records, MaxJobs)
<1>1. IsFiniteSet(all)
  <2>1. all \subseteq IDs
    BY DEF Known
  <2> QED BY <2>1, BenchmarkAssumption, FS_Subset
<1>2. Cardinality(all) \in Nat /\ Cardinality(all) # 0
  BY <1>1, FS_CardinalityType, FS_EmptySet
<1>3. n # 0
  BY <1>2, BenchmarkAssumption DEF Limit
<1>4. PICK recent \in Newest(records, n) : kept = NotAged(records, recent, horizon)
  BY DEF Pruned
<1>5. /\ recent \subseteq all /\ Cardinality(recent) = n
      /\ \A old \in all \ recent, new \in recent : records[old].created <= records[new].created
  BY <1>4 DEF Newest
<1>6. recent # {}
  BY <1>3, <1>5, FS_EmptySet
<1>7. id \in recent
  <2> SUFFICES ASSUME id \notin recent PROVE FALSE
    OBVIOUS
  <2>1. PICK new \in recent : TRUE
    BY <1>6
  <2>2. records[id].created <= records[new].created
    BY <1>5, <2>1
  <2>3. records[new].created \in Nat /\ records[new].created < records[id].created
    BY <1>5, <2>1
  <2> QED BY <2>2, <2>3
<1> QED BY <1>4, <1>7 DEF NotAged

-----------------------------------------------------------------------------
\* The steps.

\* A file written for a job that runs, now.
LEMMA RunningFile ==
  ASSUME NEW job, job.status = "RUNNING", job.created \in Times, clock' \in Times
  PROVE  /\ FileOf(job) \in FileRecords /\ FileOf(job) # None
         /\ FileOf(job).status = "RUNNING"
         /\ FileOf(job).created = job.created /\ FileOf(job).modified = clock'
<1>1. FileOf(job) \in FileRecords
  BY MadeFile DEF FileOf
<1> QED BY <1>1, NoneIsNoRecord DEF FileOf

\* A step of the active job that leaves it active: the files are those of
\* before or say that it runs.
LEMMA ActiveStep ==
  ASSUME IInv, NEW id \in IDs, active = {id}, UNCHANGED <<up, jobs, active, clock, runs, crashes>>,
         testing' \in BOOLEAN, left' \in 0..Items, results' \subseteq ItemStatuses,
         faults' \in 0..MaxFaults,
         ctx' \in {"none", "live", "cancelled", "expired"},
         ctx = "cancelled" => ctx' = "cancelled",
         cancelled' = cancelled \/ (cancelled' = cancelled \cup {id} /\ ctx' = "cancelled"),
         disk' \in {disk, [disk EXCEPT ![id] = FileOf(jobs[id])]},
         synced' \in {synced, [synced EXCEPT ![id] = FileOf(jobs[id])]}
  PROVE  IInv'
<1> DEFINE file == FileOf(jobs[id])
<1>0. /\ TypeOK /\ DownIsEmpty /\ TimesPast /\ ActiveIsRunning /\ ExecutedIsKnown
      /\ ReportedIsDurable /\ CancelledStays
  BY DEF IInv
<1>1. /\ up /\ jobs[id].status = "RUNNING" /\ jobs[id].created = clock /\ clock \in Times
      /\ disk[id].status = "RUNNING" /\ synced[id].status = "RUNNING"
      /\ \A other \in Known(jobs) \ {id} : jobs[other].created < clock
  BY <1>0 DEF ActiveIsRunning, DownIsEmpty, TypeOK
<1>2. /\ file \in FileRecords /\ file # None /\ file.status = "RUNNING"
      /\ file.created = clock /\ file.modified = clock /\ clock <= clock
  BY <1>1, RunningFile, TimesAreNat
<1> HIDE DEF file
<1>3. /\ disk \in [IDs -> FileRecords \cup {None}] /\ synced \in [IDs -> FileRecords \cup {None}]
  BY <1>0 DEF TypeOK
<1>4. /\ disk' \in [IDs -> FileRecords \cup {None}] /\ synced' \in [IDs -> FileRecords \cup {None}]
      /\ \A i \in IDs : disk'[i] = disk[i] \/ (i = id /\ disk'[i] = file)
      /\ \A i \in IDs : synced'[i] = synced[i] \/ (i = id /\ synced'[i] = file)
  BY <1>2, <1>3 DEF file
<1>5. TypeOK'
  BY <1>0, <1>4 DEF TypeOK
<1>6. DownIsEmpty'
  BY <1>0 DEF DownIsEmpty
<1>7. TimesPast'
  BY <1>0, <1>2, <1>4 DEF TimesPast
<1>8. ActiveIsRunning'
  BY <1>1, <1>2, <1>4 DEF ActiveIsRunning, Known
<1>9. ExecutedIsKnown'
  BY <1>0, <1>2, <1>4 DEF ExecutedIsKnown
<1>10. ReportedIsDurable'
  BY <1>0, <1>1, <1>2, <1>4 DEF ReportedIsDurable, Known, Terminal
<1>11. CancelledStays'
  BY <1>0, <1>1, <1>2, <1>4 DEF CancelledStays, Unwanted, TypeOK
<1> QED BY <1>5, <1>6, <1>7, <1>8, <1>9, <1>10, <1>11 DEF IInv

\* change writes the record of the running job or cancels it.
LEMMA ChangeWrites ==
  ASSUME TypeOK, NEW id \in IDs, Change(id)
  PROVE  /\ faults' \in 0..MaxFaults
         /\ ctx' \in {"none", "live", "cancelled", "expired"}
         /\ ctx = "cancelled" => ctx' = "cancelled"
         /\ disk' \in {disk, [disk EXCEPT ![id] = FileOf(jobs[id])]}
         /\ synced' \in {synced, [synced EXCEPT ![id] = FileOf(jobs[id])]}
BY BenchmarkAssumption DEF Change, Saved, SaveFails, TypeOK

LEMMA ItemStartsIInv == ASSUME IInv, NEW id \in IDs, ItemStarts(id) PROVE IInv'
<1>1. TypeOK
  BY DEF IInv
<1>2. /\ active = {id} /\ UNCHANGED <<up, jobs, active, clock, runs, crashes>>
      /\ testing' \in BOOLEAN /\ left' \in 0..Items /\ results' \subseteq ItemStatuses
      /\ cancelled' = cancelled /\ Change(id)
  BY <1>1, BenchmarkAssumption DEF ItemStarts, TypeOK
<1> QED BY <1>1, <1>2, ChangeWrites, ActiveStep

LEMMA ItemEndsIInv ==
  ASSUME IInv, NEW id \in IDs, NEW status \in ItemStatuses, ItemEnds(id, status) PROVE IInv'
<1>1. TypeOK
  BY DEF IInv
<1>2. /\ active = {id} /\ UNCHANGED <<up, jobs, active, clock, runs, crashes>>
      /\ testing' \in BOOLEAN /\ left' \in 0..Items /\ results' \subseteq ItemStatuses
      /\ cancelled' = cancelled /\ Change(id)
  BY <1>1 DEF ItemEnds, TypeOK
<1> QED BY <1>1, <1>2, ChangeWrites, ActiveStep

\* Cancel, Close and the deadline end the context and touch nothing else.
LEMMA CancelIInv == ASSUME IInv, NEW id \in IDs, Cancel(id) PROVE IInv'
<1>1. TypeOK
  BY DEF IInv
<1>2. /\ active = {id} /\ UNCHANGED <<up, jobs, active, clock, runs, crashes>>
      /\ testing' \in BOOLEAN /\ left' \in 0..Items /\ results' \subseteq ItemStatuses
      /\ faults' \in 0..MaxFaults
      /\ ctx' \in {"none", "live", "cancelled", "expired"}
      /\ ctx = "cancelled" => ctx' = "cancelled"
      /\ cancelled' = cancelled \/ (cancelled' = cancelled \cup {id} /\ ctx' = "cancelled")
      /\ disk' = disk /\ synced' = synced
  BY <1>1 DEF Cancel, TypeOK, files, bounds
<1> QED BY <1>2, ActiveStep

LEMMA EndsIInv == ASSUME IInv, Close \/ Deadline PROVE IInv'
<1>1. TypeOK /\ ActiveIsRunning
  BY DEF IInv
<1>2. PICK id \in IDs : active = {id}
  BY <1>1 DEF Close, Deadline, TypeOK, ActiveIsRunning
<1>3. /\ UNCHANGED <<up, jobs, active, clock, runs, crashes>>
      /\ testing' \in BOOLEAN /\ left' \in 0..Items /\ results' \subseteq ItemStatuses
      /\ faults' \in 0..MaxFaults
      /\ ctx' \in {"none", "live", "cancelled", "expired"}
      /\ ctx = "cancelled" => ctx' = "cancelled"
      /\ cancelled' = cancelled /\ disk' = disk /\ synced' = synced
  BY <1>1 DEF Close, Deadline, TypeOK, files, bounds
<1> QED BY <1>2, <1>3, ActiveStep

\* A task is launched after its record has been written and synced.
LEMMA StartIInv == ASSUME IInv, NEW id \in IDs, Start(id) PROVE IInv'
<1> DEFINE file == FileOf(NewJob)
<1>0. /\ TypeOK /\ DownIsEmpty /\ TimesPast /\ ActiveIsRunning /\ ExecutedIsKnown
      /\ ReportedIsDurable /\ CancelledStays
  BY DEF IInv
<1>1. /\ up /\ up' /\ jobs[id] = None /\ active = {} /\ active' = {id} /\ clock' = clock + 1
      /\ clock < MaxStarts /\ clock \in Times
  BY <1>0 DEF Start, Launches, Launched, TypeOK
<1>2. clock \in Nat /\ clock' \in Times
  BY <1>1, TimesAreNat, BenchmarkAssumption DEF Times
<1>3. NewJob.status = "RUNNING" /\ NewJob.created = clock' /\ NewJob \in JobRecords /\ NewJob # None
  <2>1. NewJob \in JobRecords
    BY <1>2 DEF NewJob, JobRecords
  <2> QED BY <2>1, NoneIsNoRecord DEF NewJob
<1>4. /\ file \in FileRecords /\ file # None /\ file.status = "RUNNING"
      /\ file.created = clock' /\ file.modified = clock' /\ clock' <= clock'
  BY <1>2, <1>3, RunningFile, TimesAreNat
<1> HIDE DEF file
<1>5. /\ jobs' = [jobs EXCEPT ![id] = NewJob]
      /\ disk' = [disk EXCEPT ![id] = file] /\ synced' = [synced EXCEPT ![id] = file]
      /\ runs' = [runs EXCEPT ![id] = @ + 1] /\ cancelled' = cancelled \ {id}
      /\ ctx' = "live" /\ left' = Items /\ testing' = FALSE /\ results' = {}
      /\ UNCHANGED <<up, crashes, faults>>
  BY DEF Start, Launched, Saved, file
<1>6. /\ jobs' \in [IDs -> JobRecords \cup {None}]
      /\ disk' \in [IDs -> FileRecords \cup {None}] /\ synced' \in [IDs -> FileRecords \cup {None}]
      /\ runs' \in [IDs -> Nat]
      /\ jobs'[id] = NewJob /\ disk'[id] = file /\ synced'[id] = file /\ runs'[id] = runs[id] + 1
      /\ runs[id] \in Nat
      /\ \A i \in IDs \ {id} : /\ jobs'[i] = jobs[i] /\ disk'[i] = disk[i]
                               /\ synced'[i] = synced[i] /\ runs'[i] = runs[i]
  <2>1. /\ jobs \in [IDs -> JobRecords \cup {None}] /\ runs \in [IDs -> Nat]
        /\ disk \in [IDs -> FileRecords \cup {None}] /\ synced \in [IDs -> FileRecords \cup {None}]
    BY <1>0 DEF TypeOK
  <2> QED BY <1>3, <1>4, <1>5, <2>1
<1>7. \A i \in IDs : /\ jobs[i] # None => jobs[i].created \in Nat
                     /\ disk[i] # None => disk[i].created \in Nat /\ disk[i].modified \in Nat
                     /\ synced[i] # None => synced[i].created \in Nat /\ synced[i].modified \in Nat
  BY <1>0, Typed, NoneIsNoRecord, TimesAreNat
<1>8. TypeOK'
  <2>1. {disk', synced'} \subseteq [IDs -> FileRecords \cup {None}]
    BY <1>6
  <2>a. left' \in 0..Items
    BY <1>5, BenchmarkAssumption
  <2>2. left' \in 0..Items /\ results' \subseteq ItemStatuses /\ testing' \in BOOLEAN
    BY <1>5, <2>a
  <2>3. active' \in SUBSET IDs /\ up' \in BOOLEAN /\ ctx' \in {"none", "live", "cancelled", "expired"}
    BY <1>0, <1>1, <1>5 DEF TypeOK
  <2>4. cancelled' \subseteq IDs /\ faults' \in 0..MaxFaults /\ crashes' \in 0..MaxCrashes
    BY <1>0, <1>5 DEF TypeOK
  <2> QED BY <1>2, <1>6, <2>1, <2>2, <2>3, <2>4 DEF TypeOK
<1>9. DownIsEmpty'
  BY <1>1 DEF DownIsEmpty
<1>10. TimesPast'
  BY <1>0, <1>1, <1>2, <1>3, <1>4, <1>6, <1>7 DEF TimesPast
<1>11. ActiveIsRunning'
  <2>1. \A other \in IDs \ {id} : jobs'[other] # None => jobs'[other].created < clock'
    BY <1>0, <1>1, <1>2, <1>6, <1>7 DEF TimesPast
  <2> QED BY <1>1, <1>3, <1>4, <1>6, <2>1 DEF ActiveIsRunning, Known
<1>12. ExecutedIsKnown'
  <2>1. runs[id] = 0
    BY <1>0, <1>1, <1>6 DEF ExecutedIsKnown
  <2> QED BY <1>0, <1>1, <1>3, <1>4, <1>6, <2>1 DEF ExecutedIsKnown
<1>13. ReportedIsDurable'
  BY <1>0, <1>3, <1>6 DEF ReportedIsDurable, Known, Terminal
<1>14. CancelledStays'
  BY <1>0, <1>1, <1>5, <1>6 DEF CancelledStays, TypeOK
<1> QED BY <1>8, <1>9, <1>10, <1>11, <1>12, <1>13, <1>14 DEF IInv

\* A refused request may leave its record on disk.
LEMMA StartFailsIInv == ASSUME IInv, NEW id \in IDs, StartFails(id) PROVE IInv'
<1> DEFINE file == FileOf(NewJob)
<1>0. /\ TypeOK /\ DownIsEmpty /\ TimesPast /\ ActiveIsRunning /\ ExecutedIsKnown
      /\ ReportedIsDurable /\ CancelledStays
  BY DEF IInv
<1>1. /\ up /\ jobs[id] = None /\ active = {} /\ clock' = clock + 1
      /\ clock < MaxStarts /\ clock \in Times
  BY <1>0 DEF StartFails, Launches, TypeOK
<1>2. clock \in Nat /\ clock' \in Times
  BY <1>1, TimesAreNat, BenchmarkAssumption DEF Times
<1>3. /\ file \in FileRecords /\ file # None /\ file.status = "RUNNING"
      /\ file.created = clock' /\ file.modified = clock' /\ clock' <= clock'
  BY <1>2, RunningFile, TimesAreNat DEF NewJob
<1> HIDE DEF file
<1>4. /\ disk' \in {disk, [disk EXCEPT ![id] = file]} /\ synced' = synced
      /\ faults < MaxFaults /\ faults' = faults + 1
      /\ UNCHANGED <<up, jobs, active, ctx, left, testing, results, runs, cancelled, crashes>>
  BY DEF StartFails, SaveFails, memory, file
<1>5. /\ disk' \in [IDs -> FileRecords \cup {None}]
      /\ \A i \in IDs : disk'[i] = disk[i] \/ (i = id /\ disk'[i] = file)
  <2>1. disk \in [IDs -> FileRecords \cup {None}]
    BY <1>0 DEF TypeOK
  <2> QED BY <1>3, <1>4, <2>1
<1>6. \A i \in IDs : /\ jobs[i] # None => jobs[i].created \in Nat
                     /\ disk[i] # None => disk[i].created \in Nat /\ disk[i].modified \in Nat
                     /\ synced[i] # None => synced[i].created \in Nat /\ synced[i].modified \in Nat
  BY <1>0, Typed, NoneIsNoRecord, TimesAreNat
<1>7. TypeOK'
  BY <1>0, <1>2, <1>4, <1>5, BenchmarkAssumption DEF TypeOK
<1>8. DownIsEmpty' /\ ActiveIsRunning'
  BY <1>1, <1>4 DEF DownIsEmpty, ActiveIsRunning
<1>9. TimesPast'
  BY <1>0, <1>1, <1>2, <1>3, <1>4, <1>5, <1>6 DEF TimesPast
<1>10. ExecutedIsKnown'
  BY <1>0, <1>3, <1>4, <1>5 DEF ExecutedIsKnown
<1>11. ReportedIsDurable'
  BY <1>0, <1>4 DEF ReportedIsDurable, Known
<1>12. CancelledStays'
  BY <1>0, <1>3, <1>4, <1>5 DEF CancelledStays, Unwanted, TypeOK
<1> QED BY <1>7, <1>8, <1>9, <1>10, <1>11, <1>12 DEF IInv

\* The end of the process leaves each file as it is or as it was synced.
LEMMA CrashIInv == ASSUME IInv, Crash PROVE IInv'
<1>0. /\ TypeOK /\ TimesPast /\ ExecutedIsKnown /\ CancelledStays
  BY DEF IInv
<1>1. /\ ~up' /\ active' = {} /\ ctx' = "none" /\ left' = 0 /\ testing' = FALSE /\ results' = {}
      /\ crashes < MaxCrashes /\ crashes' = crashes + 1 /\ up' \in BOOLEAN
      /\ UNCHANGED <<clock, runs, cancelled, faults>>
      /\ jobs' = [id \in IDs |-> None]
  BY DEF Crash
<1>2. /\ {disk', synced'} \subseteq [IDs -> FileRecords \cup {None}]
      /\ \A i \in IDs : disk'[i] \in {disk[i], synced[i]} /\ synced'[i] \in {disk[i], synced[i]}
  <2>1. disk \in [IDs -> FileRecords \cup {None}] /\ synced \in [IDs -> FileRecords \cup {None}]
    BY <1>0 DEF TypeOK
  <2>2. CASE UNCHANGED files
    BY <2>1, <2>2 DEF files
  <2>3. CASE \E lost \in SUBSET IDs :
          /\ disk' = [id \in IDs |-> IF id \in lost THEN synced[id] ELSE disk[id]]
          /\ synced' = disk'
    BY <2>1, <2>3
  <2> QED BY <2>2, <2>3 DEF Crash
<1>3. TypeOK'
  <2>a. left' \in 0..Items
    BY <1>1, BenchmarkAssumption
  <2>1. jobs' \in [IDs -> JobRecords \cup {None}] /\ testing' \in BOOLEAN
    BY <1>1
  <2>2. crashes' \in 0..MaxCrashes
    BY <1>0, <1>1, BenchmarkAssumption DEF TypeOK
  <2> QED BY <1>0, <1>1, <1>2, <2>a, <2>1, <2>2 DEF TypeOK
<1>4. DownIsEmpty' /\ ActiveIsRunning'
  BY <1>1 DEF DownIsEmpty, ActiveIsRunning
<1>5. TimesPast'
  BY <1>0, <1>1, <1>2 DEF TimesPast
<1>6. ExecutedIsKnown'
  BY <1>0, <1>1, <1>2 DEF ExecutedIsKnown
<1>7. ReportedIsDurable'
  BY <1>1 DEF ReportedIsDurable, Known
<1>8. CancelledStays'
  BY <1>0, <1>1, <1>2, NoneIsNoRecord DEF CancelledStays, TypeOK, Unwanted
<1> QED BY <1>3, <1>4, <1>5, <1>6, <1>7, <1>8 DEF IInv

\* Steps of a stopped agent's files that keep every record a record, not
\* younger than the clock and not a completed one of a cancelled job.
LEMMA DownStep ==
  ASSUME IInv, ~up, UNCHANGED <<up, memory, clock, runs, cancelled, crashes>>,
         faults' \in 0..MaxFaults,
         {disk', synced'} \subseteq [IDs -> FileRecords \cup {None}],
         \A i \in IDs : \A new \in {disk'[i], synced'[i]} : \E old \in {disk[i], synced[i]} :
           /\ old # None => new # None
           /\ new # None => old # None /\ new.created <= clock /\ new.modified <= clock
           /\ old.status \notin Unwanted => new.status \notin Unwanted
  PROVE  IInv'
<1>0. /\ TypeOK /\ DownIsEmpty /\ TimesPast /\ ExecutedIsKnown /\ CancelledStays
  BY DEF IInv
<1>1. /\ UNCHANGED <<up, jobs, active, ctx, left, testing, results, clock, runs, cancelled, crashes>>
      /\ active = {} /\ \A id \in IDs : jobs[id] = None
  BY <1>0 DEF memory, DownIsEmpty
<1>2. TypeOK'
  BY <1>0, <1>1 DEF TypeOK
<1>3. DownIsEmpty' /\ ActiveIsRunning' /\ ReportedIsDurable'
  BY <1>1 DEF DownIsEmpty, ActiveIsRunning, ReportedIsDurable, Known
<1>4. TimesPast'
  BY <1>0, <1>1 DEF TimesPast
<1>5. ExecutedIsKnown'
  BY <1>0, <1>1 DEF ExecutedIsKnown
<1>6. CancelledStays'
  BY <1>0, <1>1 DEF CancelledStays, TypeOK
<1> QED BY <1>2, <1>3, <1>4, <1>5, <1>6 DEF IInv

LEMMA DamageIInv == ASSUME IInv, NEW id \in IDs, Damage(id) PROVE IInv'
<1>0. TypeOK /\ TimesPast
  BY DEF IInv
<1>1. /\ ~up /\ UNCHANGED <<up, memory, clock, runs, cancelled, crashes>>
      /\ faults' \in 0..MaxFaults /\ disk[id] # None
      /\ disk' = [disk EXCEPT ![id] = [@ EXCEPT !.status = "damaged"]] /\ synced' = disk'
  BY <1>0, BenchmarkAssumption DEF Damage, TypeOK
<1>2. /\ disk \in [IDs -> FileRecords \cup {None}] /\ disk[id] \in FileRecords
      /\ disk[id].created <= clock /\ disk[id].modified <= clock
  BY <1>0, <1>1, Typed DEF TypeOK, TimesPast
<1> DEFINE f == [disk[id] EXCEPT !.status = "damaged"]
<1>3. f \in FileRecords /\ f.status = "damaged" /\ f.created = disk[id].created /\ f.modified = disk[id].modified
  BY <1>2 DEF FileRecords
<1> HIDE DEF f
<1>4. f # None
  BY <1>3, NoneIsNoRecord
<1>5. /\ disk' \in [IDs -> FileRecords \cup {None}] /\ disk'[id] = f
      /\ \A i \in IDs \ {id} : disk'[i] = disk[i]
  BY <1>1, <1>2, <1>3 DEF f
<1>6. \A i \in IDs : /\ disk[i] # None => disk'[i] # None
                     /\ disk'[i] # None => disk[i] # None /\ disk'[i].created <= clock /\ disk'[i].modified <= clock
                     /\ disk[i].status \notin Unwanted => disk'[i].status \notin Unwanted
  BY <1>0, <1>1, <1>2, <1>3, <1>4, <1>5 DEF TimesPast, Unwanted
<1>7. \A i \in IDs : \A new \in {disk'[i], synced'[i]} : \E old \in {disk[i], synced[i]} :
           /\ old # None => new # None
           /\ new # None => old # None /\ new.created <= clock /\ new.modified <= clock
           /\ old.status \notin Unwanted => new.status \notin Unwanted
  BY <1>1, <1>6
<1> QED BY <1>1, <1>5, <1>7, DownStep

\* What New writes back for a file.
LEMMA RewrittenFile ==
  ASSUME IInv, NEW i \in IDs, disk[i] # None
  PROVE  /\ Recovered(disk[i]) \in JobRecords /\ Recovered(disk[i]).status \in Terminal
         /\ Recovered(disk[i]) # None /\ Recovered(disk[i]).created <= clock
         /\ Rewritten(disk[i]) \in FileRecords /\ Rewritten(disk[i]) # None
         /\ Rewritten(disk[i]).created <= clock /\ Rewritten(disk[i]).modified <= clock
         /\ Recovered(disk[i]).status # "FAILED" => Rewritten(disk[i]).status = Recovered(disk[i]).status
         /\ disk[i].status \notin Unwanted => /\ Recovered(disk[i]).status \notin Unwanted
                                              /\ Rewritten(disk[i]).status \notin Unwanted
<1>1. disk[i] \in FileRecords /\ clock \in Times /\ disk[i].created <= clock /\ disk[i].modified <= clock
  BY Typed DEF IInv, TypeOK, TimesPast
<1> QED BY <1>1, RecoveredRecord, NoneIsNoRecord

LEMMA NewFailsIInv == ASSUME IInv, NewFails PROVE IInv'
<1>0. TypeOK /\ TimesPast
  BY DEF IInv
<1>1. /\ ~up /\ UNCHANGED <<up, memory, clock, runs, cancelled, crashes>> /\ faults' \in 0..MaxFaults
  BY <1>0, BenchmarkAssumption DEF NewFails, TypeOK
<1>2. PICK done \in SUBSET Known(disk) :
       /\ disk' = [id \in IDs |-> IF id \in done THEN Rewritten(disk[id]) ELSE disk[id]]
       /\ synced' = [id \in IDs |-> IF id \in done THEN Rewritten(disk[id]) ELSE synced[id]]
  BY DEF NewFails
<1>3. \A i \in done : i \in IDs /\ disk[i] # None
  BY <1>2 DEF Known
<1>4. {disk', synced'} \subseteq [IDs -> FileRecords \cup {None}]
  <2>1. disk \in [IDs -> FileRecords \cup {None}] /\ synced \in [IDs -> FileRecords \cup {None}]
    BY <1>0 DEF TypeOK
  <2>2. \A i \in done : Rewritten(disk[i]) \in FileRecords
    BY <1>3, RewrittenFile
  <2> QED BY <1>2, <2>1, <2>2
<1>5. ASSUME NEW i \in IDs, NEW new \in {disk'[i], synced'[i]}
      PROVE  \E old \in {disk[i], synced[i]} :
               /\ old # None => new # None
               /\ new # None => old # None /\ new.created <= clock /\ new.modified <= clock
               /\ old.status \notin Unwanted => new.status \notin Unwanted
  <2>1. CASE i \in done
    <3>1. new = Rewritten(disk[i]) /\ disk[i] # None
      BY <1>2, <1>3, <1>5, <2>1
    <3> QED BY <3>1, RewrittenFile
  <2>2. CASE i \notin done
    BY <1>0, <1>2, <1>5, <2>2 DEF TimesPast
  <2> QED BY <2>1, <2>2
<1> QED BY <1>1, <1>4, <1>5, DownStep

\* The status of a job that has ended.
LEMMA OutcomeIsTerminal ==
  ASSUME TypeOK
  PROVE  Outcome \in Terminal /\ (ctx = "cancelled" => Outcome \notin Unwanted)
<1>1. CASE ctx = "cancelled"
  BY <1>1 DEF Outcome, Terminal, Unwanted
<1>2. CASE ctx = "expired"
  BY <1>2 DEF Outcome, Terminal, Unwanted
<1>3. CASE ctx \notin {"cancelled", "expired"}
  <2>1. Outcome \in {"PARTIAL", "FAILED", "COMPLETED"}
    BY <1>3 DEF Outcome, ResultOf
  <2> QED BY <1>3, <2>1 DEF Terminal
<1> QED BY <1>1, <1>2, <1>3

\* The runner becomes idle: the record of the job that ended is a terminal
\* one, durable unless it is a failure, and prune keeps it.
LEMMA IdleIInv ==
  ASSUME IInv, NEW id \in IDs, active = {id}, testing = FALSE,
         NEW job \in JobRecords, job.status \in Terminal, job.created = clock,
         NEW file \in FileRecords, file.created <= clock, file.modified <= clock,
         NEW durable \in FileRecords, durable.created <= clock, durable.modified <= clock,
         job.status # "FAILED" => durable.status = job.status,
         ctx = "cancelled" => /\ job.status \notin Unwanted
                              /\ file.status \notin Unwanted /\ durable.status \notin Unwanted,
         NEW failed \in BOOLEAN, failed => faults < MaxFaults,
         Idle(id, job, file, durable, failed)
  PROVE  IInv' /\ jobs'[id] # None
<1> DEFINE records == [jobs EXCEPT ![id] = job]
<1>0. /\ TypeOK /\ DownIsEmpty /\ TimesPast /\ ActiveIsRunning /\ ExecutedIsKnown
      /\ ReportedIsDurable /\ CancelledStays
  BY DEF IInv
<1>1. /\ active' = {} /\ ctx' = "none" /\ left' = 0 /\ results' = {}
      /\ UNCHANGED <<up, testing, clock, cancelled, crashes>>
  BY DEF Idle
<1>2. PICK horizon \in 0..(clock - 1) : \E kept \in Pruned(records, horizon) :
     \E stays \in MayStay(Known(records) \ kept) :
       /\ Forget(records, kept)
       /\ disk' = [i \in IDs |-> IF i \in Known(records) \ (kept \cup stays) THEN None
                                 ELSE IF i = id THEN file ELSE disk[i]]
       /\ synced' = [synced EXCEPT ![id] = durable]
       /\ faults' = IF failed \/ stays # {} THEN faults + 1 ELSE faults
  BY DEF Idle
<1>3. PICK kept \in Pruned(records, horizon) : \E stays \in MayStay(Known(records) \ kept) :
       /\ Forget(records, kept)
       /\ disk' = [i \in IDs |-> IF i \in Known(records) \ (kept \cup stays) THEN None
                                 ELSE IF i = id THEN file ELSE disk[i]]
       /\ synced' = [synced EXCEPT ![id] = durable]
       /\ faults' = IF failed \/ stays # {} THEN faults + 1 ELSE faults
  BY <1>2
<1>4. PICK stays \in MayStay(Known(records) \ kept) :
       /\ Forget(records, kept)
       /\ disk' = [i \in IDs |-> IF i \in Known(records) \ (kept \cup stays) THEN None
                                 ELSE IF i = id THEN file ELSE disk[i]]
       /\ synced' = [synced EXCEPT ![id] = durable]
       /\ faults' = IF failed \/ stays # {} THEN faults + 1 ELSE faults
  BY <1>3
<1>5. /\ jobs \in [IDs -> JobRecords \cup {None}] /\ runs \in [IDs -> Nat]
      /\ disk \in [IDs -> FileRecords \cup {None}] /\ synced \in [IDs -> FileRecords \cup {None}]
      /\ clock \in Times /\ clock \in Nat /\ faults \in 0..MaxFaults
  BY <1>0, TimesAreNat DEF TypeOK
<1>6. job # None /\ file # None /\ durable # None
  BY NoneIsNoRecord
<1>7. /\ records \in [IDs -> JobRecords \cup {None}] /\ records[id] = job
      /\ \A i \in IDs \ {id} : records[i] = jobs[i]
      /\ id \in Known(records)
  BY <1>5, <1>6 DEF Known
<1>8. \A i \in IDs : /\ i \in Known(records) <=> records[i] # None
                     /\ records[i] # None /\ i # id => /\ records[i].created \in Nat
                                                       /\ records[i].created < clock
  <2>1. \A i \in IDs : i \in Known(records) <=> records[i] # None
    BY DEF Known
  <2>2. \A i \in IDs \ {id} : jobs[i] # None => jobs[i].created < clock
    BY <1>0 DEF ActiveIsRunning, Known
  <2>3. \A i \in IDs : jobs[i] # None => jobs[i].created \in Nat
    BY <1>0, Typed, NoneIsNoRecord, TimesAreNat
  <2> QED BY <1>7, <2>1, <2>2, <2>3
<1>9. /\ jobs' = [i \in IDs |-> IF i \in kept THEN records[i] ELSE None]
      /\ runs' = [i \in IDs |-> IF i \in Known(records) \ kept THEN 0 ELSE runs[i]]
  BY <1>4 DEF Forget
<1> HIDE DEF records
<1>10. id \in kept /\ kept \subseteq IDs /\ \A i \in kept : records[i] # None
  <2>1. id \in kept
    <3>1. records[id].created \in Nat /\ records[id].created > horizon
      BY <1>2, <1>5, <1>7
    <3>2. \A other \in Known(records) \ {id} : /\ records[other].created \in Nat
                                               /\ records[other].created < records[id].created
      BY <1>7, <1>8 DEF Known
    <3> QED BY <1>2, <1>3, <1>7, <3>1, <3>2, PrunedKeepsYoungest
  <2> QED BY <1>3, <1>8, <2>1, PrunedIsKnown
<1>11. stays # {} => faults < MaxFaults
  BY <1>4 DEF MayStay
<1>12. /\ jobs'[id] = job /\ disk'[id] = file /\ synced'[id] = durable /\ runs'[id] = runs[id]
  BY <1>4, <1>5, <1>7, <1>9, <1>10
<1>13. \A i \in IDs \ {id} :
         /\ jobs'[i] \in {jobs[i], None} /\ disk'[i] \in {disk[i], None} /\ synced'[i] = synced[i]
         /\ runs'[i] \in {runs[i], 0}
         /\ runs'[i] # 0 => jobs'[i] = jobs[i] /\ disk'[i] = disk[i]
  <2> SUFFICES ASSUME NEW i \in IDs \ {id}
               PROVE  /\ jobs'[i] \in {jobs[i], None} /\ disk'[i] \in {disk[i], None} /\ synced'[i] = synced[i]
                      /\ runs'[i] \in {runs[i], 0}
                      /\ runs'[i] # 0 => jobs'[i] = jobs[i] /\ disk'[i] = disk[i]
    OBVIOUS
  <2>1. records[i] = jobs[i] /\ (i \in Known(records) <=> jobs[i] # None)
    BY <1>7, <1>8
  <2>2. jobs'[i] = (IF i \in kept THEN jobs[i] ELSE None)
    BY <1>9, <2>1
  <2>3. runs'[i] = (IF i \in Known(records) \ kept THEN 0 ELSE runs[i])
    BY <1>9
  <2>4. disk'[i] = (IF i \in Known(records) \ (kept \cup stays) THEN None ELSE disk[i])
    BY <1>4
  <2>5. synced'[i] = synced[i]
    BY <1>4, <1>5
  <2> QED BY <2>1, <2>2, <2>3, <2>4, <2>5
<1>14. TypeOK'
  <2>1. jobs' \in [IDs -> JobRecords \cup {None}] /\ runs' \in [IDs -> Nat]
    BY <1>5, <1>7, <1>9
  <2>2. disk' \in [IDs -> FileRecords \cup {None}] /\ synced' \in [IDs -> FileRecords \cup {None}]
    BY <1>4, <1>5
  <2>3. faults' \in 0..MaxFaults /\ left' \in 0..Items
    BY <1>1, <1>4, <1>5, <1>11, BenchmarkAssumption
  <2>4. {disk', synced'} \subseteq [IDs -> FileRecords \cup {None}]
    BY <2>2
  <2> QED BY <1>0, <1>1, <2>1, <2>3, <2>4 DEF TypeOK
<1>15. DownIsEmpty'
  BY <1>0, <1>1 DEF DownIsEmpty
<1>16. ActiveIsRunning'
  BY <1>1 DEF ActiveIsRunning
<1>17. clock <= clock
  BY <1>5
<1>18. TimesPast'
  BY <1>0, <1>1, <1>12, <1>13, <1>17 DEF TimesPast
<1>19. ExecutedIsKnown'
  BY <1>0, <1>1, <1>6, <1>12, <1>13 DEF ExecutedIsKnown
<1>20. ReportedIsDurable'
  BY <1>0, <1>6, <1>12, <1>13 DEF ReportedIsDurable, Known, Terminal
<1>21. CancelledStays'
  <2>1. /\ cancelled' = cancelled /\ cancelled \subseteq IDs /\ active' # {id}
        /\ (id \in cancelled => ctx = "cancelled")
    BY <1>0, <1>1 DEF TypeOK, CancelledStays
  <2> QED BY <1>0, <1>1, <1>12, <1>13, <2>1, NoneIsNoRecord DEF CancelledStays, Unwanted
<1> QED BY <1>6, <1>12, <1>14, <1>15, <1>16, <1>18, <1>19, <1>20, <1>21 DEF IInv

\* The facts of the active job that its end builds on.
LEMMA EndedJob ==
  ASSUME IInv, NEW id \in IDs, active = {id}, NEW status \in Terminal
  PROVE  LET job == [jobs[id] EXCEPT !.status = status]
         IN  /\ job \in JobRecords /\ job.status = status /\ job.created = clock
             /\ Ended(job) \in FileRecords /\ Ended(job).status = status
             /\ Ended(job).created <= clock /\ Ended(job).modified <= clock
<1> DEFINE job == [jobs[id] EXCEPT !.status = status]
<1>1. jobs[id].status = "RUNNING" /\ jobs[id].created = clock /\ clock \in Times /\ clock <= clock
  BY TimesAreNat DEF IInv, TypeOK, ActiveIsRunning
<1>2. jobs[id] \in JobRecords
  BY <1>1, Typed, NoneIsNoRecord DEF IInv
<1>3. job \in JobRecords /\ job.status = status /\ job.created = clock
  BY <1>1, <1>2 DEF JobRecords
<1> HIDE DEF job
<1>4. Ended(job) = [status |-> status, created |-> clock, modified |-> clock]
  BY <1>3 DEF Ended
<1>5. Ended(job) \in FileRecords
  BY <1>1, <1>4, MadeFile
<1> QED BY <1>1, <1>3, <1>4, <1>5 DEF job

LEMMA FinishIInv == ASSUME IInv, NEW id \in IDs, Finish(id) PROVE IInv' /\ jobs'[id] # None
<1> DEFINE job == [jobs[id] EXCEPT !.status = Outcome]
<1>0. TypeOK
  BY DEF IInv
<1>1. active = {id} /\ testing = FALSE /\ Idle(id, job, Ended(job), Ended(job), FALSE)
  BY <1>0 DEF Finish, RunReturned, TypeOK
<1>2. Outcome \in Terminal /\ (ctx = "cancelled" => Outcome \notin Unwanted)
  BY <1>0, OutcomeIsTerminal
<1>3. /\ job \in JobRecords /\ job.status = Outcome /\ job.created = clock
      /\ Ended(job) \in FileRecords /\ Ended(job).status = Outcome
      /\ Ended(job).created <= clock /\ Ended(job).modified <= clock
  BY <1>1, <1>2, EndedJob
<1> HIDE DEF job
<1> QED BY <1>1, <1>2, <1>3, IdleIInv

LEMMA FinishUnsavedIInv == ASSUME IInv, NEW id \in IDs, FinishUnsaved(id) PROVE IInv' /\ jobs'[id] # None
<1> DEFINE job == [jobs[id] EXCEPT !.status = Outcome]
           failedJob == [job EXCEPT !.status = "FAILED"]
<1>0. TypeOK /\ ActiveIsRunning /\ TimesPast
  BY DEF IInv
<1>1. /\ active = {id} /\ testing = FALSE /\ faults < MaxFaults
      /\ \E file \in {disk[id], Ended(job)} : Idle(id, failedJob, file, synced[id], TRUE)
  BY <1>0 DEF FinishUnsaved, RunReturned, TypeOK
<1>2. PICK file \in {disk[id], Ended(job)} : Idle(id, failedJob, file, synced[id], TRUE)
  BY <1>1
<1>3. Outcome \in Terminal /\ (ctx = "cancelled" => Outcome \notin Unwanted) /\ "FAILED" \in Terminal
  BY <1>0, OutcomeIsTerminal DEF Terminal
<1>4. /\ job \in JobRecords /\ job.status = Outcome /\ job.created = clock
      /\ Ended(job) \in FileRecords /\ Ended(job).status = Outcome
      /\ Ended(job).created <= clock /\ Ended(job).modified <= clock
  BY <1>1, <1>3, EndedJob
<1> HIDE DEF job
<1>5. failedJob \in JobRecords /\ failedJob.status = "FAILED" /\ failedJob.created = clock
  BY <1>3, <1>4 DEF JobRecords
<1> HIDE DEF failedJob
<1>6. /\ disk[id] # None /\ synced[id] # None
      /\ disk[id].status = "RUNNING" /\ synced[id].status = "RUNNING"
  BY <1>0, <1>1, NoneIsNoRecord DEF ActiveIsRunning
<1>7. /\ disk[id] \in FileRecords /\ synced[id] \in FileRecords
      /\ disk[id].created <= clock /\ disk[id].modified <= clock
      /\ synced[id].created <= clock /\ synced[id].modified <= clock
  BY <1>0, <1>6, Typed DEF TimesPast
<1>8. /\ file \in FileRecords /\ file.created <= clock /\ file.modified <= clock
      /\ (ctx = "cancelled" => file.status \notin Unwanted)
  BY <1>2, <1>3, <1>4, <1>6, <1>7 DEF Unwanted
<1>9. /\ failedJob.status \notin Unwanted /\ synced[id].status \notin Unwanted
  BY <1>5, <1>6 DEF Unwanted
<1> QED BY <1>1, <1>2, <1>3, <1>5, <1>7, <1>8, <1>9, IdleIInv

\* A restart: every known job is the one its file tells of.
LEMMA NewIInv == ASSUME IInv, New PROVE IInv'
<1>0. /\ TypeOK /\ DownIsEmpty /\ TimesPast /\ ExecutedIsKnown /\ CancelledStays
  BY DEF IInv
<1>1. /\ up' = TRUE /\ active = {}
      /\ synced' = [i \in IDs |-> IF disk[i] = None THEN synced[i] ELSE Rewritten(disk[i])]
      /\ UNCHANGED <<active, ctx, left, testing, results, clock, cancelled, crashes>>
  BY <1>0 DEF New, DownIsEmpty
<1>2. PICK horizon \in 0..clock : \E kept \in Pruned(Reloaded, horizon) :
     \E stays \in MayStay(Known(Reloaded) \ kept) :
       /\ Forget(Reloaded, kept)
       /\ faults' = IF stays = {} THEN faults ELSE faults + 1
       /\ disk' = [i \in IDs |-> IF i \in kept \cup stays THEN Rewritten(disk[i]) ELSE None]
  BY DEF New
<1>a. PICK kept \in Pruned(Reloaded, horizon) : \E stays \in MayStay(Known(Reloaded) \ kept) :
       /\ Forget(Reloaded, kept)
       /\ faults' = IF stays = {} THEN faults ELSE faults + 1
       /\ disk' = [i \in IDs |-> IF i \in kept \cup stays THEN Rewritten(disk[i]) ELSE None]
  BY <1>2
<1>3. PICK stays \in MayStay(Known(Reloaded) \ kept) :
       /\ Forget(Reloaded, kept)
       /\ faults' = IF stays = {} THEN faults ELSE faults + 1
       /\ disk' = [i \in IDs |-> IF i \in kept \cup stays THEN Rewritten(disk[i]) ELSE None]
  BY <1>a
<1>4. /\ jobs' = [i \in IDs |-> IF i \in kept THEN Reloaded[i] ELSE None]
      /\ runs' = [i \in IDs |-> IF i \in Known(Reloaded) \ kept THEN 0 ELSE runs[i]]
  BY <1>3 DEF Forget
<1>5. \A i \in IDs : /\ disk[i] = None => Reloaded[i] = None
                     /\ disk[i] # None => Reloaded[i] = Recovered(disk[i]) /\ Reloaded[i] # None
                     /\ i \in Known(Reloaded) <=> disk[i] # None
  BY RewrittenFile DEF Reloaded, Known
<1>6. /\ kept \subseteq IDs /\ stays \subseteq IDs
      /\ \A i \in kept \cup stays : disk[i] # None
      /\ (stays # {} => faults < MaxFaults)
  <2>1. kept \subseteq Known(Reloaded) /\ kept \subseteq IDs
    BY <1>a, PrunedIsKnown
  <2>2. stays \subseteq Known(Reloaded) /\ (stays # {} => faults < MaxFaults)
    BY <1>3 DEF MayStay
  <2> QED BY <1>5, <2>1, <2>2 DEF Known
<1>7. /\ jobs \in [IDs -> JobRecords \cup {None}] /\ runs \in [IDs -> Nat]
      /\ disk \in [IDs -> FileRecords \cup {None}] /\ synced \in [IDs -> FileRecords \cup {None}]
      /\ clock \in Times /\ clock \in Nat /\ faults \in 0..MaxFaults
  BY <1>0, TimesAreNat DEF TypeOK
<1>8. \A i \in IDs :
        /\ jobs'[i] = None \/ (disk[i] # None /\ jobs'[i] = Recovered(disk[i]))
        /\ disk'[i] = None \/ (disk[i] # None /\ disk'[i] = Rewritten(disk[i]))
        /\ (disk[i] = None => synced'[i] = synced[i])
        /\ (disk[i] # None => synced'[i] = Rewritten(disk[i]))
        /\ runs'[i] \in {runs[i], 0}
        /\ (disk[i] # None /\ runs'[i] # 0 => /\ jobs'[i] = Recovered(disk[i])
                                              /\ disk'[i] = Rewritten(disk[i]))
  <2> SUFFICES ASSUME NEW i \in IDs
        PROVE
        /\ jobs'[i] = None \/ (disk[i] # None /\ jobs'[i] = Recovered(disk[i]))
        /\ disk'[i] = None \/ (disk[i] # None /\ disk'[i] = Rewritten(disk[i]))
        /\ (disk[i] = None => synced'[i] = synced[i])
        /\ (disk[i] # None => synced'[i] = Rewritten(disk[i]))
        /\ runs'[i] \in {runs[i], 0}
        /\ (disk[i] # None /\ runs'[i] # 0 => /\ jobs'[i] = Recovered(disk[i])
                                              /\ disk'[i] = Rewritten(disk[i]))
    OBVIOUS
  <2>1. jobs'[i] = (IF i \in kept THEN Reloaded[i] ELSE None)
    BY <1>4
  <2>2. runs'[i] = (IF i \in Known(Reloaded) \ kept THEN 0 ELSE runs[i])
    BY <1>4
  <2>3. disk'[i] = (IF i \in kept \cup stays THEN Rewritten(disk[i]) ELSE None)
    BY <1>3
  <2>4. synced'[i] = (IF disk[i] = None THEN synced[i] ELSE Rewritten(disk[i]))
    BY <1>1
  <2> QED BY <1>5, <1>6, <2>1, <2>2, <2>3, <2>4
<1>9. TypeOK'
  <2>1. \A i \in IDs : /\ jobs'[i] \in JobRecords \cup {None} /\ disk'[i] \in FileRecords \cup {None}
                       /\ synced'[i] \in FileRecords \cup {None} /\ runs'[i] \in Nat
    BY <1>7, <1>8, RewrittenFile
  <2>2. jobs' \in [IDs -> JobRecords \cup {None}] /\ runs' \in [IDs -> Nat]
    BY <1>4, <2>1
  <2>3. disk' \in [IDs -> FileRecords \cup {None}] /\ synced' \in [IDs -> FileRecords \cup {None}]
    BY <1>1, <1>3, <2>1
  <2>4. faults' \in 0..MaxFaults
    BY <1>3, <1>6, <1>7, BenchmarkAssumption
  <2>5. {disk', synced'} \subseteq [IDs -> FileRecords \cup {None}]
    BY <2>3
  <2> QED BY <1>0, <1>1, <2>2, <2>4, <2>5 DEF TypeOK
<1>10. DownIsEmpty' /\ ActiveIsRunning'
  BY <1>1 DEF DownIsEmpty, ActiveIsRunning
<1>11. TimesPast'
  BY <1>0, <1>1, <1>8, RewrittenFile DEF TimesPast
<1>12. ExecutedIsKnown'
  BY <1>0, <1>8, RewrittenFile DEF ExecutedIsKnown
<1>13. ReportedIsDurable'
  BY <1>8, RewrittenFile DEF ReportedIsDurable, Known
<1>14. CancelledStays'
  <2>1. cancelled' = cancelled /\ cancelled \subseteq IDs /\ active' = {}
    BY <1>0, <1>1 DEF TypeOK
  <2> QED BY <1>0, <1>8, <2>1, RewrittenFile, NoneIsNoRecord DEF CancelledStays, Unwanted
<1> QED BY <1>9, <1>10, <1>11, <1>12, <1>13, <1>14 DEF IInv

-----------------------------------------------------------------------------
\* The invariant.

LEMMA InitIInv == ASSUME Init PROVE IInv
<1>1. TypeOK
  <2>1. clock \in Times /\ left \in 0..Items /\ faults \in 0..MaxFaults /\ crashes \in 0..MaxCrashes
    BY BenchmarkAssumption DEF Init, Times
  <2>2. {disk, synced} \subseteq [IDs -> FileRecords \cup {None}]
    BY DEF Init
  <2>3. up \in BOOLEAN /\ testing \in BOOLEAN
    BY DEF Init
  <2> QED BY <2>1, <2>2, <2>3 DEF Init, TypeOK
<1>2. DownIsEmpty /\ TimesPast /\ ActiveIsRunning /\ ExecutedIsKnown /\ ReportedIsDurable /\ CancelledStays
  BY DEF Init, DownIsEmpty, TimesPast, ActiveIsRunning, ExecutedIsKnown, ReportedIsDurable, CancelledStays, Known
<1> QED BY <1>1, <1>2 DEF IInv

LEMMA StutterIInv == ASSUME IInv, UNCHANGED vars PROVE IInv'
<1>1. UNCHANGED <<up, jobs, active, ctx, left, testing, results, disk, synced, clock, runs,
                  cancelled, faults, crashes>>
  BY DEF vars, memory, files, bounds
<1> QED BY <1>1 DEF IInv, TypeOK, DownIsEmpty, TimesPast, ActiveIsRunning, ExecutedIsKnown,
                    ReportedIsDurable, CancelledStays, Known

LEMMA NextIInv == ASSUME IInv, [Next]_vars PROVE IInv'
<1>1. CASE UNCHANGED vars
  BY <1>1, StutterIInv
<1>2. ASSUME NEW id \in IDs, StartKnown(id) \/ StartBusy(id) PROVE IInv'
  BY <1>2, StutterIInv DEF StartKnown, StartBusy
<1>3. ASSUME NEW id \in IDs, Start(id) \/ StartFails(id) PROVE IInv'
  BY <1>3, StartIInv, StartFailsIInv
<1>4. ASSUME NEW id \in IDs, ItemStarts(id) \/ \E status \in ItemStatuses : ItemEnds(id, status)
      PROVE IInv'
  BY <1>4, ItemStartsIInv, ItemEndsIInv
<1>5. ASSUME NEW id \in IDs, Finish(id) \/ FinishUnsaved(id) \/ Cancel(id) \/ Damage(id)
      PROVE IInv'
  BY <1>5, FinishIInv, FinishUnsavedIInv, CancelIInv, DamageIInv
<1>6. CASE StartInvalid
  BY <1>6, StutterIInv DEF StartInvalid
<1>7. CASE Close \/ Deadline
  BY <1>7, EndsIInv
<1>8. CASE Crash
  BY <1>8, CrashIInv
<1>9. CASE New \/ NewFails
  BY <1>9, NewIInv, NewFailsIInv
<1> QED BY <1>1, <1>2, <1>3, <1>4, <1>5, <1>6, <1>7, <1>8, <1>9 DEF Next

\* The conjunction the theorems are read off is an invariant of the runner.
THEOREM Inductive == Spec => []IInv
<1>1. Init => IInv
  BY InitIInv
<1>2. IInv /\ [Next]_vars => IInv'
  BY NextIInv
<1> QED BY <1>1, <1>2, PTL DEF Spec

\* A task is executed at most once until retention forgets it (Start,
\* runner.go), whatever crashes, failed writes and damaged records happen.
THEOREM ExecutionSafety == Spec => []RunsOnce
<1>1. IInv => RunsOnce
  BY DEF IInv, ExecutedIsKnown, RunsOnce
<1> QED BY <1>1, Inductive, PTL

\* Every outcome other than a failure that the panel can read survives a power
\* loss with the same status (change and finish write before they publish).
THEOREM DurabilitySafety == Spec => []ReportedIsDurable
<1>1. IInv => ReportedIsDurable
  BY DEF IInv
<1> QED BY <1>1, Inductive, PTL

\* A task cancelled in time is never reported as having run to its end, also
\* after restarts that read its record back.
THEOREM CancellationSafety == Spec => []CancelledIsNotCompleted
<1>1. IInv => CancelledIsNotCompleted
  BY DEF IInv, CancelledStays, CancelledIsNotCompleted, Unwanted
<1> QED BY <1>1, Inductive, PTL

\* The prune at the end of a job keeps the job that has just ended.
THEOREM RetentionSafety == Spec => FinishedIsKept
<1> DEFINE Kept == \A id \in active : up' /\ active' = {} => jobs'[id] # None
<1>1. IInv /\ [Next]_vars => [Kept]_vars
  <2> SUFFICES ASSUME IInv, Next, NEW id \in active, up', active' = {} PROVE jobs'[id] # None
    OBVIOUS
  <2>1. id \in IDs /\ active = {id} /\ up
    BY DEF IInv, TypeOK, ActiveIsRunning, DownIsEmpty
  <2>2. ~UNCHANGED active
    BY <2>1
  <2>3. ASSUME NEW i \in IDs, Finish(i) \/ FinishUnsaved(i) PROVE jobs'[id] # None
    <3>1. i = id
      BY <2>1, <2>3 DEF Finish, FinishUnsaved, RunReturned
    <3> QED BY <2>3, <3>1, FinishIInv, FinishUnsavedIInv
  <2>4. ASSUME NEW i \in IDs,
               \/ StartKnown(i) \/ StartBusy(i) \/ Start(i) \/ StartFails(i) \/ ItemStarts(i)
               \/ \E status \in ItemStatuses : ItemEnds(i, status)
               \/ Cancel(i) \/ Damage(i)
        PROVE  FALSE
    BY <2>1, <2>2, <2>4 DEF StartKnown, StartBusy, Start, StartFails, Launched, ItemStarts, ItemEnds,
         Cancel, Damage, vars, memory
  <2>5. ~(StartInvalid \/ Close \/ Deadline \/ Crash \/ New \/ NewFails)
    BY <2>1, <2>2 DEF StartInvalid, Close, Deadline, Crash, New, NewFails, vars, memory
  <2> QED BY <2>3, <2>4, <2>5 DEF Next
<1> QED BY <1>1, Inductive, PTL DEF Spec, FinishedIsKept
=============================================================================
