----------------------------- MODULE AccessAudit -----------------------------
(***************************************************************************)
(* The access audit (internal/accessaudit): the policy the panel leases to *)
(* the agent, the collector that follows sing-box's connection stream, the *)
(* bolt store with its records, and the delivery queue the panel pulls and *)
(* acknowledges.  Policies and acknowledgements may arrive late or twice,  *)
(* the stream breaks and replays its connections, the lease runs out, the  *)
(* agent restarts and old records are pruned.                              *)
(*                                                                         *)
(* Data: one direction of traffic; a connection belongs to one user; a     *)
(* record's size is 1, or 2 once it carries its closing time.  An event is *)
(* produced and applied in one step.                                       *)
(***************************************************************************)
EXTENDS Integers, FiniteSets, FiniteSetsExt

CONSTANTS
  Conns,         \* connection identifiers
  UserOf,        \* the user of each connection
  MaxBytes,      \* Store.maxBytes
  MaxRecords,    \* 50000 in the code
  PullLimit,     \* records of one batch
  MaxTotal,      \* bound: bytes of one connection
  MaxWindows,    \* bound: policies the panel issues
  MaxSequence    \* bound: versions of records

Users == {UserOf[c] : c \in Conns}

ASSUME AuditAssumption ==
  /\ MaxBytes \in Nat /\ MaxRecords \in Nat /\ PullLimit \in Nat \ {0}
  /\ MaxTotal \in Nat /\ MaxWindows \in Nat /\ MaxSequence \in Nat

Windows == 1..MaxWindows
Keys == Windows \X Conns    \* "windowId:connectionId"
Empty == [x \in {} |-> x]
Put(f, k, v) == [x \in DOMAIN f \cup {k} |-> IF x = k THEN v ELSE f[x]]

VARIABLES
  policy,       \* Store.config: revision and targets (user -> window)
  lease,        \* ExpiresAt: "valid", "expired", or "zero" after a restart
  records,      \* records bucket: key -> record
  pending,      \* pending bucket: sequence -> key
  index,        \* index bucket: connection -> key
  sequence, recordCount, bytes   \* meta bucket

VARIABLES
  conn,         \* sing-box: per connection "none", "open", "closed"
  total,        \* sing-box: per connection, the bytes it has carried
  stream,       \* whether the agent follows the stream
  replay,       \* connections the stream has yet to present in full
  sent          \* per connection, the total up to which the stream has reported

VARIABLES
  issued,       \* panel: the policies it has issued, by revision
  batches,      \* panel: batches it has pulled but not yet booked, or may book again
  acks,         \* panel: acknowledgements it has sent, which may arrive at any time
  booked        \* panel: key -> the latest version of the record it has stored

\* History: per window, the bytes its user's connections had carried when it
\* was enabled, and the state of the connections then (what comparing their
\* times with EnabledAt tells).
VARIABLES atEnable, connThen

storeVars == <<policy, lease, records, pending, index, sequence, recordCount, bytes>>
streamVars == <<stream, replay, sent>>
coreVars == <<conn, total>>
panelVars == <<issued, batches, acks, booked>>
historyVars == <<atEnable, connThen>>
vars == <<storeVars, streamVars, coreVars, panelVars, historyVars>>

Record == [base : 0..MaxTotal, last : 0..MaxTotal, closed : BOOLEAN, sequence : 1..MaxSequence]
Policies == UNION {[U -> Windows] : U \in SUBSET Users}

\* Every variable of the store, the stream and the core has its type; a record
\* never shows more bytes than a connection can have carried.
TypeOK ==
  /\ policy \in [revision : 0..MaxWindows, targets : Policies]
  /\ lease \in {"valid", "expired", "zero"}
  /\ DOMAIN records \subseteq Keys /\ \A k \in DOMAIN records : records[k] \in Record
  /\ DOMAIN pending \subseteq 1..MaxSequence /\ \A s \in DOMAIN pending : pending[s] \in Keys
  /\ DOMAIN index \subseteq Conns /\ \A c \in DOMAIN index : index[c] \in Keys
  /\ sequence \in 0..MaxSequence
  /\ recordCount \in Nat /\ bytes \in Nat
  /\ conn \in [Conns -> {"none", "open", "closed"}] /\ total \in [Conns -> 0..MaxTotal]
  /\ stream \in BOOLEAN /\ replay \subseteq Conns /\ sent \in [Conns -> 0..MaxTotal]

Init ==
  /\ policy = [revision |-> 0, targets |-> Empty] /\ lease = "zero"
  /\ records = Empty /\ pending = Empty /\ index = Empty
  /\ sequence = 0 /\ recordCount = 0 /\ bytes = 0
  /\ conn = [c \in Conns |-> "none"] /\ total = [c \in Conns |-> 0]
  /\ stream = FALSE /\ replay = {} /\ sent = [c \in Conns |-> 0]
  /\ issued = {} /\ batches = {} /\ acks = {} /\ booked = Empty
  /\ atEnable = [w \in Windows |-> [c \in Conns |-> 0]] 
  /\ connThen = [w \in Windows |-> [c \in Conns |-> "none"]]

-----------------------------------------------------------------------------
\* The policy.

Revision == Cardinality(issued)

LastTargets ==
  IF issued = {} THEN Empty ELSE (CHOOSE p \in issued : p.revision = Revision).targets

\* The panel enables or disables users; a user that is enabled (again) gets a
\* new window, one that stays enabled keeps its own.
NewPolicy(users, renewed) ==
  [revision |-> Revision + 1,
   targets  |-> [u \in users |-> IF u \in DOMAIN LastTargets \ renewed
                                 THEN LastTargets[u] ELSE Revision + 1]]

Issue(users, renewed) ==
  /\ Revision < MaxWindows
  /\ issued' = issued \cup {NewPolicy(users, renewed)}
  /\ atEnable' = [atEnable EXCEPT ![Revision + 1] = total]
  /\ connThen' = [connThen EXCEPT ![Revision + 1] = conn]
  /\ UNCHANGED <<storeVars, streamVars, coreVars, batches, acks, booked>>

\* Mutant: an old policy is taken again.
ConfigureAny(p) ==
  /\ policy' = p
  /\ lease' = "valid"

\* Configure: any policy ever issued may arrive, with a fresh lease.
Configure(p) ==
  /\ p.revision >= policy.revision
  /\ p.revision = policy.revision /\ lease # "zero" => p.targets = policy.targets
  /\ policy' = p
  /\ lease' = "valid"

HandleConfigure(p) ==
  /\ Configure(p)
  /\ UNCHANGED <<records, pending, index, sequence, recordCount, bytes,
                 streamVars, coreVars, panelVars, historyVars>>

LeaseExpires ==
  /\ lease = "valid" /\ lease' = "expired"
  /\ UNCHANGED <<policy, records, pending, index, sequence, recordCount, bytes,
                 streamVars, coreVars, panelVars, historyVars>>

-----------------------------------------------------------------------------
\* Apply, for one event.

Size(d) == IF d.closed THEN 2 ELSE 1
SizeAt(k) == IF k \in DOMAIN records THEN Size(records[k]) ELSE 0

\* The sum of the sizes of these records.
SizeOf(keys) == Cardinality(keys) + Cardinality({k \in keys : records[k].closed})

Fits(k, d) ==
  /\ bytes + Size(d) - SizeAt(k) <= MaxBytes
  /\ k \notin DOMAIN records => recordCount < MaxRecords

\* The record replaces its previous version, in the bucket and in the queue.
Store(k, d) ==
  /\ sequence < MaxSequence
  /\ records' = Put(records, k, d)
  /\ LET others == {s \in DOMAIN pending : k \notin DOMAIN records \/ s # records[k].sequence}
     IN  pending' = Put([s \in others |-> pending[s]], sequence + 1, k)
  /\ index' = Put(index, k[2], k)
  /\ sequence' = sequence + 1
  /\ recordCount' = IF k \in DOMAIN records THEN recordCount ELSE recordCount + 1
  /\ bytes' = bytes + Size(d) - SizeAt(k)

\* Stored, or over the limit and counted as dropped.
Apply(k, d) ==
  /\ \/ Fits(k, d) /\ Store(k, d)
     \/ ~Fits(k, d) /\ UNCHANGED <<records, pending, index, sequence, recordCount, bytes>>
  /\ UNCHANGED <<policy, lease>>

Ignored == UNCHANGED storeVars

\* An event that carries the connection and its total.  A connection that was
\* closed before the window is left out, one that is older than the window
\* counts from what it shows now.
Selected(c) ==
  /\ lease = "valid"
  /\ UserOf[c] \in DOMAIN policy.targets
  /\ connThen[policy.targets[UserOf[c]]][c] # "closed"

\* Mutant: no baseline.
ObservedFromZero(c, k, closed) ==
  LET known == k \in DOMAIN records
  IN  [base     |-> IF known THEN records[k].base ELSE 0,
       last     |-> IF known /\ records[k].last > total[c] THEN records[k].last ELSE total[c],
       closed   |-> closed \/ (known /\ records[k].closed),
       sequence |-> sequence + 1]

Observed(c, k, closed) ==
  LET known == k \in DOMAIN records
  IN  [base     |-> IF known THEN records[k].base
                    ELSE IF connThen[k[1]][c] # "none" THEN total[c] ELSE 0,
       last     |-> IF known /\ records[k].last > total[c] THEN records[k].last ELSE total[c],
       closed   |-> closed \/ (known /\ records[k].closed),
       sequence |-> sequence + 1]

ApplyConnection(c, closed) ==
  \/ /\ Selected(c)
     /\ LET k == <<policy.targets[UserOf[c]], c>> IN Apply(k, Observed(c, k, closed))
  \/ /\ ~Selected(c)
     /\ Ignored

\* An event that carries only a delta or the closing: the record is found
\* through the index, and its window must still be the selected one.
\* Mutant: any window will do.
TracksAny(c) == lease = "valid" /\ c \in DOMAIN index /\ UserOf[c] \in DOMAIN policy.targets

Tracks(c) ==
  /\ lease = "valid"
  /\ c \in DOMAIN index
  /\ UserOf[c] \in DOMAIN policy.targets
  /\ policy.targets[UserOf[c]] = index[c][1]

ApplyDelta(c, delta, closed) ==
  \/ /\ Tracks(c)
     /\ LET d == records[index[c]]
        IN  Apply(index[c], [d EXCEPT !.last = @ + delta, !.closed = @ \/ closed,
                                      !.sequence = sequence + 1])
  \/ /\ ~Tracks(c)
     /\ Ignored

-----------------------------------------------------------------------------
\* The connection stream.

\* The collector subscribes while somebody is audited: every open connection
\* is presented again.
Subscribe ==
  /\ ~stream
  /\ lease = "valid" /\ DOMAIN policy.targets # {}
  /\ stream' = TRUE
  /\ replay' = {c \in Conns : conn[c] = "open"}
  /\ UNCHANGED <<storeVars, sent, coreVars, panelVars, historyVars>>

\* An error of the stream or of Apply, or the watcher that sees the lease end.
StreamBreaks ==
  /\ stream /\ stream' = FALSE
  /\ replay' = {}
  /\ UNCHANGED <<storeVars, sent, coreVars, panelVars, historyVars>>

Present(c) ==
  /\ stream /\ c \in replay
  /\ ApplyConnection(c, conn[c] = "closed")
  /\ replay' = replay \ {c}
  /\ sent' = [sent EXCEPT ![c] = total[c]]
  /\ UNCHANGED <<stream, coreVars, panelVars, historyVars>>

Update(c) ==
  /\ stream /\ c \notin replay /\ conn[c] = "open" /\ total[c] > sent[c]
  /\ ApplyDelta(c, total[c] - sent[c], FALSE)
  /\ sent' = [sent EXCEPT ![c] = total[c]]
  /\ UNCHANGED <<stream, replay, coreVars, panelVars, historyVars>>

Opens(c) ==
  /\ conn[c] = "none"
  /\ conn' = [conn EXCEPT ![c] = "open"]
  /\ replay' = IF stream THEN replay \cup {c} ELSE replay
  /\ UNCHANGED <<storeVars, total, stream, sent, panelVars, historyVars>>

Carries(c) ==
  /\ conn[c] = "open" /\ total[c] < MaxTotal
  /\ total' = [total EXCEPT ![c] = @ + 1]
  /\ UNCHANGED <<storeVars, conn, streamVars, panelVars, historyVars>>

\* The closing event may carry the connection or not; a connection that is
\* still to be presented is presented as closed.
Closes(c) ==
  /\ conn[c] = "open"
  /\ conn' = [conn EXCEPT ![c] = "closed"]
  /\ \/ /\ stream /\ c \notin replay
        /\ ApplyConnection(c, TRUE) \/ ApplyDelta(c, 0, TRUE)
     \/ /\ ~stream \/ c \in replay
        /\ Ignored
  /\ UNCHANGED <<total, streamVars, panelVars, historyVars>>

-----------------------------------------------------------------------------
\* Delivery.

Batch ==
  LET first == {s \in DOMAIN pending : Cardinality({x \in DOMAIN pending : x < s}) < PullLimit}
  IN  [s \in first |-> [key |-> pending[s], record |-> records[pending[s]]]]

Pull ==
  /\ DOMAIN pending # {}
  /\ batches' = {Batch}   \* an earlier batch is given up
  /\ UNCHANGED <<storeVars, streamVars, coreVars, issued, acks, booked, historyVars>>

\* The panel stores the newest version of every record and acknowledges.
Book(b) ==
  /\ booked' = [k \in DOMAIN booked \cup {b[s].key : s \in DOMAIN b} |->
                  LET versions == {s \in DOMAIN b : b[s].key = k}
                  IN  IF k \in DOMAIN booked /\ \A s \in versions : booked[k].sequence > s
                      THEN booked[k] ELSE b[Max(versions)].record]
  /\ acks' = acks \cup {Max(DOMAIN b)}
  /\ UNCHANGED <<storeVars, streamVars, coreVars, issued, batches, historyVars>>

\* Mutant: everything in the queue counts as acknowledged.
AckAll(through) ==
  /\ through <= sequence
  /\ pending' = Empty

\* Mutant: the acknowledged version itself stays in the queue.
AckExclusive(through) ==
  /\ through <= sequence
  /\ pending' = [s \in {x \in DOMAIN pending : x >= through} |-> pending[s]]

\* Ack: what is newer than the acknowledged batch stays.
Ack(through) ==
  /\ through <= sequence
  /\ pending' = [s \in {x \in DOMAIN pending : x > through} |-> pending[s]]

HandleAck(through) ==
  /\ Ack(through)
  /\ UNCHANGED <<policy, lease, records, index, sequence, recordCount, bytes,
                 streamVars, coreVars, panelVars, historyVars>>

-----------------------------------------------------------------------------
\* Mutant: the freed bytes are not given back.
PruneKeepsBytes(old) ==
  /\ records' = [k \in DOMAIN records \ old |-> records[k]]
  /\ pending' = [s \in {x \in DOMAIN pending : pending[x] \notin old} |-> pending[s]]
  /\ index' = [c \in {x \in DOMAIN index : index[x] \notin old} |-> index[c]]
  /\ recordCount' = recordCount - Cardinality(old)
  /\ UNCHANGED bytes

\* Prune: the records that nothing was heard of for a day.
Prune(old) ==
  /\ records' = [k \in DOMAIN records \ old |-> records[k]]
  /\ pending' = [s \in {x \in DOMAIN pending : pending[x] \notin old} |-> pending[s]]
  /\ index' = [c \in {x \in DOMAIN index : index[x] \notin old} |-> index[c]]
  /\ recordCount' = recordCount - Cardinality(old)
  /\ bytes' = bytes - SizeOf(old)

DoPrune(old) ==
  /\ old # {}
  /\ Prune(old)
  /\ UNCHANGED <<policy, lease, sequence, streamVars, coreVars, panelVars, historyVars>>

\* Open: the policy is read back, its lease is not.
AgentRestarts ==
  /\ lease # "zero"
  /\ lease' = "zero"
  /\ stream' = FALSE /\ replay' = {}
  /\ UNCHANGED <<policy, records, pending, index, sequence, recordCount, bytes, sent,
                 coreVars, panelVars, historyVars>>

Exchange ==
  \/ Pull
  \/ \E b \in batches : Book(b)
  \/ \E through \in acks : HandleAck(through)

Next ==
  \/ \E users, renewed \in SUBSET Users : Issue(users, renewed)
  \/ \E p \in issued : HandleConfigure(p)
  \/ LeaseExpires
  \/ Subscribe
  \/ StreamBreaks
  \/ \E c \in Conns : Present(c) \/ Update(c) \/ Opens(c) \/ Carries(c) \/ Closes(c)
  \/ Exchange
  \/ \E old \in SUBSET DOMAIN records : DoPrune(old)
  \/ AgentRestarts

Spec == Init /\ [][Next]_vars

\* The panel goes on polling: something of an exchange happens now and then.
FairSpec == Spec /\ WF_vars(Exchange)

-----------------------------------------------------------------------------
(***************************************************************************)
(* Apply, Ack and Prune keep the buckets of the store well typed and       *)
(* consistent: the queue and the index name existing records, the queue by *)
(* their current version, and the counters that enforce the limits are     *)
(* exact, so that pruned capacity can be used again.                       *)
(***************************************************************************)
BucketsAgree ==
  /\ TypeOK
  /\ \A s \in DOMAIN pending : pending[s] \in DOMAIN records /\ records[pending[s]].sequence = s
  /\ \A c \in DOMAIN index : index[c] \in DOMAIN records /\ index[c][2] = c
  /\ recordCount = Cardinality(DOMAIN records) /\ recordCount <= MaxRecords
  /\ bytes = SizeOf(DOMAIN records) /\ bytes <= MaxBytes

(***************************************************************************)
(* No update is lost between the store and the panel: the current version  *)
(* of every record is queued or stored by the panel, whatever late or      *)
(* repeated acknowledgements Ack gets while Apply adds newer versions.     *)
(***************************************************************************)
NothingLost ==
  \A k \in DOMAIN records :
    \/ \E s \in DOMAIN pending : pending[s] = k
    \/ k \in DOMAIN booked /\ booked[k] = records[k]

(***************************************************************************)
(* Apply never counts bytes twice or from before the window: a record      *)
(* shows at most what its connection carried since the user was enabled,   *)
(* through any mix of replayed totals, deltas, drops and prunes.           *)
(***************************************************************************)
NeverOvercounts ==
  \A k \in DOMAIN records :
    /\ records[k].last <= total[k[2]]
    /\ records[k].last - records[k].base <= total[k[2]] - atEnable[k[1]][k[2]]

(***************************************************************************)
(* Apply records traffic only under the window the newest accepted policy  *)
(* has for the user, while its lease is valid: late events and a late      *)
(* policy never extend a window that was closed.                           *)
(***************************************************************************)
OnlySelectedRecorded ==
  [][\A k \in DOMAIN records' :
       k \notin DOMAIN records \/ records'[k] # records[k] =>
         /\ lease = "valid"
         /\ UserOf[k[2]] \in DOMAIN policy.targets /\ policy.targets[UserOf[k[2]]] = k[1]
     ]_vars

(***************************************************************************)
(* Configure never lets a window come back: once a policy without it was   *)
(* accepted, no late or repeated request selects it again.                 *)
(***************************************************************************)
ClosedWindowStaysClosed ==
  [][\A u \in DOMAIN policy'.targets :
       u \notin DOMAIN policy.targets \/ policy'.targets[u] # policy.targets[u] =>
         policy'.targets[u] > policy.revision]_vars

(***************************************************************************)
(* Every queued version leaves the queue: Pull starts from the oldest one  *)
(* and Ack removes what was booked, so that no version waits for ever,     *)
(* whatever restarts, prunes and expired leases intervene.  (There are at  *)
(* most MaxSequence versions, so all are gone when each of them is.)       *)
(***************************************************************************)
QueueDrains == []<>(DOMAIN pending = {})
=============================================================================
