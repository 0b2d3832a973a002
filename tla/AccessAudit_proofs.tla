------------------------- MODULE AccessAudit_proofs -------------------------
(***************************************************************************)
(* Proofs about AccessAudit: for all connections, users, limits and        *)
(* numbers of policies, bytes and versions, the buckets of the store       *)
(* agree, no version of a record is lost between the store and the panel,  *)
(* no byte is counted twice or from before the window, and a window that   *)
(* was closed stays closed.                                                *)
(***************************************************************************)
EXTENDS AccessAudit, FiniteSetTheorems, TLAPS

\* The two halves of TypeOK: the buckets, and what surrounds them.
StoreTyped ==
  /\ DOMAIN records \subseteq Keys /\ \A k \in DOMAIN records : records[k] \in Record
  /\ DOMAIN pending \subseteq 1..MaxSequence /\ \A s \in DOMAIN pending : pending[s] \in Keys
  /\ DOMAIN index \subseteq Conns /\ \A c \in DOMAIN index : index[c] \in Keys
  /\ sequence \in 0..MaxSequence
  /\ recordCount \in Nat /\ bytes \in Nat

EnvironmentTyped ==
  /\ policy \in [revision : 0..MaxWindows, targets : Policies]
  /\ lease \in {"valid", "expired", "zero"}
  /\ conn \in [Conns -> {"none", "open", "closed"}] /\ total \in [Conns -> 0..MaxTotal]
  /\ stream \in BOOLEAN /\ replay \subseteq Conns /\ sent \in [Conns -> 0..MaxTotal]
  /\ atEnable \in [Windows -> [Conns -> 0..MaxTotal]]
  /\ connThen \in [Windows -> [Conns -> {"none", "open", "closed"}]]

\* A sequence number stands for one version of one record.
VersionsAreUnique ==
  /\ \A k \in DOMAIN records : records[k].sequence <= sequence
  /\ \A j, k \in DOMAIN records : records[j].sequence = records[k].sequence => j = k

QueueNamesVersions ==
  \A s \in DOMAIN pending : pending[s] \in DOMAIN records /\ records[pending[s]].sequence = s

IndexNamesRecords ==
  \A c \in DOMAIN index : index[c] \in DOMAIN records /\ index[c][2] = c

CountersAreExact ==
  /\ IsFiniteSet(DOMAIN records)
  /\ recordCount = Cardinality(DOMAIN records) /\ recordCount <= MaxRecords
  /\ bytes = SizeOf(DOMAIN records) /\ bytes <= MaxBytes

\* A batch holds whole versions, each of another record; what it holds of a
\* record is not newer than the record, and the same if it is as new; and it
\* holds every version in the queue up to its last one.
BatchIsCurrent(b) ==
  /\ DOMAIN b # {} /\ DOMAIN b \subseteq 1..sequence
  /\ \A s \in DOMAIN b : b[s].record.sequence = s
  /\ \A s, x \in DOMAIN b : b[s].key = b[x].key => s = x
  /\ \A s \in DOMAIN b : b[s].key \in DOMAIN records =>
       /\ s <= records[b[s].key].sequence
       /\ s = records[b[s].key].sequence => b[s].record = records[b[s].key]
  /\ \A last \in DOMAIN b, s \in DOMAIN pending : s <= last => s \in DOMAIN b /\ b[s].key = pending[s]

BatchesAreCurrent == \A b \in batches : BatchIsCurrent(b)

BookedIsPast ==
  \A k \in DOMAIN booked :
    /\ booked[k].sequence \in 1..sequence
    /\ k \in DOMAIN records => booked[k].sequence <= records[k].sequence

\* What an acknowledgement under way removes has been booked.
AckedIsBooked ==
  \A a \in acks :
    /\ a \in 1..sequence
    /\ \A s \in DOMAIN pending : s <= a =>
         pending[s] \in DOMAIN booked /\ booked[pending[s]] = records[pending[s]]

Delivery ==
  /\ StoreTyped
  /\ VersionsAreUnique
  /\ QueueNamesVersions
  /\ IndexNamesRecords
  /\ CountersAreExact
  /\ BatchesAreCurrent
  /\ BookedIsPast
  /\ AckedIsBooked
  /\ NothingLost

\* Bytes only grow, and only of connections that exist.
BytesGrow ==
  \A c \in Conns :
    /\ sent[c] <= total[c]
    /\ conn[c] = "none" => total[c] = 0
    /\ \A w \in Windows : atEnable[w][c] <= total[c] /\ (connThen[w][c] = "none" => atEnable[w][c] = 0)

\* A record is of an issued window, shows what was sent of its connection at
\* most, and counts from the start of its window or later.
Honest(k, d) ==
  /\ k[1] <= Cardinality(issued)
  /\ d.last <= total[k[2]]
  /\ conn[k[2]] # "closed" => d.last <= sent[k[2]]
  /\ atEnable[k[1]][k[2]] <= d.base

RecordsAreHonest == \A k \in DOMAIN records : Honest(k, records[k])

\* The policies have the revisions 1, 2, ...; a window that a policy has and
\* an earlier one has not is newer than the earlier one.
PoliciesAreOrdered ==
  /\ IsFiniteSet(issued) /\ Cardinality(issued) <= MaxWindows
  /\ issued \subseteq [revision : 1..Cardinality(issued), targets : Policies]
  /\ \A r \in 1..Cardinality(issued) : \E p \in issued : p.revision = r
  /\ \A p \in issued, u \in Users : u \in DOMAIN p.targets => p.targets[u] <= p.revision
  /\ \A p, q \in issued : p.revision = q.revision => p = q
  /\ \A p, q \in issued : q.revision <= p.revision =>
       \A u \in DOMAIN p.targets :
         \/ u \in DOMAIN q.targets /\ p.targets[u] = q.targets[u]
         \/ q.revision < p.targets[u]

PolicyIsIssued == policy = [revision |-> 0, targets |-> Empty] \/ policy \in issued

IInv ==
  /\ Delivery
  /\ EnvironmentTyped
  /\ BytesGrow
  /\ RecordsAreHonest
  /\ PoliciesAreOrdered
  /\ PolicyIsIssued

-----------------------------------------------------------------------------
\* Sets of numbers, and functions that get an entry.

\* A finite set of numbers has a least and a greatest member.
LEMMA GreatestExists ==
  ASSUME NEW S \in SUBSET Int, IsFiniteSet(S), S # {}
  PROVE  \E x \in S : \A y \in S : y <= x
<1> DEFINE From(x) == {y \in S : x <= y}
           T == {From(x) : x \in S}
<1>1. T \subseteq FiniteSubsetsOf(S) /\ T # {}
  <2>1. \A x \in S : From(x) \in SUBSET S /\ IsFiniteSet(From(x))
    BY FS_Subset
  <2> QED BY <2>1 DEF FiniteSubsetsOf
<1>2. PICK U \in T : \A V \in T : ~(<<V, U>> \in StrictSubsetOrdering(S))
  <2> HIDE DEF T
  <2> QED BY <1>1, FS_StrictSubsetOrderingWellFounded, WFMin
<1>3. PICK x \in S : U = From(x)
  OBVIOUS
<1>4. ASSUME NEW y \in S, ~(y <= x) PROVE FALSE
  <2>1. From(y) \in T
    OBVIOUS
  <2>2. From(y) \subseteq From(x) /\ x \in From(x) /\ x \notin From(y) /\ From(x) \subseteq S
    <3>1. x \in Int /\ y \in Int /\ \A z \in S : z \in Int
      OBVIOUS
    <3>2. \A z \in S : y <= z => x <= z
      BY <1>4, <3>1
    <3>3. x <= x
      BY <1>4, <3>1
    <3> QED BY <1>4, <3>2, <3>3, Zenon
  <2>3. <<From(y), U>> \in StrictSubsetOrdering(S)
    <3> HIDE DEF From
    <3> QED BY <1>3, <2>2 DEF StrictSubsetOrdering
  <2> QED BY <1>2, <2>1, <2>3
<1> QED BY <1>4

LEMMA LeastExists ==
  ASSUME NEW S \in SUBSET Int, IsFiniteSet(S), S # {}
  PROVE  \E x \in S : \A y \in S : x <= y
<1> DEFINE Until(x) == {y \in S : y <= x}
           T == {Until(x) : x \in S}
<1>1. T \subseteq FiniteSubsetsOf(S) /\ T # {}
  <2>1. \A x \in S : Until(x) \in SUBSET S /\ IsFiniteSet(Until(x))
    BY FS_Subset
  <2> QED BY <2>1 DEF FiniteSubsetsOf
<1>2. PICK U \in T : \A V \in T : ~(<<V, U>> \in StrictSubsetOrdering(S))
  <2> HIDE DEF T
  <2> QED BY <1>1, FS_StrictSubsetOrderingWellFounded, WFMin
<1>3. PICK x \in S : U = Until(x)
  OBVIOUS
<1>4. ASSUME NEW y \in S, ~(x <= y) PROVE FALSE
  <2>1. Until(y) \in T
    OBVIOUS
  <2>2. Until(y) \subseteq Until(x) /\ x \in Until(x) /\ x \notin Until(y) /\ Until(x) \subseteq S
    <3>1. x \in Int /\ y \in Int /\ \A z \in S : z \in Int
      OBVIOUS
    <3>2. \A z \in S : z <= y => z <= x
      BY <1>4, <3>1
    <3>3. x <= x
      BY <1>4, <3>1
    <3> QED BY <1>4, <3>2, <3>3, Zenon
  <2>3. <<Until(y), U>> \in StrictSubsetOrdering(S)
    <3> HIDE DEF Until
    <3> QED BY <1>3, <2>2 DEF StrictSubsetOrdering
  <2> QED BY <1>2, <2>1, <2>3
<1> QED BY <1>4

LEMMA MaxOf ==
  ASSUME NEW S \in SUBSET Int, IsFiniteSet(S), S # {}
  PROVE  Max(S) \in S /\ \A y \in S : y <= Max(S)
<1>1. \E x \in S : \A y \in S : x >= y
  BY GreatestExists
<1> QED BY <1>1 DEF Max

LEMMA MaxOfOne ==
  ASSUME NEW s \in Int
  PROVE  Max({s}) = s
<1>1. Max({s}) \in {s}
  BY MaxOf, FS_Singleton
<1> QED BY <1>1


LEMMA KeyParts ==
  ASSUME NEW k \in Keys
  PROVE  k[1] \in Windows /\ k[2] \in Conns /\ k = <<k[1], k[2]>>
BY DEF Keys

LEMMA TypeIs == StoreTyped /\ EnvironmentTyped => TypeOK
BY DEF StoreTyped, EnvironmentTyped, TypeOK

-----------------------------------------------------------------------------
\* The store and the delivery.

deliveryVars == <<records, pending, index, sequence, recordCount, bytes, batches, acks, booked>>

LEMMA DeliveryUnchanged ==
  ASSUME Delivery, UNCHANGED deliveryVars
  PROVE  Delivery'
BY DEF Delivery, deliveryVars, StoreTyped, VersionsAreUnique, QueueNamesVersions, IndexNamesRecords,
       CountersAreExact, SizeOf, BatchesAreCurrent, BatchIsCurrent, BookedIsPast, AckedIsBooked,
       NothingLost

\* What Apply writes to the bucket is a version of its own.
Draft == [base : 0..MaxTotal, last : 0..MaxTotal, closed : BOOLEAN, sequence : {sequence + 1}]

LEMMA StoreCounts ==
  ASSUME Delivery, NEW k \in Keys, NEW d \in Draft, Fits(k, d), Store(k, d)
  PROVE  CountersAreExact' /\ recordCount' \in Nat /\ bytes' \in Nat
<1> DEFINE R == DOMAIN records
           C == {x \in R : records[x].closed}
           S == DOMAIN records'
           D == {x \in S : records'[x].closed}
<1>1. S = R \cup {k} /\ records'[k] = d /\ \A x \in R : x # k => records'[x] = records[x]
  <2>1. records' = Put(records, k, d)
    BY DEF Store
  <2>2. DOMAIN Put(records, k, d) = DOMAIN records \cup {k} /\ Put(records, k, d)[k] = d
        /\ \A x \in DOMAIN records : x # k => Put(records, k, d)[x] = records[x]
    BY DEF Put
  <2> QED BY <2>1, <2>2
<1>2. IsFiniteSet(R) /\ IsFiniteSet(C)
  <2>1. C \in SUBSET R
    OBVIOUS
  <2> QED BY <2>1, FS_Subset DEF Delivery, CountersAreExact
<1>3. /\ IsFiniteSet(S)
      /\ Cardinality(S) = IF k \in R THEN Cardinality(R) ELSE Cardinality(R) + 1
  BY <1>1, <1>2, FS_AddElement
<1>4. D = IF d.closed THEN C \cup {k} ELSE C \ {k}
  BY <1>1
<1>5. /\ d.closed => Cardinality(D) = IF k \in C THEN Cardinality(C) ELSE Cardinality(C) + 1
      /\ ~d.closed => Cardinality(D) = IF k \in C THEN Cardinality(C) - 1 ELSE Cardinality(C)
  BY <1>2, <1>4, FS_AddElement, FS_RemoveElement
<1>6. Cardinality(R) \in Nat /\ Cardinality(C) \in Nat /\ Cardinality(S) \in Nat
      /\ (k \in C => Cardinality(C) # 0)
  BY <1>2, <1>3, FS_CardinalityType, FS_EmptySet
<1>7. /\ recordCount = Cardinality(R) /\ recordCount <= MaxRecords
      /\ bytes = Cardinality(R) + Cardinality(C)
  BY DEF Delivery, CountersAreExact, SizeOf
<1>8. SizeAt(k) = IF k \in R THEN IF k \in C THEN 2 ELSE 1 ELSE 0
  BY DEF SizeAt, Size
<1>9. /\ recordCount' = IF k \in R THEN recordCount ELSE recordCount + 1
      /\ bytes' = bytes + Size(d) - SizeAt(k)
      /\ bytes' <= MaxBytes
      /\ k \notin R => recordCount < MaxRecords
  BY DEF Store, Fits
<1>10. Size(d) = IF d.closed THEN 2 ELSE 1
  BY DEF Size
<1>11. SizeOf(DOMAIN records)' = Cardinality(S) + Cardinality(D)
  BY DEF SizeOf
<1>12. k \in C => k \in R
  OBVIOUS
<1> HIDE DEF R, C, S, D
<1>13. recordCount' = Cardinality(S) /\ recordCount' <= MaxRecords /\ recordCount' \in Nat
  BY <1>3, <1>6, <1>7, <1>9, AuditAssumption
<1>14. bytes' = Cardinality(S) + Cardinality(D) /\ bytes' \in Nat
  <2>1. CASE d.closed
    BY <1>3, <1>5, <1>6, <1>7, <1>8, <1>9, <1>10, <1>12, <2>1
  <2>2. CASE ~d.closed
    BY <1>3, <1>5, <1>6, <1>7, <1>8, <1>9, <1>10, <1>12, <2>2
  <2> QED BY <2>1, <2>2
<1> QED BY <1>3, <1>9, <1>11, <1>13, <1>14 DEF CountersAreExact, S

\* A version that replaces the one before it in the bucket and in the queue.
LEMMA StoreDelivers ==
  ASSUME Delivery, NEW k \in Keys, NEW d \in Draft, Fits(k, d), Store(k, d),
         UNCHANGED <<batches, acks, booked>>
  PROVE  Delivery'
<1>1. /\ DOMAIN records' = DOMAIN records \cup {k} /\ records'[k] = d
      /\ \A x \in DOMAIN records : x # k => records'[x] = records[x]
  BY DEF Store, Put
<1>2. /\ sequence' = sequence + 1 /\ sequence \in Nat /\ sequence < MaxSequence
      /\ d.sequence = sequence + 1 /\ d \in Record
  BY AuditAssumption DEF Store, Delivery, StoreTyped, Draft, Record
<1>3. /\ DOMAIN pending' \subseteq DOMAIN pending \cup {sequence + 1}
      /\ sequence + 1 \in DOMAIN pending' /\ pending'[sequence + 1] = k
      /\ \A s \in DOMAIN pending : s \in DOMAIN pending' <=>
           s = sequence + 1 \/ k \notin DOMAIN records \/ s # records[k].sequence
      /\ \A s \in DOMAIN pending' : s # sequence + 1 => pending'[s] = pending[s]
  BY DEF Store, Put
<1>4. /\ \A s \in DOMAIN pending : s \in 1..sequence /\ pending[s] \in DOMAIN records
                                   /\ records[pending[s]].sequence = s
      /\ \A x \in DOMAIN records : records[x].sequence \in 1..sequence /\ records[x] \in Record
  BY AuditAssumption DEF Delivery, StoreTyped, Record, QueueNamesVersions, VersionsAreUnique
<1>5. \A s \in DOMAIN pending' : s # sequence + 1 =>
        /\ s \in DOMAIN pending /\ s \in 1..sequence /\ pending'[s] = pending[s]
        /\ pending[s] # k /\ pending[s] \in DOMAIN records
        /\ records'[pending[s]] = records[pending[s]]
  BY <1>1, <1>3, <1>4
<1>6. StoreTyped'
  <2>1. DOMAIN index' = DOMAIN index \cup {k[2]} /\ index'[k[2]] = k
        /\ \A c \in DOMAIN index : c # k[2] => index'[c] = index[c]
    BY DEF Store, Put
  <2>2. DOMAIN index' \subseteq Conns /\ \A c \in DOMAIN index' : index'[c] \in Keys
    BY <2>1, KeyParts DEF Delivery, StoreTyped
  <2>3. recordCount' \in Nat /\ bytes' \in Nat
    BY StoreCounts
  <2>4. DOMAIN records' \subseteq Keys /\ \A x \in DOMAIN records' : records'[x] \in Record
    BY <1>1, <1>2 DEF Delivery, StoreTyped
  <2>5. DOMAIN pending' \subseteq 1..MaxSequence /\ \A s \in DOMAIN pending' : pending'[s] \in Keys
    BY <1>2, <1>3, <1>5, AuditAssumption DEF Delivery, StoreTyped
  <2>6. sequence' \in 0..MaxSequence
    BY <1>2, AuditAssumption
  <2> QED BY <2>2, <2>3, <2>4, <2>5, <2>6 DEF StoreTyped
<1>7. VersionsAreUnique'
  <2>1. \A x \in DOMAIN records' : records'[x].sequence <= sequence'
    BY <1>1, <1>2, <1>4
  <2>2. \A x, y \in DOMAIN records' : records'[x].sequence = records'[y].sequence => x = y
    BY <1>1, <1>2, <1>4 DEF Delivery, VersionsAreUnique
  <2> QED BY <2>1, <2>2 DEF VersionsAreUnique
<1>8. QueueNamesVersions'
  BY <1>1, <1>2, <1>3, <1>4, <1>5 DEF QueueNamesVersions
<1>9. IndexNamesRecords'
  BY <1>1 DEF Store, Put, Delivery, IndexNamesRecords
<1>10. CountersAreExact'
  BY StoreCounts
<1>11. BatchesAreCurrent'
  <2> SUFFICES ASSUME NEW b \in batches PROVE BatchIsCurrent(b)'
    BY DEF BatchesAreCurrent
  <2>1. BatchIsCurrent(b)
    BY DEF Delivery, BatchesAreCurrent
  <2>2. DOMAIN b # {} /\ DOMAIN b \subseteq 1..sequence /\ DOMAIN b \subseteq 1..sequence'
    BY <1>2, <2>1 DEF BatchIsCurrent
  <2>3. ASSUME NEW s \in DOMAIN b, b[s].key \in DOMAIN records'
        PROVE  /\ s <= records'[b[s].key].sequence
               /\ s = records'[b[s].key].sequence => b[s].record = records'[b[s].key]
    <3>1. CASE b[s].key = k
      BY <1>1, <1>2, <2>2, <3>1
    <3>2. CASE b[s].key # k
      BY <1>1, <2>1, <2>3, <3>2 DEF BatchIsCurrent
    <3> QED BY <3>1, <3>2
  <2>4. ASSUME NEW last \in DOMAIN b, NEW s \in DOMAIN pending', s <= last
        PROVE  s \in DOMAIN b /\ b[s].key = pending'[s]
    <3>1. s # sequence + 1
      BY <1>2, <2>2, <2>4
    <3> QED BY <1>5, <2>1, <2>4, <3>1 DEF BatchIsCurrent
  <2> QED BY <2>1, <2>2, <2>3, <2>4 DEF BatchIsCurrent
<1>12. BookedIsPast'
  <2> SUFFICES ASSUME NEW x \in DOMAIN booked
               PROVE  /\ booked[x].sequence \in 1..sequence'
                      /\ x \in DOMAIN records' => booked[x].sequence <= records'[x].sequence
    BY DEF BookedIsPast
  <2>1. booked[x].sequence \in 1..sequence
        /\ (x \in DOMAIN records => booked[x].sequence <= records[x].sequence)
    BY DEF Delivery, BookedIsPast
  <2> QED BY <1>1, <1>2, <2>1
<1>13. AckedIsBooked'
  <2> SUFFICES ASSUME NEW a \in acks
               PROVE  /\ a \in 1..sequence'
                      /\ \A s \in DOMAIN pending' : s <= a =>
                           pending'[s] \in DOMAIN booked /\ booked[pending'[s]] = records'[pending'[s]]
    BY DEF AckedIsBooked
  <2>1. a \in 1..sequence
    BY DEF Delivery, AckedIsBooked
  <2>2. ASSUME NEW s \in DOMAIN pending', s <= a
        PROVE  pending'[s] \in DOMAIN booked /\ booked[pending'[s]] = records'[pending'[s]]
    <3>1. s # sequence + 1
      BY <1>2, <2>1, <2>2
    <3> QED BY <1>5, <2>2, <3>1 DEF Delivery, AckedIsBooked
  <2> QED BY <1>2, <2>1, <2>2
<1>14. NothingLost'
  <2> SUFFICES ASSUME NEW x \in DOMAIN records'
               PROVE  \/ \E s \in DOMAIN pending' : pending'[s] = x
                      \/ x \in DOMAIN booked /\ booked[x] = records'[x]
    BY DEF NothingLost
  <2>1. CASE x = k
    BY <1>3, <2>1
  <2>2. CASE x # k
    <3>1. x \in DOMAIN records /\ records'[x] = records[x]
      BY <1>1, <2>2
    <3>2. CASE \E s \in DOMAIN pending : pending[s] = x
      <4>1. PICK s \in DOMAIN pending : pending[s] = x
        BY <3>2
      <4>2. records[x].sequence = s
        BY <1>4, <4>1
      <4>3. k \in DOMAIN records => records[k].sequence # s
        BY <2>2, <3>1, <4>2 DEF Delivery, VersionsAreUnique
      <4>4. s \in DOMAIN pending' /\ s # sequence + 1
        BY <1>2, <1>3, <1>4, <4>3
      <4> QED BY <1>3, <4>1, <4>4
    <3>3. CASE x \in DOMAIN booked /\ booked[x] = records[x]
      BY <3>1, <3>3
    <3> QED BY <3>1, <3>2, <3>3 DEF Delivery, NothingLost
  <2> QED BY <2>1, <2>2
<1> QED BY <1>6, <1>7, <1>8, <1>9, <1>10, <1>11, <1>12, <1>13, <1>14 DEF Delivery

LEMMA ApplyDelivers ==
  ASSUME Delivery, NEW k \in Keys, NEW d \in Draft, Apply(k, d), UNCHANGED <<batches, acks, booked>>
  PROVE  Delivery'
<1>1. CASE Fits(k, d) /\ Store(k, d)
  BY <1>1, StoreDelivers
<1>2. CASE UNCHANGED <<records, pending, index, sequence, recordCount, bytes>>
  BY <1>2, DeliveryUnchanged DEF deliveryVars
<1> QED BY <1>1, <1>2 DEF Apply

\* The queue shrinks, by what was acknowledged.
LEMMA AckDelivers ==
  ASSUME Delivery, NEW through \in acks, Ack(through),
         UNCHANGED <<records, index, sequence, recordCount, bytes, batches, acks, booked>>
  PROVE  Delivery'
<1>1. /\ DOMAIN pending' \subseteq DOMAIN pending
      /\ \A s \in DOMAIN pending' : pending'[s] = pending[s]
      /\ \A s \in DOMAIN pending : s \in DOMAIN pending' \/ ~(s > through)
  BY DEF Ack
<1>2. through \in Int /\ \A s \in DOMAIN pending : s \in Int
  BY DEF Delivery, AckedIsBooked, StoreTyped
<1>3. StoreTyped' /\ VersionsAreUnique' /\ QueueNamesVersions' /\ IndexNamesRecords'
  BY <1>1 DEF Delivery, StoreTyped, VersionsAreUnique, QueueNamesVersions, IndexNamesRecords
<1>4. CountersAreExact' /\ BookedIsPast'
  BY DEF Delivery, CountersAreExact, SizeOf, BookedIsPast
<1>5. BatchesAreCurrent'
  BY <1>1 DEF Delivery, BatchesAreCurrent, BatchIsCurrent
<1>6. AckedIsBooked'
  BY <1>1 DEF Delivery, AckedIsBooked
<1>7. NothingLost'
  <2> SUFFICES ASSUME NEW x \in DOMAIN records
               PROVE  \/ \E s \in DOMAIN pending' : pending'[s] = x
                      \/ x \in DOMAIN booked /\ booked[x] = records[x]
    BY DEF NothingLost
  <2>1. ASSUME NEW s \in DOMAIN pending, pending[s] = x
        PROVE  \/ \E y \in DOMAIN pending' : pending'[y] = x
               \/ x \in DOMAIN booked /\ booked[x] = records[x]
    <3>1. CASE s \in DOMAIN pending'
      BY <1>1, <2>1, <3>1
    <3>2. CASE s <= through
      BY <2>1, <3>2 DEF Delivery, AckedIsBooked
    <3> QED BY <1>1, <1>2, <3>1, <3>2
  <2> QED BY <2>1 DEF Delivery, NothingLost
<1> QED BY <1>3, <1>4, <1>5, <1>6, <1>7 DEF Delivery

\* A batch is the oldest part of the queue, and has something.
LEMMA PullDelivers ==
  ASSUME Delivery, Pull
  PROVE  Delivery'
<1>1. UNCHANGED <<records, pending, index, sequence, recordCount, bytes, acks, booked>>
  BY DEF Pull, storeVars
<1>2. IsFiniteSet(DOMAIN pending) /\ DOMAIN pending \in SUBSET Int /\ DOMAIN pending # {}
  <2>1. IsFiniteSet(1..MaxSequence)
    BY FS_Interval, AuditAssumption
  <2>2. DOMAIN pending \in SUBSET (1..MaxSequence) /\ DOMAIN pending # {}
    BY DEF Delivery, StoreTyped, Pull
  <2>3. IsFiniteSet(DOMAIN pending)
    BY <2>1, <2>2, FS_Subset
  <2> QED BY <2>2, <2>3
<1> DEFINE Before(s) == {x \in DOMAIN pending : x < s}
           first == {s \in DOMAIN pending : Cardinality(Before(s)) < PullLimit}
<1>3. batches' = {Batch} /\ DOMAIN Batch = first
      /\ \A s \in first : Batch[s].key = pending[s] /\ Batch[s].record = records[pending[s]]
  BY DEF Pull, Batch
<1>4. first # {}
  <2>1. PICK s \in DOMAIN pending : \A y \in DOMAIN pending : s <= y
    BY <1>2, LeastExists
  <2>2. Before(s) = {}
    BY <1>2, <2>1
  <2>3. s \in first
    BY <2>2, FS_EmptySet, AuditAssumption
  <2> QED BY <2>3
<1>5. \A last \in first, s \in DOMAIN pending : s <= last => s \in first
  <2> SUFFICES ASSUME NEW last \in first, NEW s \in DOMAIN pending, s <= last
               PROVE  Cardinality(Before(s)) < PullLimit
    OBVIOUS
  <2>1. Before(s) \in SUBSET Before(last) /\ Before(last) \in SUBSET DOMAIN pending
    BY <1>2
  <2>2. IsFiniteSet(Before(last)) /\ IsFiniteSet(Before(s))
    BY <1>2, <2>1, FS_Subset
  <2>3. Cardinality(Before(s)) <= Cardinality(Before(last))
    BY <2>1, <2>2, FS_Subset
  <2>4. Cardinality(Before(s)) \in Nat /\ Cardinality(Before(last)) \in Nat
    BY <2>2, FS_CardinalityType
  <2> HIDE DEF Before
  <2> QED BY <2>3, <2>4, AuditAssumption
<1> HIDE DEF first
<1>6. first \subseteq DOMAIN pending
  BY DEF first
<1>7. \A s \in DOMAIN pending : /\ pending[s] \in DOMAIN records /\ records[pending[s]].sequence = s
                                /\ s \in 1..sequence
  BY DEF Delivery, QueueNamesVersions, StoreTyped, VersionsAreUnique
<1>8. BatchIsCurrent(Batch)'
  <2>1. Batch' = Batch
    BY <1>1 DEF Batch
  <2>2. BatchIsCurrent(Batch)
    BY <1>3, <1>4, <1>5, <1>6, <1>7 DEF BatchIsCurrent
  <2> QED BY <1>1, <2>1, <2>2 DEF BatchIsCurrent
<1>9. BatchesAreCurrent'
  BY <1>1, <1>3, <1>8 DEF BatchesAreCurrent, BatchIsCurrent, Batch
<1> QED BY <1>1, <1>9 DEF Delivery, StoreTyped, VersionsAreUnique, QueueNamesVersions,
           IndexNamesRecords, CountersAreExact, SizeOf, BookedIsPast, AckedIsBooked, NothingLost

\* The panel books a batch, for the first time or again: a record it has as
\* new as the store stays so.
LEMMA BookDelivers ==
  ASSUME Delivery, NEW b \in batches, Book(b)
  PROVE  Delivery'
<1>1. UNCHANGED <<records, pending, index, sequence, recordCount, bytes, batches>>
  BY DEF Book, storeVars
<1>2. BatchIsCurrent(b)
  BY DEF Delivery, BatchesAreCurrent
<1>3. DOMAIN b # {} /\ DOMAIN b \in SUBSET (1..sequence) /\ sequence \in Nat
  BY <1>2 DEF BatchIsCurrent, Delivery, StoreTyped
<1> DEFINE Versions(k) == {s \in DOMAIN b : b[s].key = k}
<1>4. /\ DOMAIN booked' = DOMAIN booked \cup {b[s].key : s \in DOMAIN b}
      /\ \A k \in DOMAIN booked' :
           booked'[k] = IF k \in DOMAIN booked /\ \A s \in Versions(k) : booked[k].sequence > s
                        THEN booked[k] ELSE b[Max(Versions(k))].record
  BY DEF Book
<1>5. ASSUME NEW k \in DOMAIN booked, Versions(k) = {}
      PROVE  k \in DOMAIN booked' /\ booked'[k] = booked[k]
  BY <1>4, <1>5
<1>6. ASSUME NEW s \in DOMAIN b
      PROVE  /\ b[s].key \in DOMAIN booked'
             /\ booked'[b[s].key] = IF b[s].key \in DOMAIN booked /\ booked[b[s].key].sequence > s
                                    THEN booked[b[s].key] ELSE b[s].record
  <2>1. Versions(b[s].key) = {s}
    BY <1>2 DEF BatchIsCurrent
  <2>2. Max({s}) = s
    BY <1>3, MaxOfOne
  <2>3. b[s].key \in DOMAIN booked'
    BY <1>4
  <2> QED BY <1>4, <2>1, <2>2, <2>3
<1> HIDE DEF Versions
<1>7. ASSUME NEW k \in DOMAIN records, k \in DOMAIN booked, booked[k] = records[k]
      PROVE  k \in DOMAIN booked' /\ booked'[k] = records[k]
  <2>1. CASE Versions(k) = {}
    BY <1>5, <1>7, <2>1
  <2>2. ASSUME NEW s \in DOMAIN b, b[s].key = k
        PROVE  k \in DOMAIN booked' /\ booked'[k] = records[k]
    <3>1. s \in Int /\ records[k].sequence \in Int
      BY <1>3 DEF Delivery, StoreTyped, Record
    <3>2. s <= records[k].sequence /\ (s = records[k].sequence => b[s].record = records[k])
      BY <1>2, <2>2 DEF BatchIsCurrent
    <3> QED BY <1>6, <1>7, <2>2, <3>1, <3>2
  <2> QED BY <2>1, <2>2 DEF Versions
<1>8. ASSUME NEW k \in DOMAIN booked'
      PROVE  \/ k \in DOMAIN booked /\ booked'[k] = booked[k]
             \/ \E s \in DOMAIN b : b[s].key = k /\ booked'[k] = b[s].record
  BY <1>4, <1>5, <1>6 DEF Versions
<1>9. BookedIsPast'
  <2> SUFFICES ASSUME NEW k \in DOMAIN booked'
               PROVE  /\ booked'[k].sequence \in 1..sequence
                      /\ k \in DOMAIN records => booked'[k].sequence <= records[k].sequence
    BY <1>1 DEF BookedIsPast
  <2>1. CASE k \in DOMAIN booked /\ booked'[k] = booked[k]
    BY <2>1 DEF Delivery, BookedIsPast
  <2>2. ASSUME NEW s \in DOMAIN b, b[s].key = k, booked'[k] = b[s].record
        PROVE  /\ booked'[k].sequence \in 1..sequence
               /\ k \in DOMAIN records => booked'[k].sequence <= records[k].sequence
    BY <1>2, <1>3, <2>2 DEF BatchIsCurrent
  <2> QED BY <1>8, <2>1, <2>2
<1>10. NothingLost'
  BY <1>1, <1>7 DEF Delivery, NothingLost
<1>11. AckedIsBooked'
  <2>1. acks' = acks \cup {Max(DOMAIN b)}
    BY DEF Book
  <2>2. Max(DOMAIN b) \in DOMAIN b
    <3>1. IsFiniteSet(1..sequence)
      BY <1>3, FS_Interval
    <3>2. IsFiniteSet(DOMAIN b) /\ DOMAIN b \in SUBSET Int
      BY <1>3, <3>1, FS_Subset
    <3> QED BY <1>3, <3>2, MaxOf
  <2>3. \A s \in DOMAIN pending : pending[s] \in DOMAIN records /\ records[pending[s]].sequence = s
    BY DEF Delivery, QueueNamesVersions
  <2>4. ASSUME NEW a \in acks
        PROVE  /\ a \in 1..sequence
               /\ \A s \in DOMAIN pending : s <= a =>
                    pending[s] \in DOMAIN booked' /\ booked'[pending[s]] = records[pending[s]]
    BY <1>7, <2>3 DEF Delivery, AckedIsBooked
  <2>5. ASSUME NEW s \in DOMAIN pending, s <= Max(DOMAIN b)
        PROVE  pending[s] \in DOMAIN booked' /\ booked'[pending[s]] = records[pending[s]]
    <3>1. s \in DOMAIN b /\ b[s].key = pending[s]
      BY <1>2, <2>2, <2>5 DEF BatchIsCurrent
    <3>2. b[s].record = records[pending[s]]
      BY <1>2, <2>3, <3>1 DEF BatchIsCurrent
    <3>3. pending[s] \in DOMAIN booked => booked[pending[s]].sequence \in Int /\ booked[pending[s]].sequence <= s
      BY <2>3 DEF Delivery, BookedIsPast
    <3> QED BY <1>3, <1>6, <3>1, <3>2, <3>3
  <2> QED BY <1>1, <1>3, <2>1, <2>2, <2>4, <2>5 DEF AckedIsBooked
<1> QED BY <1>1, <1>9, <1>10, <1>11 DEF Delivery, StoreTyped, VersionsAreUnique, QueueNamesVersions,
           IndexNamesRecords, CountersAreExact, SizeOf, BatchesAreCurrent, BatchIsCurrent

\* Pruned records leave every bucket, and give their bytes back.
LEMMA PruneCounts ==
  ASSUME Delivery, NEW old \in SUBSET DOMAIN records, Prune(old)
  PROVE  CountersAreExact' /\ recordCount' \in Nat /\ bytes' \in Nat
<1> DEFINE R == DOMAIN records
           C == {x \in R : records[x].closed}
           O == {x \in old : records[x].closed}
           S == DOMAIN records'
           D == {x \in S : records'[x].closed}
<1>1. S = R \ old /\ \A x \in S : records'[x] = records[x]
  BY DEF Prune
<1>2. D = C \ O /\ C \cap O = O /\ R \cap old = old
  BY <1>1
<1>3. IsFiniteSet(R) /\ IsFiniteSet(C)
  <2>1. C \in SUBSET R
    OBVIOUS
  <2> QED BY <2>1, FS_Subset DEF Delivery, CountersAreExact
<1>4. IsFiniteSet(S) /\ Cardinality(S) = Cardinality(R) - Cardinality(old)
  <2> HIDE DEF R, C, O, S, D
  <2>1. IsFiniteSet(R \ old) /\ Cardinality(R \ old) = Cardinality(R) - Cardinality(R \cap old)
    BY <1>3, FS_Difference
  <2> QED BY <1>1, <1>2, <2>1
<1>5. IsFiniteSet(D) /\ Cardinality(D) = Cardinality(C) - Cardinality(O)
  <2> HIDE DEF R, C, O, S, D
  <2>1. IsFiniteSet(C \ O) /\ Cardinality(C \ O) = Cardinality(C) - Cardinality(C \cap O)
    BY <1>3, FS_Difference
  <2> QED BY <1>2, <2>1
<1>6. IsFiniteSet(old) /\ IsFiniteSet(O)
  <2>1. O \in SUBSET R
    OBVIOUS
  <2> QED BY <1>3, <2>1, FS_Subset
<1>7. Cardinality(R) \in Nat /\ Cardinality(C) \in Nat /\ Cardinality(S) \in Nat
      /\ Cardinality(D) \in Nat /\ Cardinality(old) \in Nat /\ Cardinality(O) \in Nat
  BY <1>3, <1>4, <1>5, <1>6, FS_CardinalityType
<1>8. /\ recordCount = Cardinality(R) /\ recordCount <= MaxRecords
      /\ bytes = Cardinality(R) + Cardinality(C) /\ bytes <= MaxBytes
  BY DEF Delivery, CountersAreExact, SizeOf
<1>9. recordCount' = recordCount - Cardinality(old)
      /\ bytes' = bytes - (Cardinality(old) + Cardinality(O))
  BY DEF Prune, SizeOf
<1>10. SizeOf(DOMAIN records)' = Cardinality(S) + Cardinality(D)
  BY DEF SizeOf
<1> HIDE DEF R, C, O, S, D
<1>11. /\ recordCount' = Cardinality(S) /\ recordCount' <= MaxRecords /\ recordCount' \in Nat
       /\ bytes' = Cardinality(S) + Cardinality(D) /\ bytes' <= MaxBytes /\ bytes' \in Nat
  BY <1>4, <1>5, <1>7, <1>8, <1>9, AuditAssumption
<1> QED BY <1>4, <1>10, <1>11 DEF CountersAreExact, S

LEMMA PruneDelivers ==
  ASSUME Delivery, NEW old \in SUBSET DOMAIN records, Prune(old),
         UNCHANGED <<sequence, batches, acks, booked>>
  PROVE  Delivery'
<1>1. DOMAIN records' = DOMAIN records \ old
      /\ \A k \in DOMAIN records' : k \in DOMAIN records /\ records'[k] = records[k]
  BY DEF Prune
<1>2. /\ \A s \in DOMAIN pending' : s \in DOMAIN pending /\ pending'[s] = pending[s] /\ pending[s] \notin old
      /\ \A s \in DOMAIN pending : pending[s] \notin old => s \in DOMAIN pending'
  BY DEF Prune
<1>3. \A c \in DOMAIN index' : c \in DOMAIN index /\ index'[c] = index[c] /\ index[c] \notin old
  BY DEF Prune
<1>4. CountersAreExact' /\ recordCount' \in Nat /\ bytes' \in Nat
  BY PruneCounts
<1>5. QueueNamesVersions'
  BY <1>1, <1>2 DEF Delivery, QueueNamesVersions
<1>6. IndexNamesRecords'
  BY <1>1, <1>3 DEF Delivery, IndexNamesRecords
<1>7. VersionsAreUnique'
  BY <1>1 DEF Delivery, VersionsAreUnique
<1>8. StoreTyped'
  BY <1>1, <1>2, <1>3, <1>4 DEF Delivery, StoreTyped
<1>9. BatchesAreCurrent'
  <2> SUFFICES ASSUME NEW b \in batches PROVE BatchIsCurrent(b)'
    BY DEF BatchesAreCurrent
  <2>1. BatchIsCurrent(b)
    BY DEF Delivery, BatchesAreCurrent
  <2> QED BY <1>1, <1>2, <2>1 DEF BatchIsCurrent
<1>10. BookedIsPast'
  BY <1>1 DEF Delivery, BookedIsPast
<1>11. AckedIsBooked'
  <2>1. \A s \in DOMAIN pending' : pending'[s] \in DOMAIN records'
    BY <1>5 DEF QueueNamesVersions
  <2> QED BY <1>1, <1>2, <2>1 DEF Delivery, AckedIsBooked
<1>12. NothingLost'
  BY <1>1, <1>2 DEF Delivery, NothingLost
<1> QED BY <1>4, <1>5, <1>6, <1>7, <1>8, <1>9, <1>10, <1>11, <1>12 DEF Delivery

-----------------------------------------------------------------------------
\* The events of the stream.

\* What an event of connection c writes: a version of a record under the window
\* that the valid policy has for the user, with bytes c has carried.
Writes(c, k, d) ==
  /\ Apply(k, d)
  /\ k[2] = c /\ lease = "valid"
  /\ UserOf[c] \in DOMAIN policy.targets /\ policy.targets[UserOf[c]] = k[1]
  /\ k[1] <= Cardinality(issued)
  /\ d.last <= total[c]
  /\ atEnable[k[1]][c] <= d.base

Recorded(c) == UNCHANGED storeVars \/ \E k \in Keys, d \in Draft : Writes(c, k, d)

\* The window of a user with a policy was issued.
LEMMA WindowIsIssued ==
  ASSUME IInv, NEW u \in Users, u \in DOMAIN policy.targets
  PROVE  policy.targets[u] \in Windows /\ policy.targets[u] <= Cardinality(issued)
<1>1. policy \in issued
  BY DEF IInv, PolicyIsIssued, Empty
<1>2. policy.revision \in 1..Cardinality(issued) /\ policy.targets \in Policies
      /\ policy.targets[u] <= policy.revision
  BY <1>1 DEF IInv, PoliciesAreOrdered
<1>3. Cardinality(issued) \in Nat
  BY FS_CardinalityType DEF IInv, PoliciesAreOrdered
<1>4. policy.targets[u] \in Windows
  <2>1. PICK U \in SUBSET Users : policy.targets \in [U -> Windows]
    BY <1>2 DEF Policies
  <2> QED BY <2>1
<1> QED BY <1>2, <1>3, <1>4, AuditAssumption DEF Windows

LEMMA ConnectionRecorded ==
  ASSUME IInv, NEW c \in Conns, NEW closed \in BOOLEAN, ApplyConnection(c, closed)
  PROVE  Recorded(c)
<1>1. CASE Ignored
  BY <1>1 DEF Ignored, Recorded
<1>2. CASE Selected(c)
  <2> DEFINE w == policy.targets[UserOf[c]]
             k == <<w, c>>
             d == Observed(c, k, closed)
  <2>1. Apply(k, d)
    BY <1>2 DEF ApplyConnection
  <2>2. UserOf[c] \in Users /\ UserOf[c] \in DOMAIN policy.targets /\ lease = "valid"
    BY <1>2 DEF Selected, Users
  <2>3. w \in Windows /\ w <= Cardinality(issued)
    BY <2>2, WindowIsIssued
  <2> HIDE DEF w
  <2>4. k \in Keys /\ k[1] = w /\ k[2] = c
    BY <2>3 DEF Keys
  <2>5. total[c] \in 0..MaxTotal /\ atEnable[w][c] \in 0..MaxTotal
        /\ connThen[w][c] \in {"none", "open", "closed"}
    BY <2>3 DEF IInv, EnvironmentTyped
  <2>6. atEnable[w][c] <= total[c] /\ (connThen[w][c] = "none" => atEnable[w][c] = 0)
    BY <2>3 DEF IInv, BytesGrow
  <2>7. k \in DOMAIN records =>
          /\ records[k] \in Record
          /\ records[k].last <= total[c] /\ atEnable[w][c] <= records[k].base
    BY <2>4 DEF IInv, Delivery, StoreTyped, RecordsAreHonest, Honest
  <2>8. d.base \in 0..MaxTotal /\ atEnable[w][c] <= d.base
    BY <2>4, <2>5, <2>6, <2>7, AuditAssumption DEF Observed, Record
  <2>9. d.last \in 0..MaxTotal /\ d.last <= total[c]
    BY <2>5, <2>7, AuditAssumption DEF Observed, Record
  <2>10. d.closed \in BOOLEAN /\ d.sequence = sequence + 1
    BY <2>7 DEF Observed, Record
  <2>11. d \in Draft
    BY <2>8, <2>9, <2>10 DEF Observed, Draft
  <2>12. Writes(c, k, d)
    BY <2>1, <2>2, <2>3, <2>4, <2>8, <2>9 DEF Writes, w
  <2> HIDE DEF k, d
  <2> QED BY <2>4, <2>11, <2>12 DEF Recorded
<1> QED BY <1>1, <1>2 DEF ApplyConnection

LEMMA DeltaRecorded ==
  ASSUME IInv, NEW c \in Conns, NEW closed \in BOOLEAN, NEW delta \in Nat,
         delta = 0 \/ (conn[c] # "closed" /\ delta = total[c] - sent[c]),
         ApplyDelta(c, delta, closed)
  PROVE  Recorded(c)
<1>1. CASE Ignored
  BY <1>1 DEF Ignored, Recorded
<1>2. CASE Tracks(c)
  <2> DEFINE k == index[c]
             d == [records[k] EXCEPT !.last = @ + delta, !.closed = @ \/ closed,
                                     !.sequence = sequence + 1]
  <2>1. Apply(k, d)
    BY <1>2 DEF ApplyDelta
  <2>2. UserOf[c] \in Users /\ UserOf[c] \in DOMAIN policy.targets /\ lease = "valid"
        /\ policy.targets[UserOf[c]] = k[1] /\ c \in DOMAIN index
    BY <1>2 DEF Tracks, Users
  <2>3. k[1] <= Cardinality(issued)
    BY <2>2, WindowIsIssued
  <2>4. k \in Keys /\ k \in DOMAIN records /\ k[2] = c
    BY <2>2 DEF IInv, Delivery, StoreTyped, IndexNamesRecords
  <2> HIDE DEF k
  <2>5. /\ records[k] \in Record /\ records[k].last <= total[c] /\ atEnable[k[1]][c] <= records[k].base
        /\ conn[c] # "closed" => records[k].last <= sent[c]
    BY <2>4 DEF IInv, Delivery, StoreTyped, RecordsAreHonest, Honest
  <2>6. total[c] \in 0..MaxTotal /\ sent[c] \in 0..MaxTotal /\ sent[c] <= total[c]
    BY DEF IInv, EnvironmentTyped, BytesGrow
  <2>7. d.base = records[k].base /\ d.last = records[k].last + delta
    BY <2>5 DEF Record
  <2>8. records[k].last + delta \in 0..MaxTotal /\ records[k].last + delta <= total[c]
    BY <2>5, <2>6, AuditAssumption DEF Record
  <2>9. d \in Draft
    <3>1. (records[k].closed \/ closed) \in BOOLEAN
      OBVIOUS
    <3> QED BY <2>5, <2>8, <3>1 DEF Draft, Record
  <2>10. Writes(c, k, d)
    BY <2>1, <2>2, <2>3, <2>4, <2>5, <2>7, <2>8 DEF Writes, k
  <2> HIDE DEF d
  <2> QED BY <2>4, <2>9, <2>10 DEF Recorded
<1> QED BY <1>1, <1>2 DEF ApplyDelta

-----------------------------------------------------------------------------
\* The invariant holds initially, and every action preserves it.

LEMMA PoliciesUnchanged ==
  ASSUME PoliciesAreOrdered, PolicyIsIssued, UNCHANGED <<issued, policy>>
  PROVE  PoliciesAreOrdered' /\ PolicyIsIssued'
BY DEF PoliciesAreOrdered, PolicyIsIssued

\* An event of c leaves the records honest, if the stream has now reported all
\* of c, or c is closed.
LEMMA EventKeeps ==
  ASSUME IInv, NEW c \in Conns, Recorded(c),
         UNCHANGED <<total, atEnable, connThen, issued, batches, acks, booked>>,
         \/ conn' = conn /\ sent' = [sent EXCEPT ![c] = total[c]]
         \/ conn' = [conn EXCEPT ![c] = "closed"] /\ sent' = sent
  PROVE  Delivery' /\ RecordsAreHonest' /\ BytesGrow' /\ policy' = policy /\ lease' = lease
<1>1. /\ \A x \in Conns : total[x] \in 0..MaxTotal /\ sent[x] \in 0..MaxTotal /\ sent[x] <= total[x]
      /\ conn \in [Conns -> {"none", "open", "closed"}] /\ sent \in [Conns -> 0..MaxTotal]
  BY DEF IInv, EnvironmentTyped, BytesGrow
<1>2. /\ \A x \in Conns \ {c} : conn'[x] = conn[x] /\ sent'[x] = sent[x]
      /\ conn'[c] = "closed" \/ sent'[c] = total[c]
      /\ sent'[c] \in 0..MaxTotal /\ sent[c] <= sent'[c] /\ sent'[c] <= total[c]
      /\ conn'[c] \in {conn[c], "closed"}
  BY <1>1
<1>3. BytesGrow'
  BY <1>1, <1>2 DEF IInv, BytesGrow
<1>4. ASSUME NEW x \in Keys, NEW r \in Record, Honest(x, r)
      PROVE  Honest(x, r)'
  <2>1. x[2] \in Conns /\ r.last \in Int
    BY KeyParts DEF Record
  <2> QED BY <1>1, <1>2, <1>4, <2>1 DEF Honest
<1>5. \A x \in DOMAIN records : x \in Keys /\ records[x] \in Record /\ Honest(x, records[x])
  BY DEF IInv, Delivery, StoreTyped, RecordsAreHonest
<1>6. CASE UNCHANGED <<policy, lease, records, pending, index, sequence, recordCount, bytes>>
  <2>1. Delivery'
    BY <1>6, DeliveryUnchanged DEF IInv, deliveryVars
  <2>2. RecordsAreHonest'
    BY <1>4, <1>5, <1>6 DEF RecordsAreHonest
  <2> QED BY <1>3, <1>6, <2>1, <2>2
<1>7. ASSUME NEW k \in Keys, NEW d \in Draft, Writes(c, k, d), Fits(k, d), Store(k, d)
      PROVE  Delivery' /\ RecordsAreHonest' /\ policy' = policy /\ lease' = lease
  <2>1. Delivery'
    BY <1>7, StoreDelivers DEF IInv
  <2>2. /\ DOMAIN records' = DOMAIN records \cup {k} /\ records'[k] = d
        /\ \A x \in DOMAIN records : x # k => records'[x] = records[x]
    BY <1>7 DEF Store, Put
  <2>3. Honest(k, d)'
    BY <1>2, <1>7 DEF Honest, Writes
  <2>4. RecordsAreHonest'
    BY <1>4, <1>5, <2>2, <2>3 DEF RecordsAreHonest
  <2>5. policy' = policy /\ lease' = lease
    BY <1>7 DEF Writes, Apply
  <2> QED BY <2>1, <2>4, <2>5
<1> QED BY <1>3, <1>6, <1>7 DEF Recorded, Writes, Apply, storeVars

LEMMA PresentKeeps ==
  ASSUME IInv, NEW c \in Conns, Present(c)
  PROVE  IInv'
<1>1. /\ ApplyConnection(c, conn[c] = "closed")
      /\ sent' = [sent EXCEPT ![c] = total[c]] /\ replay' = replay \ {c}
      /\ UNCHANGED <<stream, conn, total, issued, batches, acks, booked, atEnable, connThen>>
  BY DEF Present, coreVars, panelVars, historyVars
<1>2. (conn[c] = "closed") \in BOOLEAN
  OBVIOUS
<1>3. Recorded(c)
  BY <1>1, <1>2, ConnectionRecorded
<1>4. Delivery' /\ RecordsAreHonest' /\ BytesGrow' /\ policy' = policy /\ lease' = lease
  BY <1>1, <1>3, EventKeeps
<1>5. EnvironmentTyped'
  BY <1>1, <1>4 DEF IInv, EnvironmentTyped
<1> QED BY <1>1, <1>4, <1>5, PoliciesUnchanged DEF IInv

LEMMA UpdateKeeps ==
  ASSUME IInv, NEW c \in Conns, Update(c)
  PROVE  IInv'
<1>1. /\ conn[c] = "open" /\ total[c] > sent[c]
      /\ ApplyDelta(c, total[c] - sent[c], FALSE)
      /\ sent' = [sent EXCEPT ![c] = total[c]]
      /\ UNCHANGED <<stream, replay, conn, total, issued, batches, acks, booked, atEnable, connThen>>
  BY DEF Update, coreVars, panelVars, historyVars
<1>2. total[c] \in Nat /\ sent[c] \in Nat
  BY DEF IInv, EnvironmentTyped
<1>3. total[c] - sent[c] \in Nat
  BY <1>1, <1>2
<1>4. Recorded(c)
  BY <1>1, <1>3, DeltaRecorded
<1>5. Delivery' /\ RecordsAreHonest' /\ BytesGrow' /\ policy' = policy /\ lease' = lease
  BY <1>1, <1>4, EventKeeps
<1>6. EnvironmentTyped'
  BY <1>1, <1>5 DEF IInv, EnvironmentTyped
<1> QED BY <1>1, <1>5, <1>6, PoliciesUnchanged DEF IInv

LEMMA ClosesKeeps ==
  ASSUME IInv, NEW c \in Conns, Closes(c)
  PROVE  IInv'
<1>1. /\ conn' = [conn EXCEPT ![c] = "closed"]
      /\ UNCHANGED <<stream, replay, sent, total, issued, batches, acks, booked, atEnable, connThen>>
      /\ ApplyConnection(c, TRUE) \/ ApplyDelta(c, 0, TRUE) \/ Ignored
  BY DEF Closes, streamVars, panelVars, historyVars
<1>2. Recorded(c)
  <2>1. CASE ApplyConnection(c, TRUE)
    BY <2>1, ConnectionRecorded
  <2>2. CASE ApplyDelta(c, 0, TRUE)
    BY <2>2, DeltaRecorded
  <2>3. CASE Ignored
    BY <2>3 DEF Ignored, Recorded
  <2> QED BY <1>1, <2>1, <2>2, <2>3
<1>3. Delivery' /\ RecordsAreHonest' /\ BytesGrow' /\ policy' = policy /\ lease' = lease
  BY <1>1, <1>2, EventKeeps
<1>4. EnvironmentTyped'
  BY <1>1, <1>3 DEF IInv, EnvironmentTyped
<1> QED BY <1>1, <1>3, <1>4, PoliciesUnchanged DEF IInv

\* Steps of sing-box that write nothing.
LEMMA OpensKeeps ==
  ASSUME IInv, NEW c \in Conns, Opens(c)
  PROVE  IInv'
<1>1. /\ conn[c] = "none" /\ conn' = [conn EXCEPT ![c] = "open"]
      /\ replay' \in {replay, replay \cup {c}}
      /\ UNCHANGED <<policy, lease, total, stream, sent, issued, atEnable, connThen>>
      /\ UNCHANGED deliveryVars
  BY DEF Opens, storeVars, panelVars, historyVars, deliveryVars
<1>2. conn \in [Conns -> {"none", "open", "closed"}]
  BY DEF IInv, EnvironmentTyped
<1>3. Delivery'
  BY <1>1, DeliveryUnchanged DEF IInv
<1>4. EnvironmentTyped'
  BY <1>1 DEF IInv, EnvironmentTyped
<1>5. BytesGrow'
  BY <1>1, <1>2 DEF IInv, BytesGrow
<1>6. RecordsAreHonest'
  <2> SUFFICES ASSUME NEW x \in DOMAIN records PROVE Honest(x, records[x])'
    BY <1>1 DEF RecordsAreHonest, deliveryVars
  <2>1. x[2] \in Conns /\ Honest(x, records[x])
    BY KeyParts DEF IInv, Delivery, StoreTyped, RecordsAreHonest
  <2> QED BY <1>1, <1>2, <2>1 DEF Honest, deliveryVars
<1> QED BY <1>1, <1>3, <1>4, <1>5, <1>6, PoliciesUnchanged DEF IInv

LEMMA CarriesKeeps ==
  ASSUME IInv, NEW c \in Conns, Carries(c)
  PROVE  IInv'
<1>1. /\ conn[c] = "open" /\ total[c] < MaxTotal
      /\ total' = [total EXCEPT ![c] = @ + 1]
      /\ UNCHANGED <<policy, lease, conn, stream, replay, sent, issued, atEnable, connThen>>
      /\ UNCHANGED deliveryVars
  BY DEF Carries, storeVars, streamVars, panelVars, historyVars, deliveryVars
<1>2. total \in [Conns -> 0..MaxTotal] /\ sent \in [Conns -> 0..MaxTotal]
      /\ atEnable \in [Windows -> [Conns -> 0..MaxTotal]]
  BY DEF IInv, EnvironmentTyped
<1>3. total' \in [Conns -> 0..MaxTotal] /\ \A x \in Conns : total[x] <= total'[x]
  BY <1>1, <1>2, AuditAssumption
<1>4. Delivery'
  BY <1>1, DeliveryUnchanged DEF IInv
<1>5. EnvironmentTyped'
  BY <1>1, <1>3 DEF IInv, EnvironmentTyped
<1>6. BytesGrow'
  <2> SUFFICES ASSUME NEW x \in Conns
               PROVE  /\ sent[x] <= total'[x] /\ (conn[x] = "none" => total'[x] = 0)
                      /\ \A w \in Windows : /\ atEnable[w][x] <= total'[x]
                                            /\ connThen[w][x] = "none" => atEnable[w][x] = 0
    BY <1>1 DEF BytesGrow
  <2>1. /\ sent[x] <= total[x] /\ (conn[x] = "none" => total[x] = 0)
        /\ \A w \in Windows : /\ atEnable[w][x] <= total[x]
                              /\ connThen[w][x] = "none" => atEnable[w][x] = 0
    BY DEF IInv, BytesGrow
  <2>2. conn[x] = "none" => total'[x] = total[x]
    BY <1>1, <1>2
  <2>3. \A w \in Windows : atEnable[w][x] \in 0..MaxTotal
    BY <1>2
  <2> QED BY <1>2, <1>3, <2>1, <2>2, <2>3
<1>7. RecordsAreHonest'
  <2> SUFFICES ASSUME NEW x \in DOMAIN records PROVE Honest(x, records[x])'
    BY <1>1 DEF RecordsAreHonest, deliveryVars
  <2>1. x[2] \in Conns /\ Honest(x, records[x]) /\ records[x].last \in Int
    BY KeyParts DEF IInv, Delivery, StoreTyped, RecordsAreHonest, Record
  <2> QED BY <1>1, <1>2, <1>3, <2>1 DEF Honest, deliveryVars
<1> QED BY <1>1, <1>4, <1>5, <1>6, <1>7, PoliciesUnchanged DEF IInv

\* The lease, the subscription and restarts touch neither the store nor the
\* bytes.
LEMMA SwitchKeeps ==
  ASSUME IInv, LeaseExpires \/ Subscribe \/ StreamBreaks \/ AgentRestarts
  PROVE  IInv'
<1>1. /\ UNCHANGED <<policy, sent, conn, total, issued, atEnable, connThen>>
      /\ UNCHANGED deliveryVars
      /\ lease' \in {"valid", "expired", "zero"} /\ stream' \in BOOLEAN /\ replay' \subseteq Conns
  BY DEF LeaseExpires, Subscribe, StreamBreaks, AgentRestarts, storeVars, streamVars, coreVars,
         panelVars, historyVars, deliveryVars, IInv, EnvironmentTyped
<1>2. Delivery'
  BY <1>1, DeliveryUnchanged DEF IInv
<1>3. EnvironmentTyped'
  BY <1>1 DEF IInv, EnvironmentTyped
<1>4. BytesGrow' /\ RecordsAreHonest'
  BY <1>1 DEF IInv, BytesGrow, RecordsAreHonest, Honest, deliveryVars
<1> QED BY <1>1, <1>2, <1>3, <1>4, PoliciesUnchanged DEF IInv

LEMMA ConfigureKeeps ==
  ASSUME IInv, NEW p \in issued, HandleConfigure(p)
  PROVE  IInv'
<1>1. /\ policy' = p /\ lease' = "valid"
      /\ UNCHANGED <<stream, replay, sent, conn, total, issued, atEnable, connThen>>
      /\ UNCHANGED deliveryVars
  BY DEF HandleConfigure, Configure, streamVars, coreVars, panelVars, historyVars, deliveryVars
<1>2. Delivery'
  BY <1>1, DeliveryUnchanged DEF IInv
<1>3. p \in [revision : 0..MaxWindows, targets : Policies]
  <2>1. p \in [revision : 1..Cardinality(issued), targets : Policies]
        /\ Cardinality(issued) \in Nat /\ Cardinality(issued) <= MaxWindows
    BY FS_CardinalityType DEF IInv, PoliciesAreOrdered
  <2> QED BY <2>1, AuditAssumption
<1>4. EnvironmentTyped'
  BY <1>1, <1>3 DEF IInv, EnvironmentTyped
<1>5. BytesGrow' /\ RecordsAreHonest'
  BY <1>1 DEF IInv, BytesGrow, RecordsAreHonest, Honest, deliveryVars
<1>6. PoliciesAreOrdered' /\ PolicyIsIssued'
  BY <1>1 DEF IInv, PoliciesAreOrdered, PolicyIsIssued
<1> QED BY <1>2, <1>4, <1>5, <1>6 DEF IInv

\* The panel issues a policy: its new windows have the number of its revision.
LEMMA IssueKeeps ==
  ASSUME IInv, NEW users \in SUBSET Users, NEW renewed \in SUBSET Users, Issue(users, renewed)
  PROVE  IInv'
<1> DEFINE n == Cardinality(issued)
           newest == CHOOSE p \in issued : p.revision = n
           last == LastTargets
           new == NewPolicy(users, renewed)
           targets == new.targets
<1>1. n \in Nat /\ IsFiniteSet(issued) /\ (issued # {} => n # 0)
  BY FS_CardinalityType, FS_EmptySet DEF IInv, PoliciesAreOrdered
<1>2. /\ n + 1 <= MaxWindows
      /\ issued' = issued \cup {new}
      /\ atEnable' = [atEnable EXCEPT ![n + 1] = total]
      /\ connThen' = [connThen EXCEPT ![n + 1] = conn]
      /\ UNCHANGED <<policy, lease, stream, replay, sent, conn, total>>
      /\ UNCHANGED deliveryVars
  BY <1>1, AuditAssumption DEF Issue, Revision, storeVars, streamVars, coreVars, deliveryVars
<1>3. \A p \in issued : p.revision \in 1..n /\ p.targets \in Policies /\ p.revision # n + 1
  BY <1>1 DEF IInv, PoliciesAreOrdered
<1>4. issued # {} => newest \in issued /\ newest.revision = n
  <2>1. issued # {} => \E p \in issued : p.revision = n
    <3>1. issued # {} => n \in 1..Cardinality(issued)
      BY <1>1
    <3> QED BY <3>1 DEF IInv, PoliciesAreOrdered
  <2> HIDE DEF n
  <2> QED BY <2>1
<1>5. \A u \in DOMAIN last : issued # {} /\ last = newest.targets
  BY DEF LastTargets, Revision, Empty
<1>6. n + 1 \in Windows
  BY <1>1, <1>2 DEF Windows
<1> HIDE DEF newest, n
<1>7. ASSUME NEW u \in users, u \in DOMAIN last \ renewed
      PROVE  last[u] \in Windows /\ last[u] <= n
  <2>1. newest \in issued /\ last = newest.targets /\ newest.revision = n /\ u \in Users
    BY <1>4, <1>5, <1>7
  <2>2. last[u] <= n
    BY <1>7, <2>1 DEF IInv, PoliciesAreOrdered
  <2>3. PICK U \in SUBSET Users : newest.targets \in [U -> Windows]
    BY <1>3, <2>1 DEF Policies
  <2> QED BY <1>7, <2>1, <2>2, <2>3
<1> HIDE DEF last
<1>8. /\ DOMAIN targets = users
      /\ \A u \in users : targets[u] \in Windows /\ targets[u] <= n + 1
      /\ \A u \in users : targets[u] = n + 1 \/ (u \in DOMAIN last /\ targets[u] = last[u])
      /\ targets \in [users -> Windows]
      /\ new = [revision |-> n + 1, targets |-> targets]
  <2>1. /\ targets = [u \in users |-> IF u \in DOMAIN last \ renewed THEN last[u] ELSE n + 1]
        /\ new = [revision |-> n + 1, targets |-> targets]
    BY DEF NewPolicy, Revision, n, last
  <2> HIDE DEF targets, new
  <2> QED BY <1>1, <1>6, <1>7, <2>1 DEF Windows
<1>9. targets \in Policies
  <2>1. targets \in [users -> Windows]
    BY <1>8
  <2> QED BY <2>1 DEF Policies
<1> HIDE DEF targets, new
<1>10. new.revision = n + 1 /\ new.targets = targets /\ new \notin issued
  BY <1>3, <1>8
<1>11. IsFiniteSet(issued') /\ Cardinality(issued') = n + 1
  BY <1>1, <1>2, <1>10, FS_AddElement DEF n
<1>12. PoliciesAreOrdered'
  <2>1. Cardinality(issued') <= MaxWindows
    BY <1>2, <1>11
  <2>2. issued' \subseteq [revision : 1..Cardinality(issued'), targets : Policies]
    <3>1. issued \subseteq [revision : 1..n, targets : Policies]
      BY DEF IInv, PoliciesAreOrdered, n
    <3>2. issued \subseteq [revision : 1..(n + 1), targets : Policies]
      BY <1>1, <3>1
    <3>3. new \in [revision : 1..(n + 1), targets : Policies]
      BY <1>1, <1>8, <1>9
    <3> QED BY <1>2, <1>11, <3>2, <3>3
  <2>3. \A r \in 1..Cardinality(issued') : \E p \in issued' : p.revision = r
    <3> SUFFICES ASSUME NEW r \in 1..(n + 1) PROVE \E p \in issued' : p.revision = r
      BY <1>11
    <3>1. CASE r = n + 1
      BY <1>2, <1>10, <3>1
    <3>2. CASE r # n + 1
      <4>1. r \in 1..n
        BY <1>1, <3>2
      <4>2. \E p \in issued : p.revision = r
        BY <4>1 DEF IInv, PoliciesAreOrdered, n
      <4> QED BY <1>2, <4>2
    <3> QED BY <3>1, <3>2
  <2>4. \A p \in issued', u \in Users : u \in DOMAIN p.targets => p.targets[u] <= p.revision
    <3>1. \A u \in DOMAIN new.targets : new.targets[u] <= new.revision
      BY <1>8, <1>10
    <3>2. \A p \in issued, u \in Users : u \in DOMAIN p.targets => p.targets[u] <= p.revision
      BY DEF IInv, PoliciesAreOrdered
    <3> QED BY <1>2, <3>1, <3>2
  <2>5. \A p, q \in issued' : p.revision = q.revision => p = q
    <3>1. \A p, q \in issued : p.revision = q.revision => p = q
      BY DEF IInv, PoliciesAreOrdered
    <3>2. \A p \in issued : p.revision # new.revision
      BY <1>3, <1>10
    <3> QED BY <1>2, <3>1, <3>2
  <2>6. ASSUME NEW p \in issued', NEW q \in issued', q.revision <= p.revision, NEW u \in DOMAIN p.targets
        PROVE  \/ u \in DOMAIN q.targets /\ p.targets[u] = q.targets[u]
               \/ q.revision < p.targets[u]
    <3>1. CASE p \in issued /\ q \in issued
      BY <2>6, <3>1 DEF IInv, PoliciesAreOrdered
    <3>2. CASE p = new /\ q = new
      BY <3>2
    <3>3. CASE p \in issued /\ q = new
      BY <1>1, <1>3, <1>10, <2>6, <3>3
    <3>4. CASE p = new /\ q \in issued
      <4>1. u \in users /\ p.targets[u] = targets[u] /\ q.revision \in 1..n
        BY <1>3, <1>8, <1>10, <3>4
      <4>2. CASE targets[u] = n + 1
        BY <1>1, <4>1, <4>2
      <4>3. CASE u \in DOMAIN last /\ targets[u] = last[u]
        <5>1. newest \in issued /\ last = newest.targets /\ newest.revision = n
          BY <1>4, <1>5, <4>3
        <5>2. q.revision <= newest.revision /\ u \in DOMAIN newest.targets
          BY <4>1, <4>3, <5>1
        <5>3. \/ u \in DOMAIN q.targets /\ newest.targets[u] = q.targets[u]
              \/ q.revision < newest.targets[u]
          BY <3>4, <5>1, <5>2 DEF IInv, PoliciesAreOrdered
        <5> QED BY <4>1, <4>3, <5>1, <5>3
      <4> QED BY <1>8, <4>1, <4>2, <4>3
    <3> QED BY <1>2, <3>1, <3>2, <3>3, <3>4
  <2> QED BY <1>11, <2>1, <2>2, <2>3, <2>4, <2>5, <2>6 DEF PoliciesAreOrdered
<1>13. PolicyIsIssued'
  BY <1>2 DEF IInv, PolicyIsIssued
<1>14. Delivery'
  BY <1>2, DeliveryUnchanged DEF IInv
<1>15. EnvironmentTyped'
  BY <1>2, <1>6 DEF IInv, EnvironmentTyped
<1>16. BytesGrow'
  <2> SUFFICES ASSUME NEW c \in Conns
               PROVE  /\ sent[c] <= total[c] /\ (conn[c] = "none" => total[c] = 0)
                      /\ \A w \in Windows : /\ atEnable'[w][c] <= total[c]
                                            /\ connThen'[w][c] = "none" => atEnable'[w][c] = 0
    BY <1>2 DEF BytesGrow
  <2>1. /\ sent[c] <= total[c] /\ (conn[c] = "none" => total[c] = 0)
        /\ \A w \in Windows : /\ atEnable[w][c] <= total[c]
                              /\ connThen[w][c] = "none" => atEnable[w][c] = 0
    BY DEF IInv, BytesGrow
  <2>2. ASSUME NEW w \in Windows
        PROVE  /\ atEnable'[w][c] <= total[c]
               /\ connThen'[w][c] = "none" => atEnable'[w][c] = 0
    <3>1. CASE w = n + 1
      <4>1. atEnable'[w] = total /\ connThen'[w] = conn /\ total[c] \in Int
        BY <1>2, <3>1 DEF IInv, EnvironmentTyped
      <4> QED BY <2>1, <4>1
    <3>2. CASE w # n + 1
      <4>1. atEnable'[w] = atEnable[w] /\ connThen'[w] = connThen[w]
        BY <1>2, <3>2 DEF IInv, EnvironmentTyped
      <4> QED BY <2>1, <4>1
    <3> QED BY <3>1, <3>2
  <2> QED BY <2>1, <2>2
<1>17. RecordsAreHonest'
  <2> SUFFICES ASSUME NEW x \in DOMAIN records PROVE Honest(x, records[x])'
    BY <1>2 DEF RecordsAreHonest, deliveryVars
  <2>1. x[1] \in Windows /\ Honest(x, records[x])
    BY KeyParts DEF IInv, Delivery, StoreTyped, RecordsAreHonest
  <2>2. x[1] <= n /\ x[1] <= n + 1 /\ x[1] # n + 1
    BY <1>1, <2>1 DEF Honest, n, Windows
  <2>3. atEnable'[x[1]] = atEnable[x[1]]
    BY <1>2, <2>1, <2>2 DEF IInv, EnvironmentTyped
  <2> QED BY <1>2, <1>11, <2>1, <2>2, <2>3 DEF Honest, deliveryVars
<1> QED BY <1>12, <1>13, <1>14, <1>15, <1>16, <1>17 DEF IInv

LEMMA ExchangeKeeps ==
  ASSUME IInv, Exchange
  PROVE  IInv'
<1>1. /\ UNCHANGED <<policy, lease, stream, replay, sent, conn, total, issued, atEnable, connThen>>
      /\ UNCHANGED records
  BY DEF Exchange, Pull, Book, HandleAck, storeVars, streamVars, coreVars, panelVars, historyVars
<1>2. Delivery'
  <2>1. CASE Pull
    BY <2>1, PullDelivers DEF IInv
  <2>2. ASSUME NEW b \in batches, Book(b) PROVE Delivery'
    BY <2>2, BookDelivers DEF IInv
  <2>3. ASSUME NEW through \in acks, HandleAck(through) PROVE Delivery'
    BY <2>3, AckDelivers DEF IInv, HandleAck, panelVars
  <2> QED BY <2>1, <2>2, <2>3 DEF Exchange
<1>3. EnvironmentTyped' /\ BytesGrow' /\ RecordsAreHonest'
  BY <1>1 DEF IInv, EnvironmentTyped, BytesGrow, RecordsAreHonest, Honest
<1> QED BY <1>1, <1>2, <1>3, PoliciesUnchanged DEF IInv

LEMMA PruneKeeps ==
  ASSUME IInv, NEW old \in SUBSET DOMAIN records, DoPrune(old)
  PROVE  IInv'
<1>1. /\ Prune(old)
      /\ UNCHANGED <<policy, lease, stream, replay, sent, conn, total, issued, atEnable, connThen>>
      /\ UNCHANGED <<sequence, batches, acks, booked>>
  BY DEF DoPrune, streamVars, coreVars, panelVars, historyVars
<1>2. Delivery'
  BY <1>1, PruneDelivers DEF IInv
<1>3. EnvironmentTyped' /\ BytesGrow'
  BY <1>1 DEF IInv, EnvironmentTyped, BytesGrow
<1>4. RecordsAreHonest'
  BY <1>1 DEF IInv, RecordsAreHonest, Honest, Prune
<1> QED BY <1>1, <1>2, <1>3, <1>4, PoliciesUnchanged DEF IInv

LEMMA StutterKeeps ==
  ASSUME IInv, UNCHANGED vars
  PROVE  IInv'
<1>1. /\ UNCHANGED <<policy, lease, stream, replay, sent, conn, total, issued, atEnable, connThen>>
      /\ UNCHANGED deliveryVars
  BY DEF vars, storeVars, streamVars, coreVars, panelVars, historyVars, deliveryVars
<1>2. Delivery'
  BY <1>1, DeliveryUnchanged DEF IInv
<1>3. EnvironmentTyped' /\ BytesGrow' /\ RecordsAreHonest'
  BY <1>1 DEF IInv, EnvironmentTyped, BytesGrow, RecordsAreHonest, Honest, deliveryVars
<1> QED BY <1>1, <1>2, <1>3, PoliciesUnchanged DEF IInv

LEMMA InitHolds ==
  ASSUME Init
  PROVE  IInv
<1>1. DOMAIN Empty = {} /\ Empty \in [{} -> Windows]
  BY DEF Empty
<1>2. Empty \in Policies
  BY <1>1 DEF Policies
<1>3. IsFiniteSet({}) /\ Cardinality({}) = 0
  BY FS_EmptySet
<1>4. SizeOf(DOMAIN records) = 0
  <2>1. DOMAIN records = {} /\ {k \in DOMAIN records : records[k].closed} = {}
    BY <1>1 DEF Init
  <2> QED BY <1>3, <2>1 DEF SizeOf
<1>5. /\ DOMAIN records = {} /\ DOMAIN pending = {} /\ DOMAIN index = {} /\ DOMAIN booked = {}
      /\ sequence = 0 /\ recordCount = 0 /\ bytes = 0 /\ batches = {} /\ acks = {} /\ issued = {}
  BY <1>1 DEF Init
<1>6. StoreTyped /\ VersionsAreUnique /\ QueueNamesVersions /\ IndexNamesRecords
  BY <1>5, AuditAssumption
     DEF StoreTyped, VersionsAreUnique, QueueNamesVersions, IndexNamesRecords
<1>7. CountersAreExact
  BY <1>3, <1>4, <1>5, AuditAssumption DEF CountersAreExact
<1>8. BatchesAreCurrent /\ BookedIsPast /\ AckedIsBooked /\ NothingLost
  BY <1>5 DEF BatchesAreCurrent, BookedIsPast, AckedIsBooked, NothingLost
<1>9. EnvironmentTyped
  <2>1. policy \in [revision : 0..MaxWindows, targets : Policies]
    BY <1>2, AuditAssumption DEF Init
  <2>2. total \in [Conns -> 0..MaxTotal] /\ sent \in [Conns -> 0..MaxTotal]
        /\ atEnable \in [Windows -> [Conns -> 0..MaxTotal]]
    BY AuditAssumption DEF Init
  <2>3. /\ lease \in {"valid", "expired", "zero"} /\ stream \in BOOLEAN /\ replay \subseteq Conns
        /\ conn \in [Conns -> {"none", "open", "closed"}]
        /\ connThen \in [Windows -> [Conns -> {"none", "open", "closed"}]]
    BY DEF Init
  <2> QED BY <2>1, <2>2, <2>3 DEF EnvironmentTyped
<1>10. BytesGrow
  BY DEF Init, BytesGrow
<1>11. RecordsAreHonest
  BY <1>5 DEF RecordsAreHonest
<1>12. PoliciesAreOrdered /\ PolicyIsIssued
  BY <1>3, <1>5, AuditAssumption DEF PoliciesAreOrdered, PolicyIsIssued, Init
<1> QED BY <1>6, <1>7, <1>8, <1>9, <1>10, <1>11, <1>12 DEF IInv, Delivery

LEMMA NextKeeps ==
  ASSUME IInv, [Next]_vars
  PROVE  IInv'
<1>1. CASE UNCHANGED vars
  BY <1>1, StutterKeeps
<1>2. CASE \E users, renewed \in SUBSET Users : Issue(users, renewed)
  BY <1>2, IssueKeeps
<1>3. CASE \E p \in issued : HandleConfigure(p)
  BY <1>3, ConfigureKeeps
<1>4. CASE LeaseExpires \/ Subscribe \/ StreamBreaks \/ AgentRestarts
  BY <1>4, SwitchKeeps
<1>5. CASE \E c \in Conns : Present(c) \/ Update(c) \/ Opens(c) \/ Carries(c) \/ Closes(c)
  BY <1>5, PresentKeeps, UpdateKeeps, OpensKeeps, CarriesKeeps, ClosesKeeps
<1>6. CASE Exchange
  BY <1>6, ExchangeKeeps
<1>7. CASE \E old \in SUBSET DOMAIN records : DoPrune(old)
  BY <1>7, PruneKeeps
<1> QED BY <1>1, <1>2, <1>3, <1>4, <1>5, <1>6, <1>7 DEF Next

\* The strengthened invariant holds in every state the store, the stream and
\* the panel can reach.
THEOREM Inductive == Spec => []IInv
<1>1. Init => IInv
  BY InitHolds
<1>2. IInv /\ [Next]_vars => IInv'
  BY NextKeeps
<1> QED BY <1>1, <1>2, PTL DEF Spec

-----------------------------------------------------------------------------
\* What follows for the properties.

\* Apply, Ack and Prune keep the buckets of the store consistent and the
\* counters that enforce its limits exact.
THEOREM BucketSafety == Spec => []BucketsAgree
<1>1. IInv => BucketsAgree
  BY TypeIs DEF IInv, Delivery, BucketsAgree, QueueNamesVersions, IndexNamesRecords,
     CountersAreExact
<1> QED BY <1>1, Inductive, PTL

\* The current version of every record is in the queue or with the panel,
\* whatever late or repeated acknowledgements Ack gets.
THEOREM DeliverySafety == Spec => []NothingLost
<1>1. IInv => NothingLost
  BY DEF IInv, Delivery
<1> QED BY <1>1, Inductive, PTL

\* A record shows at most what its connection carried since the user was
\* enabled, however totals are replayed and deltas, drops and prunes mix.
THEOREM CountingSafety == Spec => []NeverOvercounts
<1>1. IInv => NeverOvercounts
  <2> SUFFICES ASSUME IInv, NEW k \in DOMAIN records
               PROVE  /\ records[k].last <= total[k[2]]
                      /\ records[k].last - records[k].base <= total[k[2]] - atEnable[k[1]][k[2]]
    BY DEF NeverOvercounts
  <2>1. k \in Keys /\ records[k] \in Record /\ Honest(k, records[k])
    BY DEF IInv, Delivery, StoreTyped, RecordsAreHonest
  <2>2. k[1] \in Windows /\ k[2] \in Conns
    BY <2>1, KeyParts
  <2>3. total[k[2]] \in Int /\ atEnable[k[1]][k[2]] \in Int
    BY <2>2 DEF IInv, EnvironmentTyped
  <2>4. records[k].last \in Int /\ records[k].base \in Int
    BY <2>1 DEF Record
  <2> QED BY <2>1, <2>3, <2>4 DEF Honest
<1> QED BY <1>1, Inductive, PTL

\* What an event writes is under the window that the policy has for the user.
LEMMA EventSelects ==
  ASSUME NEW c \in Conns, Recorded(c), NEW k \in DOMAIN records',
         k \notin DOMAIN records \/ records'[k] # records[k]
  PROVE  /\ lease = "valid"
         /\ UserOf[k[2]] \in DOMAIN policy.targets /\ policy.targets[UserOf[k[2]]] = k[1]
<1>1. ~UNCHANGED records
  OBVIOUS
<1>2. PICK j \in Keys, d \in Draft : Writes(c, j, d) /\ Store(j, d)
  BY <1>1 DEF Recorded, storeVars, Writes, Apply
<1>3. k = j
  BY <1>2 DEF Store, Put
<1> QED BY <1>2, <1>3 DEF Writes

\* Traffic is recorded only under the window that the newest accepted policy
\* has for the user, while its lease is valid.
THEOREM SelectionSafety == Spec => OnlySelectedRecorded
<1> DEFINE Selects ==
      \A k \in DOMAIN records' :
        k \notin DOMAIN records \/ records'[k] # records[k] =>
          /\ lease = "valid"
          /\ UserOf[k[2]] \in DOMAIN policy.targets /\ policy.targets[UserOf[k[2]]] = k[1]
<1>1. IInv /\ [Next]_vars => [Selects]_vars
  <2> SUFFICES ASSUME IInv, Next PROVE Selects
    OBVIOUS
  <2>1. ASSUME NEW c \in Conns, Recorded(c) PROVE Selects
    BY <2>1, EventSelects
  <2>2. CASE UNCHANGED records
    BY <2>2
  <2>3. ASSUME NEW c \in Conns, Present(c) PROVE Selects
    <3>1. (conn[c] = "closed") \in BOOLEAN
      OBVIOUS
    <3> QED BY <2>1, <2>3, <3>1, ConnectionRecorded DEF Present
  <2>4. ASSUME NEW c \in Conns, Update(c) PROVE Selects
    <3>1. total[c] - sent[c] \in Nat /\ conn[c] = "open"
      BY <2>4 DEF Update, IInv, EnvironmentTyped
    <3> QED BY <2>1, <2>4, <3>1, DeltaRecorded DEF Update
  <2>5. ASSUME NEW c \in Conns, Closes(c) PROVE Selects
    <3>1. CASE ApplyConnection(c, TRUE)
      BY <2>1, <3>1, ConnectionRecorded
    <3>2. CASE ApplyDelta(c, 0, TRUE)
      BY <2>1, <3>2, DeltaRecorded
    <3>3. CASE Ignored
      BY <2>2, <3>3 DEF Ignored, storeVars
    <3> QED BY <2>5, <3>1, <3>2, <3>3 DEF Closes
  <2>6. ASSUME NEW old \in SUBSET DOMAIN records, DoPrune(old) PROVE Selects
    BY <2>6 DEF DoPrune, Prune
  <2>7. ASSUME NEW c \in Conns, Opens(c) \/ Carries(c) PROVE UNCHANGED records
    BY <2>7 DEF Opens, Carries, storeVars
  <2>8. ASSUME LeaseExpires \/ Subscribe \/ StreamBreaks \/ AgentRestarts \/ Exchange
        PROVE  UNCHANGED records
    BY <2>8 DEF LeaseExpires, Subscribe, StreamBreaks, AgentRestarts, Exchange, Pull, Book,
       HandleAck,
         storeVars
  <2>9. ASSUME NEW p, HandleConfigure(p) PROVE UNCHANGED records
    BY <2>9 DEF HandleConfigure
  <2>10. ASSUME NEW users, NEW renewed, Issue(users, renewed) PROVE UNCHANGED records
    BY <2>10 DEF Issue, storeVars
  <2> HIDE DEF Selects
  <2> QED BY <2>2, <2>3, <2>4, <2>5, <2>6, <2>7, <2>8, <2>9, <2>10 DEF Next
<1> QED BY <1>1, Inductive, PTL DEF Spec, OnlySelectedRecorded

\* Once a policy without a window was accepted, no late or repeated request
\* selects the window again.
THEOREM PolicySafety == Spec => ClosedWindowStaysClosed
<1> DEFINE Newer ==
      \A u \in DOMAIN policy'.targets :
        u \notin DOMAIN policy.targets \/ policy'.targets[u] # policy.targets[u] =>
          policy'.targets[u] > policy.revision
<1>1. IInv /\ [Next]_vars => [Newer]_vars
  <2> SUFFICES ASSUME IInv, Next PROVE Newer
    OBVIOUS
  <2>1. CASE UNCHANGED policy
    BY <2>1
  <2>2. ASSUME NEW p \in issued, HandleConfigure(p) PROVE Newer
    <3> SUFFICES ASSUME NEW u \in DOMAIN p.targets,
                        u \notin DOMAIN policy.targets \/ p.targets[u] # policy.targets[u]
                 PROVE  p.targets[u] > policy.revision
      BY <2>2 DEF HandleConfigure, Configure
    <3>1. p.targets \in Policies /\ p.revision >= policy.revision
      BY <2>2 DEF HandleConfigure, Configure, IInv, PoliciesAreOrdered
    <3>2. p.targets[u] \in Windows
      <4>1. PICK U \in SUBSET Users : p.targets \in [U -> Windows]
        BY <3>1 DEF Policies
      <4> QED BY <4>1
    <3>3. CASE policy.revision = 0
      BY <3>2, <3>3 DEF Windows
    <3>4. CASE policy \in issued
      <4>1. policy.revision \in Int /\ p.revision \in Int
        BY <3>4 DEF IInv, PoliciesAreOrdered
      <4> QED BY <3>1, <3>2, <3>4, <4>1 DEF IInv, PoliciesAreOrdered, Windows
    <3> QED BY <3>3, <3>4 DEF IInv, PolicyIsIssued
  <2>3. ASSUME NEW c \in Conns, Present(c) \/ Update(c) \/ Opens(c) \/ Carries(c) \/ Closes(c)
        PROVE  UNCHANGED policy
    BY <2>3 DEF Present, Update, Opens, Carries, Closes, ApplyConnection, ApplyDelta, Apply,
       Ignored,
         storeVars
  <2>4. ASSUME LeaseExpires \/ Subscribe \/ StreamBreaks \/ AgentRestarts \/ Exchange
        PROVE  UNCHANGED policy
    BY <2>4 DEF LeaseExpires, Subscribe, StreamBreaks, AgentRestarts, Exchange, Pull, Book,
       HandleAck,
         storeVars
  <2>5. ASSUME NEW old, DoPrune(old) PROVE UNCHANGED policy
    BY <2>5 DEF DoPrune
  <2>6. ASSUME NEW users, NEW renewed, Issue(users, renewed) PROVE UNCHANGED policy
    BY <2>6 DEF Issue, storeVars
  <2> HIDE DEF Newer
  <2> QED BY <2>1, <2>2, <2>3, <2>4, <2>5, <2>6 DEF Next
<1> QED BY <1>1, Inductive, PTL DEF Spec, ClosedWindowStaysClosed
=============================================================================
