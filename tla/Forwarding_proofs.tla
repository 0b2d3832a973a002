------------------------- MODULE Forwarding_proofs --------------------------
(***************************************************************************)
(* Proofs about Forwarding: for all rules, core configurations, addresses  *)
(* and numbers of faults, restarts and DNS changes, the state file holds   *)
(* the last acknowledged configuration and follows the memory, the status  *)
(* "applied" means that the kernel and the firewall do what is reported,   *)
(* and no port is claimed twice.                                           *)
(***************************************************************************)
EXTENDS Forwarding, TLAPS

Applying == {"firewall", "table", "persist"}

\* A call is idle, at the restore of a new agent or at a step of an apply.
CallIsKnown ==
  /\ call.step = "idle" => call = NoCall
  /\ call.step = "restore" => call = Restoring /\ appliedHash = None /\ listens = {}
  /\ call.step \in Applying => ~Conflicts(call.targets)
  /\ call.step \in {"table", "persist"} => chain = FirewallOf(call.targets)
  /\ call.step = "persist" => table \in {None, [hash |-> call.hash, targets |-> call.targets]}
  /\ call.kind = "refresh" => appliedHash # None

\* Memory is what the state file says, or empty.
MemoryIsDisk ==
  /\ appliedHash # None => disk # None /\ disk.hash = appliedHash /\ disk.resolved = resolved
  /\ appliedHash = None => applied = Nothing /\ resolved = Nothing
  /\ DOMAIN resolved = DOMAIN applied

\* The file has an address for every rule, and its rules exclude each other.
FileIsSound ==
  disk # None => DOMAIN disk.resolved = DOMAIN disk.config /\ ~RuleConflict(DOMAIN disk.config)

\* Unless an apply did not get to the end, the table is the one of the file.
TableIsDisk ==
  call.step # "persist" /\ ~unpersisted /\ table # None =>
    disk # None /\ table.hash = disk.hash /\ table.targets = disk.resolved

\* Only a restore that failed leaves a file that is not in memory.
LoadedUnlessError == call.step # "restore" /\ ~lastError /\ disk # None => appliedHash # None

RulesAreFree == ~Conflicts(applied)

\* Without a file of an earlier release every target is an address, and an
\* undisturbed chain lets exactly the flows in memory pass.
NoHostsLeft ==
  ~earlier =>
    /\ applied = resolved
    /\ disk # None => disk.config = disk.resolved
    /\ ~lastError /\ call.step = "idle" /\ DOMAIN applied # {} => chain = FirewallOf(resolved)

IInv ==
  /\ TypeOK
  /\ CallIsKnown
  /\ MemoryIsDisk
  /\ FileIsSound
  /\ TableIsDisk
  /\ LoadedUnlessError
  /\ RulesAreFree
  /\ NoHostsLeft
-----------------------------------------------------------------------------
\* Configurations.

LEMMA ResolvedShape ==
  ASSUME NEW c \in Resolved
  PROVE  c \in Configs /\ c \in [DOMAIN c -> Addresses] /\ DOMAIN c \in SUBSET Rules
<1>1. PICK R \in SUBSET Rules : c \in [R -> Addresses]
  BY DEF Resolved, PartialFunctions
<1>2. c \in [R -> Addresses \cup {Host}]
  BY <1>1
<1> QED BY <1>1, <1>2 DEF Configs, PartialFunctions

LEMMA ConfigShape ==
  ASSUME NEW c \in Configs
  PROVE  c \in [DOMAIN c -> Addresses \cup {Host}] /\ DOMAIN c \in SUBSET Rules
BY DEF Configs, PartialFunctions

LEMMA EmptyIsNothing ==
  /\ Nothing \in Resolved /\ Nothing \in Configs /\ DOMAIN Nothing = {}
  /\ \A c \in Configs : DOMAIN c = {} => c = Nothing
<1>1. Nothing \in [{} -> Addresses] /\ Nothing \in [{} -> Addresses \cup {Host}]
  BY DEF Nothing
<1>2. Nothing \in Resolved /\ Nothing \in Configs
  BY <1>1 DEF Resolved, Configs, PartialFunctions
<1>3. ASSUME NEW c \in Configs, DOMAIN c = {} PROVE c = Nothing
  BY <1>3, <1>1, ConfigShape
<1> QED BY <1>1, <1>2, <1>3

\* A validation that fails keeps the rules and changes their targets at most.
LEMMA PartlyShape ==
  ASSUME NEW c \in Configs, NEW known, NEW partly \in PartlyResolved(c, known)
  PROVE  partly \in Configs /\ DOMAIN partly = DOMAIN c
<1>1. partly \in [DOMAIN c -> Addresses \cup {Host}] /\ DOMAIN c \in SUBSET Rules
  BY ConfigShape DEF PartlyResolved
<1> QED BY <1>1 DEF Configs, PartialFunctions

\* An address is what it resolves to.
LEMMA AddressesStay ==
  ASSUME NEW c \in Resolved, NEW known
  PROVE  /\ ~HasHostname(c)
         /\ \A targets \in Resolved : Validates(c, known, targets) => targets = c
         /\ \A partly \in PartlyResolved(c, known) : partly = c
<1>1. c \in [DOMAIN c -> Addresses] /\ \A r \in DOMAIN c : c[r] # Host
  BY ResolvedShape, ForwardingAssumption
<1>2. ASSUME NEW targets \in Resolved, Validates(c, known, targets) PROVE targets = c
  <2>1. DOMAIN targets = DOMAIN c /\ \A r \in DOMAIN c : targets[r] = c[r]
    BY <1>1, <1>2 DEF Validates, ResolvesTo
  <2>2. targets \in [DOMAIN c -> Addresses]
    BY <2>1, ResolvedShape
  <2> QED BY <1>1, <2>1, <2>2
<1>3. ASSUME NEW partly \in PartlyResolved(c, known) PROVE partly = c
  <2>1. partly \in [DOMAIN c -> Addresses \cup {Host}] /\ \A r \in DOMAIN c : partly[r] = c[r]
    BY <1>1 DEF PartlyResolved, ResolvesTo
  <2> QED BY <1>1, <2>1
<1>4. ~HasHostname(c)
  BY <1>1 DEF HasHostname
<1> QED BY <1>2, <1>3, <1>4

\* Without a core there is nothing to meet, and no rules meet nobody.
LEMMA NothingToMeet ==
  /\ \A rules : ~CoreConflict(rules, {})
  /\ \A inbounds : ~CoreConflict({}, inbounds)
  /\ ~RuleConflict({})
BY DEF CoreConflict, CoreListeners, RuleConflict

\* What the checks of the sync and of Start compare covers what sing-box opens
\* and what nftables redirects.
LEMMA ConflictFreeIsApart ==
  ASSUME listens \in CoreConfigs \cup {{}}, NEW rules \in SUBSET Rules,
         ~RuleConflict(rules), ~CoreConflict(rules, listens)
  PROVE  Apart(rules)
<1>1. ASSUME NEW left \in rules, NEW right \in rules, left # right, left.port = right.port,
             NEW p \in Redirects(left) \cap Redirects(right)
      PROVE  FALSE
  <2>1. protocolsOverlap(left.protocol, right.protocol)
    BY DEF Redirects, protocolsOverlap
  <2> QED BY <1>1, <2>1 DEF RuleConflict, SamePort
<1>2. ASSUME NEW r \in rules, NEW i \in listens, r.port = i.port, NEW p \in Redirects(r) \cap Opens(i)
      PROVE  FALSE
  <2>1. i \in UNION CoreConfigs /\ i.type \in {"vless", "tuic", "shadowsocks"}
    BY ForwardingAssumption
  <2>2. i.listen = "any" /\ p \in Native[i.type] /\ (i.network = {} \/ p \in i.network)
    BY DEF Opens
  <2>3. p \in inferProtocols(i)
    BY <2>1, <2>2 DEF inferProtocols, Native
  <2>4. i.port # 0 /\ i.listen # "loopback"
    BY <1>2, <2>2, ForwardingAssumption
  <2> DEFINE listener == [port |-> i.port, protocol |-> p]
  <2>5. listener \in [port : {i.port}, protocol : inferProtocols(i)]
    BY <2>3
  <2>6. listener \in CoreListeners(listens)
    BY <2>4, <2>5 DEF CoreListeners
  <2>7. SamePort(r, listener)
    BY <1>2 DEF SamePort, protocolsOverlap, Redirects
  <2> QED BY <2>6, <2>7 DEF CoreConflict
<1> QED BY <1>1, <1>2 DEF Apart

-----------------------------------------------------------------------------
\* The invariant holds initially, and every action preserves it.

LEMMA FaultType ==
  ASSUME TypeOK, Fault
  PROVE  faults' \in [failed : 0..MaxFaults, agent : 0..MaxRestarts, dns : 0..MaxDNSChanges]
BY ForwardingAssumption DEF TypeOK, Fault

\* persistCurrentLocked, with rules in memory that still have an address each.
LEMMA PersistCurrentType ==
  ASSUME TypeOK, PersistCurrent, applied' \in Configs, dnsStale' \in BOOLEAN
  PROVE  /\ disk' \in {disk, [config |-> applied', hash |-> appliedHash, resolved |-> resolved,
                              stale |-> dnsStale']}
         /\ appliedHash = None => disk' = disk
         /\ disk' \in File \cup {None}
         /\ faults' \in [failed : 0..MaxFaults, agent : 0..MaxRestarts, dns : 0..MaxDNSChanges]
BY FaultType DEF TypeOK, PersistCurrent, File

LEMMA NoneApart ==
  /\ \A c \in Configs : c # None
  /\ \A f \in File : f # None
  /\ \A t \in Table : t # None
BY ForwardingAssumption

\* Writing what is in memory to the file changes neither its hash nor its
\* addresses, and keeps its rules apart.
LEMMA FileRewritten ==
  ASSUME TypeOK, MemoryIsDisk, FileIsSound, RulesAreFree,
         NEW cfg \in Configs, DOMAIN cfg = DOMAIN applied, NEW stale \in BOOLEAN,
         \/ disk' = disk
         \/ appliedHash # None /\ disk' = [config |-> cfg, hash |-> appliedHash,
                                           resolved |-> resolved, stale |-> stale]
  PROVE  /\ disk' \in File \cup {None}
         /\ disk' = None <=> disk = None
         /\ disk # None => disk'.hash = disk.hash /\ disk'.resolved = disk.resolved
         /\ disk # None => disk'.config \in {disk.config, cfg}
         /\ FileIsSound'
<1>1. CASE disk' = disk
  BY <1>1 DEF TypeOK, FileIsSound
<1>2. CASE appliedHash # None /\ disk' = [config |-> cfg, hash |-> appliedHash,
                                          resolved |-> resolved, stale |-> stale]
  <2>1. disk # None /\ disk.hash = appliedHash /\ disk.resolved = resolved
    BY <1>2 DEF MemoryIsDisk
  <2>2. disk' \in File /\ disk'.hash = appliedHash /\ disk'.resolved = resolved /\ disk'.config = cfg
    BY <1>2 DEF TypeOK, File
  <2>3. disk' # None
    BY <2>2, NoneApart
  <2>4. FileIsSound'
    BY <2>2 DEF FileIsSound, MemoryIsDisk, RulesAreFree, Conflicts
  <2> QED BY <2>1, <2>2, <2>3, <2>4
<1> QED BY <1>1, <1>2

\* What a new agent finds before it has read the file.
LEMMA RestoreStarts ==
  ASSUME IInv, call = Restoring, disk # None
  PROVE  /\ disk \in File /\ disk.config \in Configs /\ disk.resolved \in Resolved
         /\ disk.resolved \in Configs /\ disk.hash \in Configs /\ disk.hash # None
         /\ disk.stale \in BOOLEAN
         /\ DOMAIN disk.resolved = DOMAIN disk.config
         /\ ~RuleConflict(DOMAIN disk.config)
         /\ \A rules : ~CoreConflict(rules, listens)
         /\ ~earlier => disk.config = disk.resolved
<1>1. disk \in File /\ disk.config \in Configs /\ disk.resolved \in Resolved /\ disk.hash \in Configs
      /\ disk.stale \in BOOLEAN
  BY DEF IInv, TypeOK, File
<1>2. disk.resolved \in Configs /\ disk.hash # None
  BY <1>1, ResolvedShape, NoneApart
<1>3. listens = {}
  BY DEF IInv, CallIsKnown, Restoring, NoCall
<1> QED BY <1>1, <1>2, <1>3, NothingToMeet DEF IInv, FileIsSound, NoHostsLeft

\* Host names are left only of a file of an earlier release, and in memory.
LEMMA RefreshStarts ==
  ASSUME IInv, HasHostname(applied)
  PROVE  appliedHash # None /\ earlier
<1>1. appliedHash # None
  BY EmptyIsNothing DEF IInv, MemoryIsDisk, HasHostname
<1>2. earlier
  BY AddressesStay DEF IInv, NoHostsLeft, TypeOK
<1> QED BY <1>1, <1>2

LEMMA UpdateChainKeeps ==
  ASSUME IInv, UpdateChain
  PROVE  IInv'
<1> USE DEF IInv
<1>1. TypeOK'
  BY EmptyIsNothing DEF TypeOK, memory, Steps, NoCall, Restoring, File, Table, UpdateChain,
     Proceed, FirewallOf
<1>2. CallIsKnown'
  BY DEF TypeOK, CallIsKnown, NoCall, Restoring, Applying, memory, Steps, Conflicts, UpdateChain,
     Proceed, FirewallOf
<1>3. MemoryIsDisk'
  BY DEF TypeOK, MemoryIsDisk, memory, UpdateChain, Proceed, FirewallOf
<1>4. FileIsSound'
  BY DEF TypeOK, FileIsSound, memory, MemoryIsDisk, RulesAreFree, UpdateChain, Proceed, FirewallOf
<1>5. TableIsDisk'
  BY DEF TypeOK, TableIsDisk, CallIsKnown, memory, MemoryIsDisk, NoCall, Restoring, UpdateChain,
     Proceed, FirewallOf
<1>6. LoadedUnlessError'
  BY DEF TypeOK, LoadedUnlessError, CallIsKnown, memory, NoCall, Restoring, UpdateChain, Proceed,
     FirewallOf
<1>7. RulesAreFree'
  BY DEF TypeOK, RulesAreFree, Conflicts, memory, CallIsKnown, MemoryIsDisk, UpdateChain, Proceed,
     FirewallOf
<1>8. NoHostsLeft'
  BY DEF TypeOK, NoHostsLeft, CallIsKnown, MemoryIsDisk, memory, NoCall, Restoring, UpdateChain,
     Proceed, FirewallOf
<1> QED BY <1>1, <1>2, <1>3, <1>4, <1>5, <1>6, <1>7, <1>8

LEMMA UpdateTableKeeps ==
  ASSUME IInv, UpdateTable
  PROVE  IInv'
<1> USE DEF IInv
<1>1. TypeOK'
  BY ForwardingAssumption DEF TypeOK, memory, Steps, NoCall, Restoring, File, Table, UpdateTable,
     Proceed
<1>2. CallIsKnown'
  BY DEF TypeOK, CallIsKnown, NoCall, Restoring, Applying, memory, Steps, Conflicts, UpdateTable,
     Proceed
<1>3. MemoryIsDisk'
  BY DEF TypeOK, MemoryIsDisk, memory, UpdateTable, Proceed
<1>4. FileIsSound'
  BY DEF TypeOK, FileIsSound, memory, MemoryIsDisk, RulesAreFree, UpdateTable, Proceed
<1>5. TableIsDisk'
  BY DEF TypeOK, TableIsDisk, CallIsKnown, memory, MemoryIsDisk, NoCall, Restoring, UpdateTable,
     Proceed
<1>6. LoadedUnlessError'
  BY DEF TypeOK, LoadedUnlessError, CallIsKnown, memory, NoCall, Restoring, UpdateTable, Proceed
<1>7. RulesAreFree'
  BY DEF TypeOK, RulesAreFree, Conflicts, memory, CallIsKnown, MemoryIsDisk, UpdateTable, Proceed
<1>8. NoHostsLeft'
  BY DEF TypeOK, NoHostsLeft, CallIsKnown, MemoryIsDisk, memory, NoCall, Restoring, UpdateTable,
     Proceed
<1> QED BY <1>1, <1>2, <1>3, <1>4, <1>5, <1>6, <1>7, <1>8

LEMMA PersistKeeps ==
  ASSUME IInv, Persist
  PROVE  IInv'
<1> USE DEF IInv
<1>1. call.hash \in Configs /\ call.targets \in Resolved /\ call.targets \in Configs
      /\ call.hash # None
  BY NoneApart, ResolvedShape DEF TypeOK
<1>2. disk' \in File /\ disk'.config = call.targets /\ disk'.hash = call.hash
      /\ disk'.resolved = call.targets
  BY <1>1 DEF Persist, File
<1>3. disk' # None
  BY <1>2, NoneApart
<1>4. applied' = call.targets /\ resolved' = call.targets /\ appliedHash' = call.hash
  BY DEF Persist
<1>5. NoCall \in [step : Steps, kind : {"none", "sync", "refresh", "restore"},
                    hash : Configs, targets : Resolved]
  BY EmptyIsNothing DEF NoCall, Steps
<1>6. TypeOK'
  BY <1>1, <1>2, <1>3, <1>4, <1>5 DEF TypeOK, memory, Steps, NoCall, Restoring, File, Table, Persist
<1>7. CallIsKnown'
  BY <1>1, <1>2, <1>3, <1>4, <1>5 DEF TypeOK, CallIsKnown, NoCall, Restoring, Applying, memory,
     Steps, Conflicts, Persist
<1>8. MemoryIsDisk'
  BY <1>1, <1>2, <1>3, <1>4, <1>5 DEF TypeOK, MemoryIsDisk, memory, Persist
<1>9. FileIsSound'
  BY <1>1, <1>2, <1>3, <1>4, <1>5 DEF TypeOK, FileIsSound, memory, MemoryIsDisk, RulesAreFree,
     Persist, Conflicts, CallIsKnown, Applying
<1>10. TableIsDisk'
  BY <1>1, <1>2, <1>3, <1>4, <1>5 DEF TypeOK, TableIsDisk, CallIsKnown, memory, MemoryIsDisk,
     NoCall, Restoring, Persist
<1>11. LoadedUnlessError'
  BY <1>1, <1>2, <1>3, <1>4, <1>5 DEF TypeOK, LoadedUnlessError, CallIsKnown, memory, NoCall,
     Restoring, Persist
<1>12. RulesAreFree'
  BY <1>1, <1>2, <1>3, <1>4, <1>5 DEF TypeOK, RulesAreFree, Conflicts, memory, CallIsKnown,
     MemoryIsDisk, Persist, Applying
<1>13. NoHostsLeft'
  BY <1>1, <1>2, <1>3, <1>4, <1>5 DEF TypeOK, NoHostsLeft, CallIsKnown, MemoryIsDisk, memory,
     NoCall, Restoring, Persist
<1> QED BY <1>6, <1>7, <1>8, <1>9, <1>10, <1>11, <1>12, <1>13

LEMMA ApplyFailsKeeps ==
  ASSUME IInv, ApplyFails
  PROVE  IInv'
<1> USE DEF IInv
<1>1. disk' = disk \/ (appliedHash # None /\ disk' = [config |-> applied, hash |-> appliedHash,
                                     resolved |-> resolved, stale |-> dnsStale])
  BY DEF ApplyFails, CallIsKnown
<1>2. disk' \in File \cup {None} /\ (disk' = None <=> disk = None)
      /\ (disk # None => disk'.hash = disk.hash /\ disk'.resolved = disk.resolved)
      /\ FileIsSound'
  BY <1>1, FileRewritten DEF TypeOK
<1>3. faults' \in [failed : 0..MaxFaults, agent : 0..MaxRestarts, dns : 0..MaxDNSChanges]
  BY FaultType DEF ApplyFails
<1>4. NoCall \in [step : Steps, kind : {"none", "sync", "refresh", "restore"},
                    hash : Configs, targets : Resolved]
  BY EmptyIsNothing DEF NoCall, Steps
<1>5. TypeOK'
  BY <1>1, <1>2, <1>3, <1>4 DEF TypeOK, memory, Steps, NoCall, Restoring, File, Table, ApplyFails,
     Applying
<1>6. CallIsKnown'
  BY <1>1, <1>2, <1>3, <1>4 DEF TypeOK, CallIsKnown, NoCall, Restoring, Applying, memory, Steps,
     Conflicts, ApplyFails
<1>7. MemoryIsDisk'
  BY <1>1, <1>2, <1>3, <1>4 DEF TypeOK, MemoryIsDisk, memory, ApplyFails, Applying
<1>8. FileIsSound'
  BY <1>1, <1>2, <1>3, <1>4 DEF TypeOK, FileIsSound, memory, MemoryIsDisk, RulesAreFree,
     ApplyFails, Applying
<1>9. TableIsDisk'
  BY <1>1, <1>2, <1>3, <1>4 DEF TypeOK, TableIsDisk, CallIsKnown, memory, MemoryIsDisk, NoCall,
     Restoring, ApplyFails, Applying
<1>10. LoadedUnlessError'
  BY <1>1, <1>2, <1>3, <1>4 DEF TypeOK, LoadedUnlessError, CallIsKnown, memory, NoCall, Restoring,
     ApplyFails, Applying
<1>11. RulesAreFree'
  BY <1>1, <1>2, <1>3, <1>4 DEF TypeOK, RulesAreFree, Conflicts, memory, CallIsKnown, MemoryIsDisk,
     ApplyFails, Applying
<1>12. NoHostsLeft'
  BY <1>1, <1>2, <1>3, <1>4 DEF TypeOK, NoHostsLeft, CallIsKnown, MemoryIsDisk, memory, NoCall,
     Restoring, ApplyFails, Applying
<1> QED BY <1>5, <1>6, <1>7, <1>8, <1>9, <1>10, <1>11, <1>12

LEMMA SyncKeeps ==
  ASSUME IInv, NEW cfg \in Configs, NEW targets \in Resolved, Sync(cfg, targets)
  PROVE  IInv'
<1> USE DEF IInv
<1>1. TypeOK'
  BY DEF TypeOK, memory, Steps, NoCall, Restoring, File, Table, Sync, Validates
<1>2. CallIsKnown'
  BY DEF TypeOK, CallIsKnown, NoCall, Restoring, Applying, memory, Steps, Conflicts, Sync, Validates
<1>3. MemoryIsDisk'
  BY DEF TypeOK, MemoryIsDisk, memory, Sync, Validates
<1>4. FileIsSound'
  BY DEF TypeOK, FileIsSound, memory, MemoryIsDisk, RulesAreFree, Sync, Validates
<1>5. TableIsDisk'
  BY DEF TypeOK, TableIsDisk, CallIsKnown, memory, MemoryIsDisk, NoCall, Restoring, Sync, Validates
<1>6. LoadedUnlessError'
  BY DEF TypeOK, LoadedUnlessError, CallIsKnown, memory, NoCall, Restoring, Sync, Validates
<1>7. RulesAreFree'
  BY DEF TypeOK, RulesAreFree, Conflicts, memory, CallIsKnown, MemoryIsDisk, Sync, Validates
<1>8. NoHostsLeft'
  BY DEF TypeOK, NoHostsLeft, CallIsKnown, MemoryIsDisk, memory, NoCall, Restoring, Sync, Validates
<1> QED BY <1>1, <1>2, <1>3, <1>4, <1>5, <1>6, <1>7, <1>8

LEMMA SyncRefusedKeeps ==
  ASSUME IInv, NEW cfg \in Configs, SyncRefused(cfg)
  PROVE  IInv'
<1> USE DEF IInv
<1>1. TypeOK'
  BY FaultType DEF TypeOK, memory, Steps, NoCall, Restoring, File, Table, SyncRefused
<1>2. CallIsKnown'
  BY FaultType DEF TypeOK, CallIsKnown, NoCall, Restoring, Applying, memory, Steps, Conflicts,
     SyncRefused
<1>3. MemoryIsDisk'
  BY FaultType DEF TypeOK, MemoryIsDisk, memory, SyncRefused
<1>4. FileIsSound'
  BY FaultType DEF TypeOK, FileIsSound, memory, MemoryIsDisk, RulesAreFree, SyncRefused
<1>5. TableIsDisk'
  BY FaultType DEF TypeOK, TableIsDisk, CallIsKnown, memory, MemoryIsDisk, NoCall, Restoring,
     SyncRefused
<1>6. LoadedUnlessError'
  BY FaultType DEF TypeOK, LoadedUnlessError, CallIsKnown, memory, NoCall, Restoring, SyncRefused
<1>7. RulesAreFree'
  BY FaultType DEF TypeOK, RulesAreFree, Conflicts, memory, CallIsKnown, MemoryIsDisk, SyncRefused
<1>8. NoHostsLeft'
  BY FaultType DEF TypeOK, NoHostsLeft, CallIsKnown, MemoryIsDisk, memory, NoCall, Restoring,
     SyncRefused
<1> QED BY <1>1, <1>2, <1>3, <1>4, <1>5, <1>6, <1>7, <1>8

LEMMA SyncUnresolvedKeeps ==
  ASSUME IInv, NEW cfg \in Configs, SyncUnresolved(cfg)
  PROVE  IInv'
<1> USE DEF IInv
<1>1. dnsStale' \in BOOLEAN /\ applied' = applied
  BY DEF SyncUnresolved, TypeOK
<1>2. disk' = disk \/ (appliedHash # None /\ disk' = [config |-> applied, hash |-> appliedHash,
                                     resolved |-> resolved, stale |-> dnsStale'])
  BY <1>1 DEF SyncUnresolved, PersistCurrent
<1>3. disk' \in File \cup {None} /\ (disk' = None <=> disk = None)
      /\ (disk # None => disk'.hash = disk.hash /\ disk'.resolved = disk.resolved)
      /\ FileIsSound'
  BY <1>1, <1>2, FileRewritten DEF TypeOK
<1>4. faults' \in [failed : 0..MaxFaults, agent : 0..MaxRestarts, dns : 0..MaxDNSChanges]
  BY <1>1, FaultType DEF SyncUnresolved, PersistCurrent, TypeOK
<1>5. TypeOK'
  BY <1>1, <1>2, <1>3, <1>4 DEF TypeOK, memory, Steps, NoCall, Restoring, File, Table,
     SyncUnresolved
<1>6. CallIsKnown'
  BY <1>1, <1>2, <1>3, <1>4 DEF TypeOK, CallIsKnown, NoCall, Restoring, Applying, memory, Steps,
     Conflicts, SyncUnresolved
<1>7. MemoryIsDisk'
  BY <1>1, <1>2, <1>3, <1>4 DEF TypeOK, MemoryIsDisk, memory, SyncUnresolved
<1>8. FileIsSound'
  BY <1>1, <1>2, <1>3, <1>4 DEF TypeOK, FileIsSound, memory, MemoryIsDisk, RulesAreFree,
     SyncUnresolved
<1>9. TableIsDisk'
  BY <1>1, <1>2, <1>3, <1>4 DEF TypeOK, TableIsDisk, CallIsKnown, memory, MemoryIsDisk, NoCall,
     Restoring, SyncUnresolved
<1>10. LoadedUnlessError'
  BY <1>1, <1>2, <1>3, <1>4 DEF TypeOK, LoadedUnlessError, CallIsKnown, memory, NoCall, Restoring,
     SyncUnresolved
<1>11. RulesAreFree'
  BY <1>1, <1>2, <1>3, <1>4 DEF TypeOK, RulesAreFree, Conflicts, memory, CallIsKnown, MemoryIsDisk,
     SyncUnresolved
<1>12. NoHostsLeft'
  BY <1>1, <1>2, <1>3, <1>4 DEF TypeOK, NoHostsLeft, CallIsKnown, MemoryIsDisk, memory, NoCall,
     Restoring, SyncUnresolved
<1> QED BY <1>5, <1>6, <1>7, <1>8, <1>9, <1>10, <1>11, <1>12

LEMMA RefreshSameKeeps ==
  ASSUME IInv, RefreshSame
  PROVE  IInv'
<1> USE DEF IInv
<1>1. appliedHash # None /\ earlier
  BY RefreshStarts DEF RefreshSame, RefreshReady
<1>2. applied' = resolved /\ applied' \in Configs /\ DOMAIN applied' = DOMAIN applied
  BY ResolvedShape DEF RefreshSame, TypeOK, MemoryIsDisk
<1>3. disk' = disk \/ (appliedHash # None /\ disk' = [config |-> applied', hash |-> appliedHash,
                                     resolved |-> resolved, stale |-> dnsStale'])
  BY DEF RefreshSame, PersistCurrent
<1>4. dnsStale' \in BOOLEAN
  BY DEF RefreshSame
<1>5. disk' \in File \cup {None} /\ (disk' = None <=> disk = None)
      /\ (disk # None => disk'.hash = disk.hash /\ disk'.resolved = disk.resolved)
      /\ FileIsSound'
  BY <1>2, <1>3, <1>4, FileRewritten DEF TypeOK
<1>6. faults' \in [failed : 0..MaxFaults, agent : 0..MaxRestarts, dns : 0..MaxDNSChanges]
  BY FaultType DEF RefreshSame, PersistCurrent, TypeOK
<1>7. TypeOK'
  BY <1>1, <1>2, <1>3, <1>4, <1>5, <1>6 DEF TypeOK, memory, Steps, NoCall, Restoring, File, Table,
     RefreshSame, RefreshReady, Validates
<1>8. CallIsKnown'
  BY <1>1, <1>2, <1>3, <1>4, <1>5, <1>6 DEF TypeOK, CallIsKnown, NoCall, Restoring, Applying,
     memory, Steps, Conflicts, RefreshSame, RefreshReady, Validates
<1>9. MemoryIsDisk'
  BY <1>1, <1>2, <1>3, <1>4, <1>5, <1>6 DEF TypeOK, MemoryIsDisk, memory, RefreshSame,
     RefreshReady, Validates
<1>10. FileIsSound'
  BY <1>1, <1>2, <1>3, <1>4, <1>5, <1>6 DEF TypeOK, FileIsSound, memory, MemoryIsDisk,
     RulesAreFree, RefreshSame, RefreshReady, Validates
<1>11. TableIsDisk'
  BY <1>1, <1>2, <1>3, <1>4, <1>5, <1>6 DEF TypeOK, TableIsDisk, CallIsKnown, memory, MemoryIsDisk,
     NoCall, Restoring, RefreshSame, RefreshReady, Validates
<1>12. LoadedUnlessError'
  BY <1>1, <1>2, <1>3, <1>4, <1>5, <1>6 DEF TypeOK, LoadedUnlessError, CallIsKnown, memory, NoCall,
     Restoring, RefreshSame, RefreshReady, Validates
<1>13. RulesAreFree'
  BY <1>1, <1>2, <1>3, <1>4, <1>5, <1>6 DEF TypeOK, RulesAreFree, Conflicts, memory, CallIsKnown,
     MemoryIsDisk, RefreshSame, RefreshReady, Validates
<1>14. NoHostsLeft'
  BY <1>1, <1>2, <1>3, <1>4, <1>5, <1>6 DEF TypeOK, NoHostsLeft, CallIsKnown, MemoryIsDisk, memory,
     NoCall, Restoring, RefreshSame, RefreshReady, Validates
<1> QED BY <1>7, <1>8, <1>9, <1>10, <1>11, <1>12, <1>13, <1>14

LEMMA RefreshChangedKeeps ==
  ASSUME IInv, NEW targets \in Resolved, RefreshChanged(targets)
  PROVE  IInv'
<1> USE DEF IInv
<1>1. appliedHash # None /\ earlier
  BY RefreshStarts DEF RefreshChanged, RefreshReady
<1>2. applied' = targets /\ applied' \in Configs /\ DOMAIN targets = DOMAIN applied
  BY ResolvedShape DEF RefreshChanged, Validates
<1>3. appliedHash \in Configs
  BY <1>1 DEF TypeOK
<1>4. TypeOK'
  BY <1>1, <1>2, <1>3 DEF TypeOK, memory, Steps, NoCall, Restoring, File, Table, RefreshChanged,
     RefreshReady, Validates
<1>5. CallIsKnown'
  BY <1>1, <1>2, <1>3 DEF TypeOK, CallIsKnown, NoCall, Restoring, Applying, memory, Steps,
     Conflicts, RefreshChanged, RefreshReady, Validates
<1>6. MemoryIsDisk'
  BY <1>1, <1>2, <1>3 DEF TypeOK, MemoryIsDisk, memory, RefreshChanged, RefreshReady, Validates
<1>7. FileIsSound'
  BY <1>1, <1>2, <1>3 DEF TypeOK, FileIsSound, memory, MemoryIsDisk, RulesAreFree, RefreshChanged,
     RefreshReady, Validates
<1>8. TableIsDisk'
  BY <1>1, <1>2, <1>3 DEF TypeOK, TableIsDisk, CallIsKnown, memory, MemoryIsDisk, NoCall,
     Restoring, RefreshChanged, RefreshReady, Validates
<1>9. LoadedUnlessError'
  BY <1>1, <1>2, <1>3 DEF TypeOK, LoadedUnlessError, CallIsKnown, memory, NoCall, Restoring,
     RefreshChanged, RefreshReady, Validates
<1>10. RulesAreFree'
  BY <1>1, <1>2, <1>3 DEF TypeOK, RulesAreFree, Conflicts, memory, CallIsKnown, MemoryIsDisk,
     RefreshChanged, RefreshReady, Validates
<1>11. NoHostsLeft'
  BY <1>1, <1>2, <1>3 DEF TypeOK, NoHostsLeft, CallIsKnown, MemoryIsDisk, memory, NoCall,
     Restoring, RefreshChanged, RefreshReady, Validates
<1> QED BY <1>4, <1>5, <1>6, <1>7, <1>8, <1>9, <1>10, <1>11

LEMMA RefreshFailsKeeps ==
  ASSUME IInv, RefreshFails
  PROVE  IInv'
<1> USE DEF IInv
<1>1. appliedHash # None /\ earlier
  BY RefreshStarts DEF RefreshFails, RefreshReady
<1>2. applied' \in Configs /\ DOMAIN applied' = DOMAIN applied
  BY PartlyShape DEF RefreshFails, TypeOK
<1>3. disk' = disk \/ (appliedHash # None /\ disk' = [config |-> applied', hash |-> appliedHash,
                                     resolved |-> resolved, stale |-> dnsStale'])
  BY <1>1 DEF RefreshFails, PersistCurrent
<1>4. dnsStale' \in BOOLEAN
  BY DEF RefreshFails, TypeOK
<1>5. disk' \in File \cup {None} /\ (disk' = None <=> disk = None)
      /\ (disk # None => disk'.hash = disk.hash /\ disk'.resolved = disk.resolved)
      /\ FileIsSound'
  BY <1>2, <1>3, <1>4, FileRewritten DEF TypeOK
<1>6. faults' \in [failed : 0..MaxFaults, agent : 0..MaxRestarts, dns : 0..MaxDNSChanges]
  BY FaultType DEF RefreshFails, PersistCurrent, TypeOK
<1>7. TypeOK'
  BY <1>1, <1>2, <1>3, <1>4, <1>5, <1>6 DEF TypeOK, memory, Steps, NoCall, Restoring, File, Table,
     RefreshFails, RefreshReady
<1>8. CallIsKnown'
  BY <1>1, <1>2, <1>3, <1>4, <1>5, <1>6 DEF TypeOK, CallIsKnown, NoCall, Restoring, Applying,
     memory, Steps, Conflicts, RefreshFails, RefreshReady
<1>9. MemoryIsDisk'
  BY <1>1, <1>2, <1>3, <1>4, <1>5, <1>6 DEF TypeOK, MemoryIsDisk, memory, RefreshFails, RefreshReady
<1>10. FileIsSound'
  BY <1>1, <1>2, <1>3, <1>4, <1>5, <1>6 DEF TypeOK, FileIsSound, memory, MemoryIsDisk,
     RulesAreFree, RefreshFails, RefreshReady
<1>11. TableIsDisk'
  BY <1>1, <1>2, <1>3, <1>4, <1>5, <1>6 DEF TypeOK, TableIsDisk, CallIsKnown, memory, MemoryIsDisk,
     NoCall, Restoring, RefreshFails, RefreshReady
<1>12. LoadedUnlessError'
  BY <1>1, <1>2, <1>3, <1>4, <1>5, <1>6 DEF TypeOK, LoadedUnlessError, CallIsKnown, memory, NoCall,
     Restoring, RefreshFails, RefreshReady
<1>13. RulesAreFree'
  BY <1>1, <1>2, <1>3, <1>4, <1>5, <1>6 DEF TypeOK, RulesAreFree, Conflicts, memory, CallIsKnown,
     MemoryIsDisk, RefreshFails, RefreshReady
<1>14. NoHostsLeft'
  BY <1>1, <1>2, <1>3, <1>4, <1>5, <1>6 DEF TypeOK, NoHostsLeft, CallIsKnown, MemoryIsDisk, memory,
     NoCall, Restoring, RefreshFails, RefreshReady
<1> QED BY <1>7, <1>8, <1>9, <1>10, <1>11, <1>12, <1>13, <1>14

LEMMA RestoreNothingKeeps ==
  ASSUME IInv, RestoreNothing
  PROVE  IInv'
<1> USE DEF IInv
<1>1. TypeOK'
  BY EmptyIsNothing DEF TypeOK, memory, Steps, NoCall, Restoring, File, Table, RestoreNothing
<1>2. CallIsKnown'
  BY DEF TypeOK, CallIsKnown, NoCall, Restoring, Applying, memory, Steps, Conflicts, RestoreNothing
<1>3. MemoryIsDisk'
  BY DEF TypeOK, MemoryIsDisk, memory, RestoreNothing
<1>4. FileIsSound'
  BY DEF TypeOK, FileIsSound, memory, MemoryIsDisk, RulesAreFree, RestoreNothing
<1>5. TableIsDisk'
  BY DEF TypeOK, TableIsDisk, CallIsKnown, memory, MemoryIsDisk, NoCall, Restoring, RestoreNothing
<1>6. LoadedUnlessError'
  BY DEF TypeOK, LoadedUnlessError, CallIsKnown, memory, NoCall, Restoring, RestoreNothing
<1>7. RulesAreFree'
  BY DEF TypeOK, RulesAreFree, Conflicts, memory, CallIsKnown, MemoryIsDisk, RestoreNothing
<1>8. NoHostsLeft'
  BY EmptyIsNothing DEF TypeOK, NoHostsLeft, CallIsKnown, MemoryIsDisk, memory, NoCall, Restoring,
     RestoreNothing
<1> QED BY <1>1, <1>2, <1>3, <1>4, <1>5, <1>6, <1>7, <1>8

LEMMA RestoreUnreadableKeeps ==
  ASSUME IInv, RestoreUnreadable
  PROVE  IInv'
<1> USE DEF IInv
<1>1. TypeOK'
  BY FaultType DEF TypeOK, memory, Steps, NoCall, Restoring, File, Table, RestoreUnreadable
<1>2. CallIsKnown'
  BY FaultType DEF TypeOK, CallIsKnown, NoCall, Restoring, Applying, memory, Steps, Conflicts,
     RestoreUnreadable
<1>3. MemoryIsDisk'
  BY FaultType DEF TypeOK, MemoryIsDisk, memory, RestoreUnreadable
<1>4. FileIsSound'
  BY FaultType DEF TypeOK, FileIsSound, memory, MemoryIsDisk, RulesAreFree, RestoreUnreadable
<1>5. TableIsDisk'
  BY FaultType DEF TypeOK, TableIsDisk, CallIsKnown, memory, MemoryIsDisk, NoCall, Restoring,
     RestoreUnreadable
<1>6. LoadedUnlessError'
  BY FaultType DEF TypeOK, LoadedUnlessError, CallIsKnown, memory, NoCall, Restoring,
     RestoreUnreadable
<1>7. RulesAreFree'
  BY FaultType DEF TypeOK, RulesAreFree, Conflicts, memory, CallIsKnown, MemoryIsDisk,
     RestoreUnreadable
<1>8. NoHostsLeft'
  BY FaultType DEF TypeOK, NoHostsLeft, CallIsKnown, MemoryIsDisk, memory, NoCall, Restoring,
     RestoreUnreadable
<1> QED BY <1>1, <1>2, <1>3, <1>4, <1>5, <1>6, <1>7, <1>8

LEMMA RestoreKeepsKeeps ==
  ASSUME IInv, RestoreKeeps
  PROVE  IInv'
<1> USE DEF IInv
<1>1. call = Restoring /\ disk # None
  BY DEF RestoreKeeps, Load
<1>2. disk \in File /\ disk.config \in Configs /\ disk.resolved \in Resolved
      /\ disk.resolved \in Configs /\ disk.hash \in Configs /\ disk.hash # None
      /\ disk.stale \in BOOLEAN /\ DOMAIN disk.resolved = DOMAIN disk.config
      /\ ~RuleConflict(DOMAIN disk.config) /\ (\A rules : ~CoreConflict(rules, listens))
      /\ (~earlier => disk.config = disk.resolved)
  BY <1>1, RestoreStarts
<1>3. applied' = disk.resolved /\ appliedHash' = disk.hash /\ resolved' = disk.resolved
      /\ disk' = disk /\ listens' = listens
  BY DEF RestoreKeeps, Load
<1>4. TypeOK'
  BY <1>1, <1>2, <1>3, FaultType, EmptyIsNothing DEF TypeOK, memory, Steps, NoCall, Restoring,
     File, Table, RestoreKeeps, Load, FirewallOf
<1>5. CallIsKnown'
  BY <1>1, <1>2, <1>3, EmptyIsNothing DEF TypeOK, CallIsKnown, NoCall, Restoring, Applying, memory,
     Steps, Conflicts, RestoreKeeps, Load, FirewallOf
<1>6. MemoryIsDisk'
  BY <1>1, <1>2, <1>3 DEF TypeOK, MemoryIsDisk, memory, RestoreKeeps, Load, FirewallOf
<1>7. FileIsSound'
  BY <1>1, <1>2, <1>3 DEF TypeOK, FileIsSound, memory, MemoryIsDisk, RulesAreFree, RestoreKeeps,
     Load, FirewallOf
<1>8. TableIsDisk'
  BY <1>1, <1>2, <1>3 DEF TypeOK, TableIsDisk, CallIsKnown, memory, MemoryIsDisk, NoCall,
     Restoring, RestoreKeeps, Load, FirewallOf
<1>9. LoadedUnlessError'
  BY <1>1, <1>2, <1>3 DEF TypeOK, LoadedUnlessError, CallIsKnown, memory, NoCall, Restoring,
     RestoreKeeps, Load, FirewallOf
<1>10. RulesAreFree'
  BY <1>1, <1>2, <1>3 DEF TypeOK, RulesAreFree, Conflicts, memory, CallIsKnown, MemoryIsDisk,
     RestoreKeeps, Load, FirewallOf
<1>11. NoHostsLeft'
  BY <1>1, <1>2, <1>3, EmptyIsNothing DEF TypeOK, NoHostsLeft, CallIsKnown, MemoryIsDisk, memory,
     NoCall, Restoring, RestoreKeeps, Load, FirewallOf
<1> QED BY <1>4, <1>5, <1>6, <1>7, <1>8, <1>9, <1>10, <1>11

LEMMA RestoreAppliesKeeps ==
  ASSUME IInv, NEW targets \in Resolved, RestoreApplies(targets)
  PROVE  IInv'
<1> USE DEF IInv
<1>1. call = Restoring /\ disk # None
  BY DEF RestoreApplies, Load
<1>2. disk \in File /\ disk.config \in Configs /\ disk.resolved \in Resolved
      /\ disk.resolved \in Configs /\ disk.hash \in Configs /\ disk.hash # None
      /\ disk.stale \in BOOLEAN /\ DOMAIN disk.resolved = DOMAIN disk.config
      /\ ~RuleConflict(DOMAIN disk.config) /\ (\A rules : ~CoreConflict(rules, listens))
      /\ (~earlier => disk.config = disk.resolved)
  BY <1>1, RestoreStarts
<1>3. applied' = targets /\ appliedHash' = disk.hash /\ resolved' = disk.resolved
      /\ disk' = disk /\ listens' = listens
  BY DEF RestoreApplies, Load
<1>4. targets \in Configs /\ DOMAIN targets = DOMAIN disk.config
  BY ResolvedShape DEF RestoreApplies, Validates
<1>5. ~earlier => targets = disk.resolved
  BY <1>2, AddressesStay DEF RestoreApplies
<1>6. TypeOK'
  BY <1>1, <1>2, <1>3, <1>4, <1>5 DEF TypeOK, memory, Steps, NoCall, Restoring, File, Table,
     RestoreApplies, Load
<1>7. CallIsKnown'
  BY <1>1, <1>2, <1>3, <1>4, <1>5 DEF TypeOK, CallIsKnown, NoCall, Restoring, Applying, memory,
     Steps, Conflicts, RestoreApplies, Load
<1>8. MemoryIsDisk'
  BY <1>1, <1>2, <1>3, <1>4, <1>5 DEF TypeOK, MemoryIsDisk, memory, RestoreApplies, Load
<1>9. FileIsSound'
  BY <1>1, <1>2, <1>3, <1>4, <1>5 DEF TypeOK, FileIsSound, memory, MemoryIsDisk, RulesAreFree,
     RestoreApplies, Load
<1>10. TableIsDisk'
  BY <1>1, <1>2, <1>3, <1>4, <1>5 DEF TypeOK, TableIsDisk, CallIsKnown, memory, MemoryIsDisk,
     NoCall, Restoring, RestoreApplies, Load
<1>11. LoadedUnlessError'
  BY <1>1, <1>2, <1>3, <1>4, <1>5 DEF TypeOK, LoadedUnlessError, CallIsKnown, memory, NoCall,
     Restoring, RestoreApplies, Load
<1>12. RulesAreFree'
  BY <1>1, <1>2, <1>3, <1>4, <1>5 DEF TypeOK, RulesAreFree, Conflicts, memory, CallIsKnown,
     MemoryIsDisk, RestoreApplies, Load
<1>13. NoHostsLeft'
  BY <1>1, <1>2, <1>3, <1>4, <1>5 DEF TypeOK, NoHostsLeft, CallIsKnown, MemoryIsDisk, memory,
     NoCall, Restoring, RestoreApplies, Load
<1> QED BY <1>6, <1>7, <1>8, <1>9, <1>10, <1>11, <1>12, <1>13

LEMMA RestoreFailsKeeps ==
  ASSUME IInv, RestoreFails
  PROVE  IInv'
<1> USE DEF IInv
<1>1. call = Restoring /\ disk # None
  BY DEF RestoreFails, Load
<1>2. disk \in File /\ disk.config \in Configs /\ disk.resolved \in Resolved
      /\ disk.resolved \in Configs /\ disk.hash \in Configs /\ disk.hash # None
      /\ disk.stale \in BOOLEAN /\ DOMAIN disk.resolved = DOMAIN disk.config
      /\ ~RuleConflict(DOMAIN disk.config) /\ (\A rules : ~CoreConflict(rules, listens))
      /\ (~earlier => disk.config = disk.resolved)
  BY <1>1, RestoreStarts
<1>3. applied' \in PartlyResolved(disk.config, disk.resolved) /\ appliedHash' = disk.hash
      /\ resolved' = disk.resolved /\ disk' = disk /\ listens' = listens
  BY DEF RestoreFails, Load
<1>4. applied' \in Configs /\ DOMAIN applied' = DOMAIN disk.config
  BY <1>2, <1>3, PartlyShape
<1>5. ~earlier => applied' = disk.resolved
  BY <1>2, <1>3, AddressesStay
<1>6. TypeOK'
  BY <1>1, <1>2, <1>3, <1>4, <1>5, FaultType, EmptyIsNothing DEF TypeOK, memory, Steps, NoCall,
     Restoring, File, Table, RestoreFails, Load
<1>7. CallIsKnown'
  BY <1>1, <1>2, <1>3, <1>4, <1>5 DEF TypeOK, CallIsKnown, NoCall, Restoring, Applying, memory,
     Steps, Conflicts, RestoreFails, Load
<1>8. MemoryIsDisk'
  BY <1>1, <1>2, <1>3, <1>4, <1>5 DEF TypeOK, MemoryIsDisk, memory, RestoreFails, Load
<1>9. FileIsSound'
  BY <1>1, <1>2, <1>3, <1>4, <1>5 DEF TypeOK, FileIsSound, memory, MemoryIsDisk, RulesAreFree,
     RestoreFails, Load
<1>10. TableIsDisk'
  BY <1>1, <1>2, <1>3, <1>4, <1>5 DEF TypeOK, TableIsDisk, CallIsKnown, memory, MemoryIsDisk,
     NoCall, Restoring, RestoreFails, Load
<1>11. LoadedUnlessError'
  BY <1>1, <1>2, <1>3, <1>4, <1>5 DEF TypeOK, LoadedUnlessError, CallIsKnown, memory, NoCall,
     Restoring, RestoreFails, Load
<1>12. RulesAreFree'
  BY <1>1, <1>2, <1>3, <1>4, <1>5 DEF TypeOK, RulesAreFree, Conflicts, memory, CallIsKnown,
     MemoryIsDisk, RestoreFails, Load
<1>13. NoHostsLeft'
  BY <1>1, <1>2, <1>3, <1>4, <1>5 DEF TypeOK, NoHostsLeft, CallIsKnown, MemoryIsDisk, memory,
     NoCall, Restoring, RestoreFails, Load
<1> QED BY <1>6, <1>7, <1>8, <1>9, <1>10, <1>11, <1>12, <1>13

LEMMA StartCoreKeeps ==
  ASSUME IInv, NEW inbounds \in CoreConfigs \cup {{}}, StartCore(inbounds)
  PROVE  IInv'
<1> USE DEF IInv
<1>1. TypeOK'
  BY DEF TypeOK, memory, Steps, NoCall, Restoring, File, Table, StartCore
<1>2. CallIsKnown'
  BY DEF TypeOK, CallIsKnown, NoCall, Restoring, Applying, memory, Steps, Conflicts, StartCore
<1>3. MemoryIsDisk'
  BY DEF TypeOK, MemoryIsDisk, memory, StartCore
<1>4. FileIsSound'
  BY DEF TypeOK, FileIsSound, memory, MemoryIsDisk, RulesAreFree, StartCore
<1>5. TableIsDisk'
  BY DEF TypeOK, TableIsDisk, CallIsKnown, memory, MemoryIsDisk, NoCall, Restoring, StartCore
<1>6. LoadedUnlessError'
  BY DEF TypeOK, LoadedUnlessError, CallIsKnown, memory, NoCall, Restoring, StartCore
<1>7. RulesAreFree'
  BY DEF TypeOK, RulesAreFree, Conflicts, memory, CallIsKnown, MemoryIsDisk, StartCore
<1>8. NoHostsLeft'
  BY DEF TypeOK, NoHostsLeft, CallIsKnown, MemoryIsDisk, memory, NoCall, Restoring, StartCore
<1> QED BY <1>1, <1>2, <1>3, <1>4, <1>5, <1>6, <1>7, <1>8

LEMMA DNSChangesKeeps ==
  ASSUME IInv, NEW answer \in SUBSET Addresses, DNSChanges(answer)
  PROVE  IInv'
<1> USE DEF IInv
<1>1. TypeOK'
  BY ForwardingAssumption DEF TypeOK, memory, Steps, NoCall, Restoring, File, Table, DNSChanges
<1>2. CallIsKnown'
  BY ForwardingAssumption DEF TypeOK, CallIsKnown, NoCall, Restoring, Applying, memory, Steps,
     Conflicts, DNSChanges
<1>3. MemoryIsDisk'
  BY ForwardingAssumption DEF TypeOK, MemoryIsDisk, memory, DNSChanges
<1>4. FileIsSound'
  BY ForwardingAssumption DEF TypeOK, FileIsSound, memory, MemoryIsDisk, RulesAreFree, DNSChanges
<1>5. TableIsDisk'
  BY ForwardingAssumption DEF TypeOK, TableIsDisk, CallIsKnown, memory, MemoryIsDisk, NoCall,
     Restoring, DNSChanges
<1>6. LoadedUnlessError'
  BY ForwardingAssumption DEF TypeOK, LoadedUnlessError, CallIsKnown, memory, NoCall, Restoring,
     DNSChanges
<1>7. RulesAreFree'
  BY ForwardingAssumption DEF TypeOK, RulesAreFree, Conflicts, memory, CallIsKnown, MemoryIsDisk,
     DNSChanges
<1>8. NoHostsLeft'
  BY ForwardingAssumption DEF TypeOK, NoHostsLeft, CallIsKnown, MemoryIsDisk, memory, NoCall,
     Restoring, DNSChanges
<1> QED BY <1>1, <1>2, <1>3, <1>4, <1>5, <1>6, <1>7, <1>8

LEMMA TableFlushedKeeps ==
  ASSUME IInv, TableFlushed
  PROVE  IInv'
<1> USE DEF IInv
<1>1. TypeOK'
  BY FaultType DEF TypeOK, memory, Steps, NoCall, Restoring, File, Table, TableFlushed
<1>2. CallIsKnown'
  BY FaultType DEF TypeOK, CallIsKnown, NoCall, Restoring, Applying, memory, Steps, Conflicts,
     TableFlushed
<1>3. MemoryIsDisk'
  BY FaultType DEF TypeOK, MemoryIsDisk, memory, TableFlushed
<1>4. FileIsSound'
  BY FaultType DEF TypeOK, FileIsSound, memory, MemoryIsDisk, RulesAreFree, TableFlushed
<1>5. TableIsDisk'
  BY FaultType DEF TypeOK, TableIsDisk, CallIsKnown, memory, MemoryIsDisk, NoCall, Restoring,
     TableFlushed
<1>6. LoadedUnlessError'
  BY FaultType DEF TypeOK, LoadedUnlessError, CallIsKnown, memory, NoCall, Restoring, TableFlushed
<1>7. RulesAreFree'
  BY FaultType DEF TypeOK, RulesAreFree, Conflicts, memory, CallIsKnown, MemoryIsDisk, TableFlushed
<1>8. NoHostsLeft'
  BY FaultType DEF TypeOK, NoHostsLeft, CallIsKnown, MemoryIsDisk, memory, NoCall, Restoring,
     TableFlushed
<1> QED BY <1>1, <1>2, <1>3, <1>4, <1>5, <1>6, <1>7, <1>8

LEMMA AgentRestartsKeeps ==
  ASSUME IInv, AgentRestarts
  PROVE  IInv'
<1> USE DEF IInv
<1>1. faults' \in [failed : 0..MaxFaults, agent : 0..MaxRestarts, dns : 0..MaxDNSChanges]
  BY ForwardingAssumption DEF AgentRestarts, TypeOK
<1>2. Restoring \in [step : Steps, kind : {"none", "sync", "refresh", "restore"},
                       hash : Configs, targets : Resolved]
  BY EmptyIsNothing DEF Restoring, NoCall, Steps
<1>3. TypeOK'
  BY <1>1, <1>2, EmptyIsNothing DEF TypeOK, memory, Steps, NoCall, Restoring, File, Table,
     AgentRestarts
<1>4. CallIsKnown'
  BY <1>1, <1>2, NothingToMeet DEF TypeOK, CallIsKnown, NoCall, Restoring, Applying, memory, Steps,
     Conflicts, AgentRestarts
<1>5. MemoryIsDisk'
  BY <1>1, <1>2, EmptyIsNothing DEF TypeOK, MemoryIsDisk, memory, AgentRestarts
<1>6. FileIsSound'
  BY <1>1, <1>2 DEF TypeOK, FileIsSound, memory, MemoryIsDisk, RulesAreFree, AgentRestarts
<1>7. TableIsDisk'
  BY <1>1, <1>2 DEF TypeOK, TableIsDisk, CallIsKnown, memory, MemoryIsDisk, NoCall, Restoring,
     AgentRestarts
<1>8. LoadedUnlessError'
  BY <1>1, <1>2 DEF TypeOK, LoadedUnlessError, CallIsKnown, memory, NoCall, Restoring, AgentRestarts
<1>9. RulesAreFree'
  BY <1>1, <1>2, EmptyIsNothing, NothingToMeet DEF TypeOK, RulesAreFree, Conflicts, memory,
     CallIsKnown, MemoryIsDisk, AgentRestarts
<1>10. NoHostsLeft'
  BY <1>1, <1>2, EmptyIsNothing DEF TypeOK, NoHostsLeft, CallIsKnown, MemoryIsDisk, memory, NoCall,
     Restoring, AgentRestarts
<1> QED BY <1>3, <1>4, <1>5, <1>6, <1>7, <1>8, <1>9, <1>10

LEMMA InitKeeps ==
  ASSUME Init
  PROVE  IInv
<1>1. /\ Nothing \in Resolved /\ Nothing \in Configs /\ DOMAIN Nothing = {}
      /\ FirewallOf(Nothing) = Nothing
  BY EmptyIsNothing DEF FirewallOf
<1>2. /\ applied = Nothing /\ appliedHash = None /\ resolved = Nothing
      /\ lastError = FALSE /\ dnsStale = FALSE /\ listens = {} /\ call = Restoring
      /\ unpersisted = FALSE /\ faults = [failed |-> 0, agent |-> 0, dns |-> 0]
      /\ dns \in SUBSET Addresses
  BY DEF Init
<1> DEFINE Sound ==
      /\ disk \in File \cup {None} /\ table \in Table \cup {None} /\ chain \in Resolved
      /\ wanted \in Configs /\ earlier \in BOOLEAN
      /\ FileIsSound
      /\ table # None => disk # None /\ table.hash = disk.hash /\ table.targets = disk.resolved
      /\ ~earlier => disk = None
<1>3. Sound
  <2>1. CASE disk = None /\ table = None /\ chain = Nothing /\ wanted = Nothing /\ earlier = FALSE
    BY <1>1, <2>1 DEF FileIsSound
  <2>2. ASSUME earlier = TRUE,
               \E rule \in Rules : \E targets \in [{rule} -> Addresses] :
                 LET hosts == [r \in {rule} |-> Host]
                 IN  /\ disk = [config |-> hosts, hash |-> hosts, resolved |-> targets, stale |-> FALSE]
                     /\ table = [hash |-> hosts, targets |-> targets]
                     /\ chain = IF DropPolicy THEN targets ELSE Nothing
                     /\ wanted = hosts
        PROVE  Sound
    <3> DEFINE Earlier(rule, targets) ==
          LET hosts == [r \in {rule} |-> Host]
          IN  /\ disk = [config |-> hosts, hash |-> hosts, resolved |-> targets, stale |-> FALSE]
              /\ table = [hash |-> hosts, targets |-> targets]
              /\ chain = IF DropPolicy THEN targets ELSE Nothing
              /\ wanted = hosts
    <3>0. PICK rule \in Rules : \E targets \in [{rule} -> Addresses] : Earlier(rule, targets)
      BY <2>2
    <3>1. PICK targets \in [{rule} -> Addresses] : Earlier(rule, targets)
      BY <3>0
    <3> DEFINE hosts == [r \in {rule} |-> Host]
    <3>2. {rule} \in SUBSET Rules /\ hosts \in [{rule} -> Addresses \cup {Host}]
      OBVIOUS
    <3>3. hosts \in Configs /\ targets \in Resolved /\ DOMAIN hosts = {rule} /\ DOMAIN targets = {rule}
      BY <3>2 DEF Configs, Resolved, PartialFunctions
    <3>4. /\ disk = [config |-> hosts, hash |-> hosts, resolved |-> targets, stale |-> FALSE]
          /\ table = [hash |-> hosts, targets |-> targets]
          /\ chain \in {targets, Nothing}
          /\ wanted = hosts
      BY <3>1
    <3>5. ~RuleConflict({rule})
      BY DEF RuleConflict
    <3> HIDE DEF hosts
    <3>6. disk \in File /\ table \in Table
      BY <3>3, <3>4 DEF File, Table
    <3>7. disk # None /\ table # None
      BY <3>6, NoneApart
    <3>8. FileIsSound
      BY <3>3, <3>4, <3>5 DEF FileIsSound
    <3> QED BY <1>1, <2>2, <3>3, <3>4, <3>6, <3>7, <3>8
  <2> HIDE DEF Sound
  <2> QED BY <2>1, <2>2 DEF Init
<1>4. TypeOK
  <2>1. faults \in [failed : 0..MaxFaults, agent : 0..MaxRestarts, dns : 0..MaxDNSChanges]
    BY <1>2, ForwardingAssumption
  <2>2. call \in [step : Steps, kind : {"none", "sync", "refresh", "restore"},
                 hash : Configs, targets : Resolved]
    BY <1>1, <1>2 DEF Restoring, NoCall, Steps
  <2> QED BY <1>1, <1>2, <1>3, <2>1, <2>2 DEF TypeOK
<1>5. CallIsKnown
  BY <1>2 DEF CallIsKnown, Restoring, NoCall, Applying
<1>6. MemoryIsDisk /\ LoadedUnlessError
  BY <1>2 DEF MemoryIsDisk, LoadedUnlessError, Restoring, NoCall
<1>7. FileIsSound /\ TableIsDisk
  BY <1>3 DEF TableIsDisk
<1>8. RulesAreFree
  BY <1>1, <1>2, NothingToMeet DEF RulesAreFree, Conflicts
<1>9. NoHostsLeft
  BY <1>2, <1>3 DEF NoHostsLeft, Restoring, NoCall
<1> QED BY <1>4, <1>5, <1>6, <1>7, <1>8, <1>9 DEF IInv

LEMMA StutterKeeps ==
  ASSUME IInv, UNCHANGED vars
  PROVE  IInv'
BY DEF vars, memory, IInv, TypeOK, CallIsKnown, MemoryIsDisk, FileIsSound, TableIsDisk,
       LoadedUnlessError, RulesAreFree, NoHostsLeft, Conflicts

LEMMA NextKeeps ==
  ASSUME IInv, [Next]_vars
  PROVE  IInv'
<1>1. CASE UNCHANGED vars
  BY <1>1, StutterKeeps
<1>2. CASE Apply
  BY <1>2, UpdateChainKeeps, UpdateTableKeeps, PersistKeeps DEF Apply
<1>3. CASE ApplyFails
  BY <1>3, ApplyFailsKeeps
<1>4. CASE \E cfg \in Configs, targets \in Resolved : Sync(cfg, targets)
  BY <1>4, SyncKeeps
<1>5. CASE \E cfg \in Configs : SyncRefused(cfg) \/ SyncUnresolved(cfg)
  BY <1>5, SyncRefusedKeeps, SyncUnresolvedKeeps
<1>6. CASE RefreshNothing
  BY <1>6, StutterKeeps DEF RefreshNothing
<1>7. CASE Refresh
  BY <1>7, RefreshSameKeeps, RefreshChangedKeeps, RefreshFailsKeeps DEF Refresh
<1>8. CASE RestoreNothing \/ RestoreUnreadable \/ RestoreKeeps \/ RestoreFails
  BY <1>8, RestoreNothingKeeps, RestoreUnreadableKeeps, RestoreKeepsKeeps, RestoreFailsKeeps
<1>9. CASE \E targets \in Resolved : RestoreApplies(targets)
  BY <1>9, RestoreAppliesKeeps
<1>10. CASE \E inbounds \in CoreConfigs \cup {{}} : StartCore(inbounds)
  BY <1>10, StartCoreKeeps
<1>11. CASE \E answer \in SUBSET Addresses : DNSChanges(answer)
  BY <1>11, DNSChangesKeeps
<1>12. CASE TableFlushed
  BY <1>12, TableFlushedKeeps
<1>13. CASE AgentRestarts
  BY <1>13, AgentRestartsKeeps
<1> QED BY <1>1, <1>2, <1>3, <1>4, <1>5, <1>6, <1>7, <1>8, <1>9, <1>10, <1>11, <1>12, <1>13 DEF Next

\* The strengthened invariant holds in every state the service, the host and
\* DNS can reach, whatever fails and whenever the agent restarts.
THEOREM Inductive == Spec => []IInv
<1>1. Init => IInv
  BY InitKeeps
<1>2. IInv /\ [Next]_vars => IInv'
  BY NextKeeps
<1> QED BY <1>1, <1>2, PTL DEF Spec

-----------------------------------------------------------------------------
\* What follows for the properties.

\* While the status is "applied" the table forwards to the addresses the
\* service reports, unless an apply changed it and never got to record it.
THEOREM ServiceSafety == Spec => []AppliedIsServed
<1>1. IInv => AppliedIsServed
  <2> SUFFICES ASSUME IInv, call = NoCall, RuntimeState = "applied", ~unpersisted
               PROVE  table.targets = resolved
    BY DEF AppliedIsServed, IInv
  <2>1. TableMatches(appliedHash)
    BY DEF RuntimeState
  <2>2. appliedHash # None /\ table # None
    BY <2>1 DEF TableMatches
  <2> QED BY <2>2 DEF IInv, TableIsDisk, MemoryIsDisk, NoCall
<1> QED BY <1>1, Inductive, PTL

\* While the status is "applied" the managed chain lets exactly the reported
\* flows pass, unless the agent began with a file that holds host names.
THEOREM FirewallSafety == Spec => []FlowsAreAllowed
<1>1. IInv => FlowsAreAllowed
  BY DEF FlowsAreAllowed, IInv, NoHostsLeft, RuntimeState, NoCall
<1> QED BY <1>1, Inductive, PTL

\* The file, the memory and an apply under way are about the configuration
\* that was acknowledged last; only a sync brings another one.
FileIsWanted ==
  IF disk = None THEN wanted = Nothing
  ELSE disk.hash = wanted /\ Meets(disk.resolved, wanted) /\ Meets(disk.config, wanted)

MemoryIsWanted == appliedHash # None => Meets(applied, wanted)

CallIsWanted ==
  call.step \in Applying =>
    /\ Meets(call.targets, call.hash)
    /\ call.kind # "sync" => call.hash = wanted /\ disk # None

Durable == FileIsWanted /\ MemoryIsWanted /\ CallIsWanted

\* A validation gives targets for what it was asked for, at one remove as well.
LEMMA ValidatedMeets ==
  ASSUME NEW c \in Configs, NEW known, NEW targets \in Resolved, Validates(c, known, targets)
  PROVE  Meets(targets, c)
BY DEF Validates, ResolvesTo, Meets

LEMMA PartlyMeets ==
  ASSUME NEW c \in Configs, NEW known, NEW partly \in PartlyResolved(c, known)
  PROVE  Meets(partly, c)
BY DEF PartlyResolved, ResolvesTo, Meets

LEMMA MeetsTransitive ==
  ASSUME NEW a, NEW b, NEW c, Meets(a, b), Meets(b, c)
  PROVE  Meets(a, c)
BY DEF Meets

LEMMA DurableStarts == ASSUME Init PROVE Durable
<1>1. CASE disk = None /\ wanted = Nothing /\ appliedHash = None /\ call = Restoring
  BY <1>1 DEF Durable, FileIsWanted, MemoryIsWanted, CallIsWanted, Restoring, NoCall, Applying
<1>2. ASSUME NEW rule \in Rules, NEW targets \in [{rule} -> Addresses],
             wanted = [r \in {rule} |-> Host], appliedHash = None, call = Restoring,
             disk = [config |-> wanted, hash |-> wanted, resolved |-> targets, stale |-> FALSE]
      PROVE  Durable
  <2>1. Meets(targets, wanted) /\ Meets(wanted, wanted)
    BY <1>2 DEF Meets
  <2>2. disk.hash = wanted /\ disk.resolved = targets /\ disk.config = wanted
    BY <1>2
  <2>3. disk # None
    <3>1. {rule} \in SUBSET Rules /\ wanted \in [{rule} -> Addresses \cup {Host}]
      BY <1>2
    <3>2. wanted \in Configs /\ targets \in Resolved
      BY <3>1 DEF Configs, Resolved, PartialFunctions
    <3>3. disk \in File
      BY <1>2, <3>2 DEF File
    <3> QED BY <3>3, NoneApart
  <2> QED BY <1>2, <2>1, <2>2, <2>3
      DEF Durable, FileIsWanted, MemoryIsWanted, CallIsWanted, Restoring, NoCall, Applying
<1> QED BY <1>1, <1>2 DEF Init

\* A step that writes no file, loads nothing and begins no apply.
LEMMA DurableFrame ==
  ASSUME IInv, Durable, UNCHANGED <<disk, wanted>>,
         appliedHash' = None \/ UNCHANGED <<applied, appliedHash>>,
         call'.step \in Applying => call.step \in Applying /\ call' = [call EXCEPT !.step = call'.step]
  PROVE  Durable'
<1>1. FileIsWanted'
  BY DEF Durable, FileIsWanted
<1>2. MemoryIsWanted'
  BY DEF Durable, MemoryIsWanted
<1>3. CallIsWanted'
  <2> SUFFICES ASSUME call'.step \in Applying
               PROVE  /\ Meets(call'.targets, call'.hash)
                      /\ call'.kind # "sync" => call'.hash = wanted' /\ disk' # None
    BY DEF CallIsWanted
  <2>1. call'.targets = call.targets /\ call'.hash = call.hash /\ call'.kind = call.kind
    BY DEF IInv, TypeOK
  <2> QED BY <2>1 DEF Durable, CallIsWanted
<1> QED BY <1>1, <1>2, <1>3 DEF Durable

\* The file is rewritten from memory, or not, and no apply is under way.
LEMMA DurableRewrites ==
  ASSUME IInv, IInv', Durable, UNCHANGED <<appliedHash, wanted>>, call' = NoCall,
         applied' \in Configs, Meets(applied', applied), NEW stale,
         \/ disk' = disk
         \/ appliedHash # None /\ disk' = [config |-> applied', hash |-> appliedHash,
                                            resolved |-> resolved, stale |-> stale]
  PROVE  Durable'
<1>1. MemoryIsWanted'
  BY MeetsTransitive DEF Durable, MemoryIsWanted
<1>2. FileIsWanted'
  <2>1. CASE disk' = disk
    BY <2>1 DEF Durable, FileIsWanted
  <2>2. CASE appliedHash # None /\ disk' = [config |-> applied', hash |-> appliedHash,
                                            resolved |-> resolved, stale |-> stale]
    <3>1. disk # None /\ disk.hash = appliedHash /\ disk.resolved = resolved
      BY <2>2 DEF IInv, MemoryIsDisk
    <3>2. disk'.hash = wanted /\ Meets(disk'.resolved, wanted)
      BY <2>2, <3>1 DEF Durable, FileIsWanted
    <3>3. Meets(disk'.config, wanted)
      BY <1>1, <2>2 DEF MemoryIsWanted
    <3>4. disk' # None
      BY <2>2 DEF IInv, MemoryIsDisk
    <3> QED BY <3>2, <3>3, <3>4 DEF FileIsWanted
  <2> QED BY <2>1, <2>2
<1>3. CallIsWanted'
  BY DEF CallIsWanted, NoCall, Applying
<1> QED BY <1>1, <1>2, <1>3 DEF Durable

\* Persist records what the apply was about: for a sync that is wanted now.
LEMMA PersistDurable ==
  ASSUME IInv, IInv', Durable, Persist
  PROVE  Durable'
<1>1. /\ call.step \in Applying /\ call' = NoCall
      /\ disk' = [config |-> call.targets, hash |-> call.hash, resolved |-> call.targets, stale |-> FALSE]
      /\ applied' = call.targets /\ wanted' = IF call.kind = "sync" THEN call.hash ELSE wanted
  BY DEF Persist, Applying
<1>2. Meets(call.targets, call.hash) /\ wanted' = call.hash
  BY <1>1 DEF Durable, CallIsWanted
<1>3. disk'.hash = call.hash /\ disk'.config = call.targets /\ disk'.resolved = call.targets
  BY <1>1
<1>4. FileIsWanted'
  <2>1. appliedHash' # None
    BY NoneApart DEF Persist, IInv, TypeOK
  <2>2. disk' # None
    BY <2>1 DEF IInv, MemoryIsDisk
  <2> QED BY <1>2, <1>3, <2>2 DEF FileIsWanted
<1>5. MemoryIsWanted' /\ CallIsWanted'
  BY <1>1, <1>2 DEF MemoryIsWanted, CallIsWanted, NoCall, Applying
<1> QED BY <1>4, <1>5 DEF Durable

\* A sync, a refresh or a restore begins to apply.
LEMMA BeginsDurable ==
  ASSUME IInv, Durable,
         \/ \E cfg \in Configs, targets \in Resolved : Sync(cfg, targets)
         \/ \E targets \in Resolved : RefreshChanged(targets) \/ RestoreApplies(targets)
  PROVE  Durable'
<1>1. ASSUME NEW cfg \in Configs, NEW targets \in Resolved, Sync(cfg, targets) PROVE Durable'
  <2>1. /\ UNCHANGED <<applied, appliedHash, disk, wanted>>
        /\ call' = [step |-> "firewall", kind |-> "sync", hash |-> cfg, targets |-> targets]
    BY <1>1 DEF Sync, memory
  <2>2. Meets(targets, cfg)
    BY <1>1, ValidatedMeets DEF Sync
  <2>3. CallIsWanted'
    BY <2>1, <2>2 DEF CallIsWanted
  <2> QED BY <2>1, <2>3 DEF Durable, FileIsWanted, MemoryIsWanted
<1>2. ASSUME NEW targets \in Resolved, RefreshChanged(targets) PROVE Durable'
  <2>1. /\ UNCHANGED <<appliedHash, disk, wanted>> /\ applied' = targets
        /\ call' = [step |-> "firewall", kind |-> "refresh", hash |-> appliedHash, targets |-> targets]
        /\ HasHostname(applied)
    BY <1>2 DEF RefreshChanged, RefreshReady
  <2>2. appliedHash # None /\ disk # None /\ appliedHash = wanted
    BY <2>1, RefreshStarts DEF IInv, MemoryIsDisk, Durable, FileIsWanted
  <2>3. Meets(targets, wanted)
    <3>1. Meets(targets, applied)
      BY <1>2, ValidatedMeets DEF RefreshChanged, IInv, TypeOK
    <3> QED BY <2>2, <3>1, MeetsTransitive DEF Durable, MemoryIsWanted
  <2>4. CallIsWanted'
    BY <2>1, <2>2, <2>3 DEF CallIsWanted
  <2> QED BY <2>1, <2>3, <2>4 DEF Durable, FileIsWanted, MemoryIsWanted
<1>3. ASSUME NEW targets \in Resolved, RestoreApplies(targets) PROVE Durable'
  <2>1. /\ UNCHANGED <<disk, wanted>> /\ applied' = targets /\ disk # None
        /\ call' = [step |-> "firewall", kind |-> "restore", hash |-> disk.hash, targets |-> targets]
    BY <1>3 DEF RestoreApplies, Load
  <2>2. disk.hash = wanted /\ Meets(disk.config, wanted) /\ disk.config \in Configs
    BY <2>1 DEF Durable, FileIsWanted, IInv, TypeOK, File
  <2>3. Meets(targets, wanted)
    <3>1. Meets(targets, disk.config)
      BY <1>3, <2>2, ValidatedMeets DEF RestoreApplies
    <3> QED BY <2>2, <3>1, MeetsTransitive
  <2>4. CallIsWanted'
    BY <2>1, <2>2, <2>3 DEF CallIsWanted
  <2> QED BY <2>1, <2>3, <2>4 DEF Durable, FileIsWanted, MemoryIsWanted
<1> QED BY <1>1, <1>2, <1>3

\* A restore that keeps the table or fails loads the file, host names resolved
\* or not.
LEMMA LoadDurable ==
  ASSUME IInv, Durable, RestoreKeeps \/ RestoreFails
  PROVE  Durable'
<1>1. UNCHANGED <<disk, wanted>> /\ disk # None /\ call' = NoCall
  BY DEF RestoreKeeps, RestoreFails, Load
<1>2. /\ disk.config \in Configs /\ Meets(disk.config, wanted) /\ Meets(disk.resolved, wanted)
  BY <1>1 DEF Durable, FileIsWanted, IInv, TypeOK, File
<1>3. Meets(applied', wanted)
  <2>1. CASE RestoreKeeps
    BY <1>2, <2>1 DEF RestoreKeeps, Load
  <2>2. CASE RestoreFails
    <3>1. PICK partly \in PartlyResolved(disk.config, disk.resolved) : applied' = partly
      BY <2>2 DEF RestoreFails, Load
    <3>2. Meets(partly, disk.config)
      BY <1>2, PartlyMeets
    <3> QED BY <1>2, <3>1, <3>2, MeetsTransitive
  <2> QED BY <2>1, <2>2
<1> QED BY <1>1, <1>3 DEF Durable, FileIsWanted, MemoryIsWanted, CallIsWanted, NoCall, Applying

\* A refresh that fails or finds nothing new, and a sync that cannot resolve,
\* write the memory back.
LEMMA RewriteDurable ==
  ASSUME IInv, IInv', Durable,
         ApplyFails \/ RefreshSame \/ RefreshFails \/ \E cfg \in Configs : SyncUnresolved(cfg)
  PROVE  Durable'
<1>1. applied \in Configs /\ applied' \in Configs /\ resolved \in Resolved
  BY DEF IInv, TypeOK
<1>2. Meets(applied, applied)
  BY DEF Meets
<1>3. CASE ApplyFails
  <2>1. /\ UNCHANGED <<applied, appliedHash, wanted>> /\ call' = NoCall
        /\ \/ disk' = disk
           \/ appliedHash # None /\ disk' = [config |-> applied, hash |-> appliedHash,
                                              resolved |-> resolved, stale |-> dnsStale]
    BY <1>3 DEF ApplyFails, IInv, CallIsKnown
  <2>2. Meets(applied', applied)
    BY <1>2, <2>1
  <2> QED BY <1>1, <2>1, <2>2, DurableRewrites
<1>4. ASSUME UNCHANGED <<appliedHash, wanted, call>>, call = NoCall, Meets(applied', applied), PersistCurrent
      PROVE  Durable'
  <2>1. \/ disk' = disk
        \/ appliedHash # None /\ disk' = [config |-> applied', hash |-> appliedHash,
                                           resolved |-> resolved, stale |-> dnsStale']
    BY <1>4 DEF PersistCurrent
  <2>2. UNCHANGED <<appliedHash, wanted>> /\ call' = NoCall
    BY <1>4
  <2> QED BY <1>1, <1>4, <2>1, <2>2, DurableRewrites
<1>5. CASE RefreshSame
  <2>1. Meets(applied', applied)
    BY <1>1, <1>5, ValidatedMeets DEF RefreshSame
  <2> QED BY <1>4, <1>5, <2>1 DEF RefreshSame, RefreshReady
<1>6. CASE RefreshFails
  <2>1. Meets(applied', applied)
    BY <1>1, <1>6, PartlyMeets DEF RefreshFails
  <2>2. appliedHash # None
    BY <1>6, RefreshStarts DEF RefreshFails, RefreshReady
  <2>3. UNCHANGED <<appliedHash, wanted, call>> /\ call = NoCall
    BY <1>6 DEF RefreshFails, RefreshReady
  <2>4. CASE disk' = [config |-> applied', hash |-> appliedHash, resolved |-> resolved, stale |-> dnsStale]
    BY <1>1, <2>1, <2>2, <2>3, <2>4, DurableRewrites
  <2>5. CASE PersistCurrent
    BY <1>4, <2>1, <2>3, <2>5
  <2> QED BY <1>6, <2>4, <2>5 DEF RefreshFails
<1>7. ASSUME NEW cfg \in Configs, SyncUnresolved(cfg) PROVE Durable'
  <2>1. UNCHANGED <<applied, appliedHash, wanted, call>> /\ call = NoCall
    BY <1>7 DEF SyncUnresolved
  <2>2. Meets(applied', applied)
    BY <1>2, <2>1
  <2>3. CASE PersistCurrent
    BY <1>4, <2>1, <2>2, <2>3
  <2>4. CASE UNCHANGED disk
    BY <1>1, <2>1, <2>2, <2>4, DurableRewrites
  <2> QED BY <1>7, <2>3, <2>4 DEF SyncUnresolved
<1> QED BY <1>3, <1>5, <1>6, <1>7

LEMMA NextDurable ==
  ASSUME IInv, IInv', Durable, [Next]_vars
  PROVE  Durable'
<1>1. CASE Persist
  BY <1>1, PersistDurable
<1>2. CASE \/ \E cfg \in Configs, targets \in Resolved : Sync(cfg, targets)
           \/ \E targets \in Resolved : RefreshChanged(targets) \/ RestoreApplies(targets)
  BY <1>2, BeginsDurable
<1>3. CASE RestoreKeeps \/ RestoreFails
  BY <1>3, LoadDurable
<1>4. CASE ApplyFails \/ RefreshSame \/ RefreshFails \/ \E cfg \in Configs : SyncUnresolved(cfg)
  BY <1>4, RewriteDurable
<1>5. CASE UpdateChain \/ UpdateTable
  <2>1. UNCHANGED <<disk, wanted, applied, appliedHash>>
    BY <1>5 DEF UpdateChain, UpdateTable, memory
  <2>2. call.step \in Applying /\ call' = [call EXCEPT !.step = call'.step]
    BY <1>5 DEF UpdateChain, UpdateTable, Proceed, Applying, IInv, TypeOK
  <2> QED BY <2>1, <2>2, DurableFrame
<1>6. CASE call' = NoCall /\ UNCHANGED <<disk, wanted, applied, appliedHash>>
  BY <1>6, DurableFrame DEF NoCall, Applying
<1>7. CASE UNCHANGED <<call, disk, wanted, applied, appliedHash>>
  BY <1>7 DEF Durable, FileIsWanted, MemoryIsWanted, CallIsWanted
<1>8. CASE AgentRestarts
  BY <1>8, DurableFrame DEF AgentRestarts, Restoring, NoCall, Applying
<1>9. CASE RestoreNothing \/ RestoreUnreadable
  BY <1>6, <1>9 DEF RestoreNothing, RestoreUnreadable, memory
<1>10. ASSUME NEW cfg \in Configs, SyncRefused(cfg) PROVE Durable'
  BY <1>7, <1>10 DEF SyncRefused
<1>11. ASSUME NEW inbounds \in CoreConfigs \cup {{}}, StartCore(inbounds) PROVE Durable'
  BY <1>7, <1>11 DEF StartCore, memory
<1>12. ASSUME NEW answer \in SUBSET Addresses, DNSChanges(answer) PROVE Durable'
  BY <1>7, <1>12 DEF DNSChanges, memory
<1>13. CASE TableFlushed \/ RefreshNothing \/ UNCHANGED vars
  BY <1>7, <1>13 DEF TableFlushed, RefreshNothing, vars, memory
<1> QED BY <1>1, <1>2, <1>3, <1>4, <1>5, <1>8, <1>9, <1>10, <1>11, <1>12, <1>13 DEF Next, Apply, Refresh

\* At every step the state file holds the configuration that was acknowledged
\* last, and between operations it is what is in memory: a restart at any
\* moment resumes the same scope.
THEOREM PersistenceSafety == Spec => []DiskIsMemory
<1>1. IInv /\ Durable => DiskIsMemory
  BY DEF DiskIsMemory, IInv, MemoryIsDisk, Durable, FileIsWanted
<1>2. Init => Durable
  BY DurableStarts
<1>3. IInv /\ IInv' /\ Durable /\ [Next]_vars => Durable'
  BY NextDurable
<1> QED BY <1>1, <1>2, <1>3, Inductive, PTL DEF Spec

\* No port is claimed twice, by the rules in memory or by those that the
\* kernel still redirects, whatever the order of syncs and starts of the core.
THEOREM PortSafety == Spec => []NoPortConflict
<1>1. IInv => NoPortConflict
  <2> SUFFICES ASSUME IInv PROVE NoPortConflict
    OBVIOUS
  <2>1. listens \in CoreConfigs \cup {{}} /\ applied \in Configs /\ resolved \in Resolved
    BY DEF IInv, TypeOK
  <2>2. Apart(DOMAIN applied)
    BY <2>1, ConfigShape, ConflictFreeIsApart DEF IInv, RulesAreFree, Conflicts
  <2>3. ASSUME table # None, ~lastError, ~unpersisted PROVE Apart(DOMAIN table.targets)
    <3>1. table.targets \in Resolved /\ DOMAIN table.targets \in SUBSET Rules
      BY <2>3, ResolvedShape DEF IInv, TypeOK, Table
    <3>2. CASE call.step = "persist"
      <4>1. call.targets = table.targets /\ ~Conflicts(call.targets)
        BY <2>3, <3>2 DEF IInv, CallIsKnown, Applying
      <4> QED BY <2>1, <3>1, <4>1, ConflictFreeIsApart DEF Conflicts
    <3>3. CASE call.step = "restore"
      <4>1. disk # None /\ table.targets = disk.resolved
        BY <2>3, <3>3 DEF IInv, TableIsDisk
      <4>2. ~RuleConflict(DOMAIN table.targets)
        BY <4>1 DEF IInv, FileIsSound
      <4>3. ~CoreConflict(DOMAIN table.targets, listens)
        BY <3>3, NothingToMeet DEF IInv, CallIsKnown
      <4> QED BY <2>1, <3>1, <4>2, <4>3, ConflictFreeIsApart
    <3>4. CASE call.step \notin {"persist", "restore"}
      <4>1. disk # None /\ table.targets = disk.resolved
        BY <2>3, <3>4 DEF IInv, TableIsDisk
      <4>2. appliedHash # None
        BY <2>3, <3>4, <4>1 DEF IInv, LoadedUnlessError
      <4>3. DOMAIN table.targets = DOMAIN applied
        BY <4>1, <4>2 DEF IInv, MemoryIsDisk
      <4> QED BY <2>2, <4>3
    <3> QED BY <3>2, <3>3, <3>4
  <2> QED BY <2>2, <2>3 DEF NoPortConflict
<1> QED BY <1>1, Inductive, PTL
=============================================================================
