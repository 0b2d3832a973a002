------------------------------ MODULE Forwarding ------------------------------
(***************************************************************************)
(* The forwarding service (internal/forwarding): rules that redirect a     *)
(* port of the node to another host through an nftables table, the managed *)
(* chain of the host firewall that lets the flows pass, the state file,    *)
(* and the periodic refresh of DNS targets.  SyncWithHash, RefreshDNS and  *)
(* Restore validate, update the chain, update the table, persist and only  *)
(* then change the memory; any of these fails or is cut off by a restart   *)
(* of the agent.  All callers hold coreMu, so one runs at a time.          *)
(*                                                                         *)
(* Data: a configuration maps the identifiers of its enabled rules to      *)
(* their targets (the empty one is a disabled service); the port and the   *)
(* protocol of a rule go with its identifier.  There is one host name.  The *)
(* panel's hash of a configuration is the configuration.                   *)
(***************************************************************************)
EXTENDS Naturals, FiniteSets

CONSTANTS
  Rules,          \* rules: identifier, listen port and protocol
  CoreConfigs,    \* configurations of sing-box: sets of inbounds, each with its
                  \* listen address, port, network and type
  Services,       \* what other programs may listen on or redirect at any moment
  Addresses,      \* IPv4 addresses
  Host,           \* a target that is a host name
  None,           \* no hash, no file, no table
  DropPolicy,     \* the host's FORWARD policy is drop
  EarlierFile,    \* the agent may start with a state file that holds host names
  MaxFaults,      \* bound: commands and writes that fail
  MaxRestarts,    \* bound: restarts of the agent or the host
  MaxDNSChanges   \* bound: changes of a host name's addresses

PartialFunctions(T) == UNION {[R -> T] : R \in SUBSET Rules}
Configs == PartialFunctions(Addresses \cup {Host})
Resolved == PartialFunctions(Addresses)
Nothing == [r \in {} |-> Host]

File == [config : Configs, hash : Configs, resolved : Resolved, stale : BOOLEAN]
Table == [hash : Configs, targets : Resolved]

ASSUME ForwardingAssumption ==
  /\ \A r \in Rules : r.port \in Nat \ {0} /\ r.protocol \in {"TCP", "UDP", "TCP_UDP"}
  /\ \A i \in UNION CoreConfigs :
       i.port \in Nat /\ i.network \subseteq {"TCP", "UDP"} /\ i.type \in {"vless", "tuic", "shadowsocks"}
  /\ Host \notin Addresses
  /\ None \notin Configs /\ None \notin File /\ None \notin Table
  /\ DropPolicy \in BOOLEAN /\ EarlierFile \in BOOLEAN
  /\ MaxFaults \in Nat /\ MaxRestarts \in Nat /\ MaxDNSChanges \in Nat

VARIABLES
  applied,      \* Service.applied
  appliedHash,  \* Service.appliedHash; None while appliedAt is nil
  resolved,     \* Service.resolved
  lastError,    \* Service.lastError # ""
  dnsStale,     \* Service.dnsStale
  disk,         \* the state file
  table,        \* the nftables table: the hash in its comment and its targets
  chain,        \* the targets that REMNANODE_FORWARD accepts
  dns,          \* what the host name resolves to; {} = no answer
  listens,      \* the inbounds of the running sing-box
  call          \* the operation under way: its kind, step, and locals

\* History: the configuration of the last successful sync, whether the table
\* was changed by an apply that did not get to the end, whether the agent began
\* with the state file of an earlier release, and the faults so far.
VARIABLES wanted, unpersisted, earlier, faults

memory == <<applied, appliedHash, resolved, lastError, dnsStale>>
vars == <<memory, disk, table, chain, dns, listens, call, wanted, unpersisted, earlier, faults>>

Steps == {"idle", "restore", "firewall", "table", "persist"}

\* Every variable of the service, the host and DNS has its type; the state
\* file and the table carry addresses for every rule they name.
TypeOK ==
  /\ applied \in Configs /\ resolved \in Resolved
  /\ appliedHash \in Configs \cup {None}
  /\ lastError \in BOOLEAN /\ dnsStale \in BOOLEAN
  /\ disk \in File \cup {None}
  /\ table \in Table \cup {None}
  /\ chain \in Resolved
  /\ dns \in SUBSET Addresses
  /\ listens \in CoreConfigs \cup {{}}
  /\ call \in [step : Steps, kind : {"none", "sync", "refresh", "restore"},
               hash : Configs, targets : Resolved]
  /\ wanted \in Configs /\ unpersisted \in BOOLEAN /\ earlier \in BOOLEAN
  /\ faults \in [failed : 0..MaxFaults, agent : 0..MaxRestarts, dns : 0..MaxDNSChanges]

NoCall == [step |-> "idle", kind |-> "none", hash |-> Nothing, targets |-> Nothing]
Restoring == [NoCall EXCEPT !.step = "restore"]

(***************************************************************************)
(* No file yet, or the file and the table of a release that stored host    *)
(* names as they are (TestRefreshDNSKeepsLastKnownGoodAndPersistsStale-    *)
(* Status writes such a file).                                             *)
(***************************************************************************)
Init ==
  /\ applied = Nothing /\ appliedHash = None /\ resolved = Nothing
  /\ lastError = FALSE /\ dnsStale = FALSE
  /\ \/ /\ disk = None /\ table = None /\ chain = Nothing /\ wanted = Nothing
        /\ earlier = FALSE
     \/ /\ EarlierFile
        /\ earlier = TRUE
        /\ \E rule \in Rules : \E targets \in [{rule} -> Addresses] :
             LET hosts == [r \in {rule} |-> Host]
             IN  /\ disk = [config |-> hosts, hash |-> hosts, resolved |-> targets, stale |-> FALSE]
                 /\ table = [hash |-> hosts, targets |-> targets]
                 /\ chain = IF DropPolicy THEN targets ELSE Nothing
                 /\ wanted = hosts
  /\ dns \in {{a} : a \in Addresses}
  /\ listens = {}
  /\ call = Restoring
  /\ unpersisted = FALSE
  /\ faults = [failed |-> 0, agent |-> 0, dns |-> 0]

Fault ==
  /\ faults.failed < MaxFaults
  /\ faults' = [faults EXCEPT !.failed = @ + 1]

-----------------------------------------------------------------------------
\* Validation and DNS.

\* resolveTargetIPv4: a literal is itself, a host name keeps the address it
\* had if that is still among the answers.
ResolvesTo(r, target, known, address) ==
  IF target # Host THEN address = target
  ELSE /\ address \in dns
       /\ r \in DOMAIN known /\ known[r] \in dns => address = known[r]

Resolvable(cfg) == \A r \in DOMAIN cfg : cfg[r] = Host => dns # {}

-----------------------------------------------------------------------------
\* Ports.

protocolsOverlap(left, right) == left = "TCP_UDP" \/ right = "TCP_UDP" \/ left = right

SamePort(x, y) == x.port = y.port /\ protocolsOverlap(x.protocol, y.protocol)

\* Mutant: a type that is not in the list is taken for TCP.
inferProtocolsTCP(inbound) ==
  IF inbound.network # {} THEN inbound.network
  ELSE IF inbound.type = "tuic" THEN {"UDP"} ELSE {"TCP"}

\* The network of an inbound, or what its type implies; one type of each kind
\* stands for the others.
inferProtocols(inbound) ==
  IF inbound.network # {} THEN inbound.network
  ELSE CASE inbound.type = "vless" -> {"TCP"}
         [] inbound.type = "tuic"  -> {"UDP"}
         [] OTHER                  -> {"TCP", "UDP"}

\* ExtractCoreListeners: an inbound on the loopback address or without a port
\* is none.
CoreListeners(inbounds) ==
  UNION {[port : {i.port}, protocol : inferProtocols(i)] :
           i \in {x \in inbounds : x.listen # "loopback" /\ x.port # 0}}

RuleConflict(rules) == \E left, right \in rules : left # right /\ SamePort(left, right)

CoreConflict(rules, inbounds) ==
  \E r \in rules, listener \in CoreListeners(inbounds) : SamePort(r, listener)

Conflicts(cfg) == RuleConflict(DOMAIN cfg) \/ CoreConflict(DOMAIN cfg, listens)

\* detectSocketConflicts or detectNFTConflicts finds one of the other programs.
ServiceConflict(cfg) == \E r \in DOMAIN cfg, other \in Services : SamePort(r, other)

\* validateLocked succeeds with these targets.
Validates(cfg, known, targets) ==
  /\ ~Conflicts(cfg)
  /\ DOMAIN targets = DOMAIN cfg
  /\ \A r \in DOMAIN cfg : ResolvesTo(r, cfg[r], known, targets[r])

\* It fails, and has replaced some of the host names.
PartlyResolved(cfg, known) ==
  {partly \in [DOMAIN cfg -> Addresses \cup {Host}] :
     \A r \in DOMAIN cfg : partly[r] = cfg[r] \/ ResolvesTo(r, cfg[r], known, partly[r])}

HasHostname(cfg) == \E r \in DOMAIN cfg : cfg[r] = Host

TableMatches(hash) == table # None /\ hash # None /\ table.hash = hash

\* runtimeStateLocked; a degraded state is an applied one for every caller.
RuntimeState ==
  IF lastError THEN "error"
  ELSE IF DOMAIN applied = {} THEN "disabled"
  ELSE IF TableMatches(appliedHash) THEN "applied" ELSE "error"

-----------------------------------------------------------------------------
\* applyPreparedLocked, from the host firewall on.  validateLocked has
\* replaced the targets in the caller's configuration (they share the rules).

Proceed(step) == call' = [call EXCEPT !.step = step]

FirewallOf(targets) == IF DropPolicy THEN targets ELSE Nothing

UpdateChain ==
  /\ call.step = "firewall"
  /\ chain' = FirewallOf(call.targets)
  /\ Proceed("table")
  /\ UNCHANGED <<memory, disk, table, dns, listens, wanted, unpersisted, earlier, faults>>

UpdateTable ==
  /\ call.step = "table"
  /\ table' = IF DOMAIN call.targets = {} THEN None
              ELSE [hash |-> call.hash, targets |-> call.targets]
  /\ Proceed("persist")
  /\ UNCHANGED <<memory, disk, chain, dns, listens, wanted, unpersisted, earlier, faults>>

\* Mutant: the memory changes but the file keeps the old addresses.
PersistStaleTargets ==
  /\ call.step = "persist"
  /\ disk' = [config |-> call.targets, hash |-> call.hash, resolved |-> resolved, stale |-> FALSE]
  /\ applied' = call.targets /\ appliedHash' = call.hash /\ resolved' = call.targets
  /\ dnsStale' = FALSE
  /\ lastError' = FALSE
  /\ wanted' = IF call.kind = "sync" THEN call.hash ELSE wanted
  /\ call' = NoCall
  /\ unpersisted' = FALSE
  /\ UNCHANGED <<table, chain, dns, listens, earlier, faults>>

\* Restore does not touch lastError, which is empty then.
Persist ==
  /\ call.step = "persist"
  /\ disk' = [config |-> call.targets, hash |-> call.hash, resolved |-> call.targets, stale |-> FALSE]
  /\ applied' = call.targets /\ appliedHash' = call.hash /\ resolved' = call.targets
  /\ dnsStale' = FALSE
  /\ lastError' = FALSE
  /\ wanted' = IF call.kind = "sync" THEN call.hash ELSE wanted
  /\ call' = NoCall
  /\ unpersisted' = FALSE
  /\ UNCHANGED <<table, chain, dns, listens, earlier, faults>>

\* persistCurrentLocked, whose error nobody looks at.
PersistCurrent ==
  \/ /\ appliedHash # None
     /\ disk' = [config |-> applied', hash |-> appliedHash, resolved |-> resolved, stale |-> dnsStale']
     /\ UNCHANGED faults
  \/ /\ appliedHash = None
     /\ UNCHANGED <<disk, faults>>
  \/ /\ appliedHash # None
     /\ Fault
     /\ UNCHANGED disk

\* Mutant: a failed apply is not remembered.
ApplyFailsSilently ==
  /\ call.step \in {"firewall", "table", "persist"}
  /\ Fault
  /\ UNCHANGED lastError
  /\ call' = NoCall
  /\ UNCHANGED <<applied, appliedHash, resolved, dnsStale, disk, table, chain, dns, listens, wanted, unpersisted, earlier>>

\* nft or the write of the file fails: the steps done so far stay done.
ApplyFails ==
  /\ call.step \in {"firewall", "table", "persist"}
  /\ Fault
  /\ lastError' = TRUE
  /\ disk' \in IF call.kind = "refresh"
               THEN {disk, [config |-> applied, hash |-> appliedHash, resolved |-> resolved,
                            stale |-> dnsStale]}
               ELSE {disk}
  /\ call' = NoCall
  /\ unpersisted' = (unpersisted \/ call.step = "persist")
  /\ UNCHANGED <<applied, appliedHash, resolved, dnsStale, table, chain, dns, listens, wanted, earlier>>

-----------------------------------------------------------------------------
\* SyncWithHash.

Sync(cfg, targets) ==
  /\ call = NoCall
  /\ Validates(cfg, resolved, targets)
  /\ call' = [step |-> "firewall", kind |-> "sync", hash |-> cfg, targets |-> targets]
  /\ UNCHANGED <<memory, disk, table, chain, dns, listens, wanted, unpersisted, earlier, faults>>

\* Two rules or a rule and the core claim one port, another program has the
\* port, or a command fails.
SyncRefused(cfg) ==
  /\ call = NoCall
  /\ Resolvable(cfg)
  /\ \/ (Conflicts(cfg) \/ ServiceConflict(cfg)) /\ UNCHANGED faults
     \/ Fault
  /\ lastError' = TRUE
  /\ UNCHANGED <<applied, appliedHash, resolved, dnsStale, disk, table, chain, dns, listens, call, wanted, unpersisted, earlier>>

SyncUnresolved(cfg) ==
  /\ call = NoCall
  /\ ~Resolvable(cfg)
  /\ lastError' = TRUE
  /\ dnsStale' = (dnsStale \/ DOMAIN resolved # {})
  /\ UNCHANGED <<applied, appliedHash, resolved, table, chain, dns, listens, call, wanted, unpersisted, earlier>>
  /\ IF DOMAIN resolved # {} THEN PersistCurrent ELSE UNCHANGED <<disk, faults>>

-----------------------------------------------------------------------------
\* RefreshDNS.  validateLocked works on Service.applied itself: on success
\* its host names are gone, on failure those in front of the failing one.

RefreshReady == call = NoCall /\ HasHostname(applied)

\* No rule has a host name: nothing is done.
RefreshNothing ==
  /\ call = NoCall /\ ~HasHostname(applied)
  /\ UNCHANGED vars

RefreshSame ==
  /\ RefreshReady
  /\ Validates(applied, resolved, resolved)
  /\ applied' = resolved
  /\ dnsStale' = FALSE
  /\ lastError' = FALSE
  /\ UNCHANGED <<appliedHash, resolved, table, chain, dns, listens, call, wanted, unpersisted, earlier>>
  /\ PersistCurrent

RefreshChanged(targets) ==
  /\ RefreshReady
  /\ Validates(applied, resolved, targets)
  /\ targets # resolved
  /\ applied' = targets
  /\ call' = [step |-> "firewall", kind |-> "refresh", hash |-> appliedHash, targets |-> targets]
  /\ UNCHANGED <<appliedHash, resolved, lastError, dnsStale, disk, table, chain, dns, listens, wanted, unpersisted, earlier, faults>>

RefreshFails ==
  /\ RefreshReady
  /\ applied' \in PartlyResolved(applied, resolved)
  /\ lastError' = TRUE
  /\ UNCHANGED <<appliedHash, resolved, table, chain, dns, listens, call, wanted, unpersisted, earlier>>
  /\ \/ /\ ~Resolvable(applied)
        /\ dnsStale' = (DOMAIN resolved # {})
        /\ PersistCurrent
     \/ /\ Fault   \* no route or no interface
        /\ UNCHANGED dnsStale
        /\ disk' = [config |-> applied', hash |-> appliedHash, resolved |-> resolved, stale |-> dnsStale]

-----------------------------------------------------------------------------
\* Restore, the first thing a new agent does.

RestoreNothing ==
  /\ call = Restoring /\ disk = None
  /\ call' = NoCall
  /\ UNCHANGED <<memory, disk, table, chain, dns, listens, wanted, unpersisted, earlier, faults>>

\* The file cannot be read or decoded.
RestoreUnreadable ==
  /\ call = Restoring /\ disk # None
  /\ Fault
  /\ lastError' = TRUE
  /\ call' = NoCall
  /\ UNCHANGED <<applied, appliedHash, resolved, dnsStale, disk, table, chain, dns, listens, wanted, unpersisted, earlier>>

\* The file is loaded into memory, with what validation made of its rules.
Load(cfg) ==
  /\ call = Restoring /\ disk # None
  /\ applied' = cfg
  /\ appliedHash' = disk.hash
  /\ resolved' = disk.resolved
  /\ dnsStale' = disk.stale
  /\ UNCHANGED <<disk, table, dns, listens, wanted, unpersisted, earlier>>

\* A disabled service, or a table that matches and targets that have not
\* changed: only the host firewall is reconciled.
RestoreKeeps ==
  /\ disk # None
  /\ \/ DOMAIN disk.config = {}
     \/ TableMatches(disk.hash) /\ Validates(disk.config, disk.resolved, disk.resolved)
  /\ Load(disk.resolved)
  /\ \/ chain' = FirewallOf(disk.resolved) /\ lastError' = FALSE /\ UNCHANGED faults
     \/ Fault /\ lastError' = TRUE /\ UNCHANGED chain
  /\ call' = NoCall

RestoreApplies(targets) ==
  /\ disk # None /\ DOMAIN disk.config # {}
  /\ Validates(disk.config, disk.resolved, targets)
  /\ ~(TableMatches(disk.hash) /\ targets = disk.resolved)
  /\ Load(targets)
  /\ lastError' = FALSE
  /\ call' = [step |-> "firewall", kind |-> "restore", hash |-> disk.hash, targets |-> targets]
  /\ UNCHANGED <<chain, faults>>

RestoreFails ==
  /\ disk # None /\ DOMAIN disk.config # {}
  /\ \E partly \in PartlyResolved(disk.config, disk.resolved) : Load(partly)
  /\ \/ ~Resolvable(disk.config) /\ UNCHANGED faults
     \/ ~TableMatches(disk.hash) /\ ServiceConflict(disk.config) /\ UNCHANGED faults
     \/ Fault
  /\ lastError' = TRUE
  /\ call' = NoCall
  /\ UNCHANGED chain

-----------------------------------------------------------------------------
\* The core, and the environment.

\* Manager.Start: ValidateCoreConfig finds no conflict with the rules in force;
\* no inbounds stand for Manager.Stop.
StartCore(inbounds) ==
  /\ call = NoCall
  /\ ~CoreConflict(DOMAIN applied, inbounds)
  /\ listens' = inbounds
  /\ UNCHANGED <<memory, disk, table, chain, dns, call, wanted, unpersisted, earlier, faults>>

DNSChanges(answer) ==
  /\ faults.dns < MaxDNSChanges
  /\ faults' = [faults EXCEPT !.dns = @ + 1]
  /\ dns' = answer
  /\ UNCHANGED <<memory, disk, table, chain, listens, call, wanted, unpersisted, earlier>>

\* Somebody flushes the ruleset of the host.
TableFlushed ==
  /\ table # None
  /\ Fault
  /\ table' = None
  /\ UNCHANGED <<memory, disk, chain, dns, listens, call, wanted, unpersisted, earlier>>

\* The agent restarts, or the host, which empties nftables.
AgentRestarts ==
  /\ faults.agent < MaxRestarts
  /\ faults' = [faults EXCEPT !.agent = @ + 1]
  /\ applied' = Nothing /\ appliedHash' = None /\ resolved' = Nothing
  /\ lastError' = FALSE /\ dnsStale' = FALSE
  /\ listens' = {}
  /\ call' = Restoring
  /\ \/ UNCHANGED <<table, chain>>
     \/ table' = None /\ chain' = Nothing
  /\ unpersisted' = (unpersisted \/ call.step = "persist")
  /\ UNCHANGED <<disk, dns, wanted, earlier>>

-----------------------------------------------------------------------------
Apply == UpdateChain \/ UpdateTable \/ Persist

Refresh == RefreshSame \/ (\E targets \in Resolved : RefreshChanged(targets)) \/ RefreshFails

Next ==
  \/ Apply
  \/ ApplyFails
  \/ \E cfg \in Configs, targets \in Resolved : Sync(cfg, targets)
  \/ \E cfg \in Configs : SyncRefused(cfg) \/ SyncUnresolved(cfg)
  \/ RefreshNothing
  \/ Refresh
  \/ RestoreNothing \/ RestoreUnreadable \/ RestoreKeeps \/ RestoreFails
  \/ \E targets \in Resolved : RestoreApplies(targets)
  \/ \E inbounds \in CoreConfigs \cup {{}} : StartCore(inbounds)
  \/ \E answer \in SUBSET Addresses : DNSChanges(answer)
  \/ TableFlushed
  \/ AgentRestarts

Spec == Init /\ [][Next]_vars

\* The minute ticker refreshes again and again, and an operation that has
\* begun goes on (its commands run under deadlines).
FairSpec ==
  /\ Spec
  /\ WF_vars(Apply)
  /\ WF_vars(Refresh)

-----------------------------------------------------------------------------
(***************************************************************************)
(* Reported is served: while the status is "applied", the kernel forwards  *)
(* to the addresses the service reports and bills for, whatever steps of   *)
(* earlier operations failed, unless an apply changed the table and never  *)
(* got to record it.  What is in memory and on disk has its type.          *)
(***************************************************************************)
AppliedIsServed ==
  /\ TypeOK
  /\ call = NoCall /\ RuntimeState = "applied" /\ ~unpersisted => table.targets = resolved

(***************************************************************************)
(* While the status is "applied", the host firewall lets exactly the       *)
(* forwarded flows pass: an operation that fails after it has changed the  *)
(* managed chain leaves an error that only a complete one clears.  (After  *)
(* a start from a file with host names RefreshDNS clears it too early.)    *)
(***************************************************************************)
FlowsAreAllowed ==
  call = NoCall /\ RuntimeState = "applied" /\ ~earlier => chain = FirewallOf(resolved)

\* These targets are what the configuration asks for, host names resolved or not.
Meets(targets, cfg) ==
  /\ DOMAIN targets = DOMAIN cfg
  /\ \A r \in DOMAIN cfg : cfg[r] # Host => targets[r] = cfg[r]

(***************************************************************************)
(* The state file holds the last sync that was acknowledged, with an       *)
(* address for every rule, at every step: no failed sync, refresh or       *)
(* restore and no restart loses or replaces it.  Between operations it is  *)
(* what is in memory, so that a restart resumes the same scope.            *)
(***************************************************************************)
DiskIsMemory ==
  /\ IF disk = None THEN wanted = Nothing
     ELSE disk.hash = wanted /\ Meets(disk.resolved, wanted)
  /\ call = NoCall /\ appliedHash # None =>
       disk # None /\ disk.hash = appliedHash /\ disk.resolved = resolved

\* The protocols that sing-box serves to the outside for an inbound.
Native == [vless |-> {"TCP"}, tuic |-> {"UDP"}, shadowsocks |-> {"TCP", "UDP"}]

Opens(inbound) ==
  {p \in Native[inbound.type] : inbound.listen = "any" /\ (inbound.network = {} \/ p \in inbound.network)}

\* The protocols of a port that nftables redirects for a rule.
Redirects(rule) == {p \in {"TCP", "UDP"} : rule.protocol \in {p, "TCP_UDP"}}

\* Neither two rules nor a rule and the core meet on a port.
Apart(rules) ==
  /\ \A left, right \in rules :
       left # right /\ left.port = right.port => Redirects(left) \cap Redirects(right) = {}
  /\ \A r \in rules, i \in listens : r.port = i.port => Redirects(r) \cap Opens(i) = {}

(***************************************************************************)
(* No port is claimed twice: the checks of Start and of the sync are each  *)
(* other's complement under coreMu.  It holds of the rules in memory, and  *)
(* of those the kernel still redirects after failed syncs and restores,    *)
(* unless the service reports an error or an apply changed the table and   *)
(* never got to record it: Start looks at the memory alone.                *)
(***************************************************************************)
NoPortConflict ==
  /\ Apart(DOMAIN applied)
  /\ table # None /\ ~lastError /\ ~unpersisted => Apart(DOMAIN table.targets)

\* The table points to an address the host name no longer has.
Outdated(r) ==
  /\ r \in DOMAIN wanted /\ wanted[r] = Host
  /\ dns # {} /\ ~lastError
  /\ table # None /\ r \in DOMAIN table.targets /\ table.targets[r] \notin dns

(***************************************************************************)
(* "RefreshDNS reapplies forwarding only when an enabled hostname resolves *)
(* to a different IPv4 address": a rule does not point to an outdated      *)
(* address for ever.  Not true of the code: the first apply has replaced   *)
(* the host names by addresses.                                            *)
(***************************************************************************)
RefreshFollowsDNS == \A r \in Rules : []<>~Outdated(r)
=============================================================================
