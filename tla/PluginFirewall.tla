--------------------------- MODULE PluginFirewall ---------------------------
(***************************************************************************)
(* The network plugin (src/internal/node/manager.go): the filter lists the *)
(* panel syncs, compiled into the runtime state and loaded into the nft    *)
(* table of the agent one command at a time.  SyncPlugin and the DNS       *)
(* refresh hold coreMu; the requests that block an address, unblock it or  *)
(* recreate the tables do not, and their commands interleave with theirs.  *)
(*                                                                         *)
(* An nft command that meets a missing table, set or element reports "No   *)
(* such file or directory", which runNft takes for success.  The table is  *)
(* absent, has its sets but no rules ("sets"), or drops what its sets hold *)
(* ("full").  The static egress lists (addresses and ports) are loaded     *)
(* like the ingress list, which stands for all three; the two address      *)
(* families are one.  nft is available (nftReady).                         *)
(***************************************************************************)
EXTENDS Integers, FiniteSets, Sequences

CONSTANTS
  IPs,         \* addresses an operator or an ingress list blocks
  Domains,     \* domains an egress list names
  Addresses,   \* addresses a domain resolves to
  Fails,       \* the answer of a lookup that fails
  MaxRequests, \* bound on the requests handled
  MaxFaults,   \* bound on failed nft commands
  MaxRestarts  \* bound on agent restarts

ASSUME PluginAssumption ==
  /\ \A answer \in SUBSET Addresses : answer # Fails
  /\ {MaxRequests, MaxFaults, MaxRestarts} \subseteq Nat

VARIABLES
  plugin,    \* Runtime.plugin
  blocked,   \* Runtime.blockedIPs
  table,     \* the nft table of the agent
  temporary, ingress, egress, \* its sets
  core,      \* the request that holds coreMu, and the command it is at
  recreate,  \* the command a recreate-tables request is at
  connected, \* the addresses with a TCP connection to the node
  blocking,  \* per address, the step a block request is at, 0 without one
  disturbed, \* history: a request outside coreMu, a restart or a failure that
             \* could not be undone has touched the table since it was loaded
  enforced,  \* history: the addresses whose block was answered while the rules
             \* enforced it, until the kernel forgets them
  spared,    \* history: the addresses whose last block killed nothing, because
             \* ss is missing, failed or ignores the address
  requests, faults, restarts

sets == <<temporary, ingress, egress>>
nft == <<table, sets>>
bounds == <<requests, faults, restarts>>
clients == <<connected, blocking, enforced, spared>>
vars == <<plugin, blocked, nft, core, recreate, clients, disturbed, bounds>>

Steps == {"delete", "sets", "rules", "ingress", "egress", "done"}

NoDomain == [d \in Domains |-> {}]

emptyPluginState ==
  [ingress |-> {}, domains |-> {}, resolved |-> NoDomain, egress |-> {}, error |-> FALSE]

PluginStates ==
  [ingress : SUBSET IPs, domains : SUBSET Domains, resolved : [Domains -> SUBSET Addresses],
   egress : SUBSET Addresses, error : BOOLEAN]

Idle == [op |-> "idle", step |-> "done", restoring |-> FALSE, target |-> emptyPluginState]

Init ==
  /\ plugin = emptyPluginState
  /\ blocked = {}
  /\ table = "absent" /\ temporary = {} /\ ingress = {} /\ egress = {}
  /\ core = Idle /\ recreate = "done"
  /\ connected = {} /\ blocking = [ip \in IPs |-> 0] /\ enforced = {} /\ spared = {}
  /\ disturbed = FALSE
  /\ requests = 0 /\ faults = 0 /\ restarts = 0

Request == requests < MaxRequests /\ requests' = requests + 1

-----------------------------------------------------------------------------
(* Compiling a plugin. *)

Answers == [Domains -> (SUBSET Addresses) \cup {Fails}]

(* A domain that cannot be looked up keeps the addresses it had. *)
Resolved(domains, answer, previous) ==
  [d \in Domains |-> IF d \notin domains THEN {}
                     ELSE IF answer[d] = Fails THEN previous[d] ELSE answer[d]]

(* Mutant: the check for a domain without addresses is missing. *)
ResolvesAlways(domains, answer, previous) == TRUE

(* resolveEgressDomains fails for a domain that has no address. *)
Resolves(domains, answer, previous) ==
  \A d \in domains : Resolved(domains, answer, previous)[d] # {}

Blocked(resolved) == UNION {resolved[d] : d \in Domains}

(* compilePluginState. *)
Compiled(list, domains, answer) ==
  LET resolved == Resolved(domains, answer, plugin.resolved)
  IN  [ingress |-> list, domains |-> domains, resolved |-> resolved,
       egress |-> Blocked(resolved), error |-> FALSE]

-----------------------------------------------------------------------------
(* Requests under coreMu. *)

Begin(op, step, target) ==
  core' = [op |-> op, step |-> step, restoring |-> FALSE, target |-> target]

(* SyncPlugin with a plugin that compiles: the table is rebuilt from it. *)
SyncPlugin(list, domains, answer) ==
  /\ core = Idle /\ Request
  /\ Resolves(domains, answer, plugin.resolved)
  /\ Begin("sync", "delete", Compiled(list, domains, answer))
  /\ disturbed' = (recreate # "done")
  /\ UNCHANGED <<plugin, blocked, nft, recreate, faults, restarts, clients>>

(* The plugin names a missing shared list or a domain without addresses: the
   current one stays and carries the error. *)
SyncRejected ==
  /\ core = Idle /\ Request
  /\ plugin' = [plugin EXCEPT !.error = TRUE]
  /\ UNCHANGED <<blocked, nft, core, recreate, disturbed, faults, restarts, clients>>

(* CompilePlugin compiles a plugin to report on it and changes nothing. *)
CompilePlugin == core = Idle /\ UNCHANGED vars

(* SyncPlugin without a plugin: the table is rebuilt empty. *)
RemovePlugin ==
  /\ core = Idle /\ Request
  /\ Begin("remove", "delete", emptyPluginState)
  /\ disturbed' = (recreate # "done")
  /\ UNCHANGED <<plugin, blocked, nft, recreate, faults, restarts, clients>>

Refreshed(answer) ==
  LET resolved == Resolved(plugin.domains, answer, plugin.resolved)
  IN  [plugin EXCEPT !.resolved = resolved, !.egress = Blocked(resolved), !.error = FALSE]

(* How reflect.DeepEqual may compare the blocked addresses.  Without any it
   compares a nil slice with an empty one, which differ; a list that is empty
   here may still have static addresses, for which the ingress list stands. *)
EgressDiffers(answer) == Refreshed(answer).egress # plugin.egress \/ plugin.egress = {}
EgressEqual(answer) ==
  Refreshed(answer).egress = plugin.egress /\ plugin.egress \cup plugin.ingress # {}

(* The lists, loaded anew, are what the kernel drops: the table has its rules
   and nobody rebuilds it, or there is nothing to drop. *)
LoadSuffices(target) ==
  recreate = "done" /\ (table = "full" \/ target.ingress \cup target.egress = {})

(* RefreshForwardingDNS: a list that differs is loaded into the sets, without
   rebuilding the table; when nothing changed only the error is cleared. *)
Refresh(answer) ==
  /\ core = Idle /\ Request
  /\ Resolves(plugin.domains, answer, plugin.resolved)
  /\ \/ /\ EgressDiffers(answer)
        /\ Begin("refresh", "ingress", Refreshed(answer)) /\ UNCHANGED plugin
        /\ disturbed' = (disturbed /\ ~LoadSuffices(Refreshed(answer)))
     \/ /\ EgressEqual(answer)
        /\ plugin' = Refreshed(answer) /\ UNCHANGED <<core, disturbed>>
  /\ UNCHANGED <<blocked, nft, recreate, faults, restarts, clients>>

RefreshFails(answer) ==
  /\ core = Idle /\ Request
  /\ ~Resolves(plugin.domains, answer, plugin.resolved)
  /\ plugin' = [plugin EXCEPT !.error = TRUE]
  /\ UNCHANGED <<blocked, nft, core, recreate, disturbed, faults, restarts, clients>>

-----------------------------------------------------------------------------
(* The nft commands, by the step of the request that issues them. *)

DeleteTable ==
  table' = "absent" /\ temporary' = {} /\ ingress' = {} /\ egress' = {}

AddSets ==
  /\ table' = IF table = "absent" THEN "sets" ELSE table
  /\ UNCHANGED sets

AddRules ==
  /\ table' = IF table = "absent" THEN table ELSE "full"
  /\ UNCHANGED sets

(* nftSyncSet and nftSyncPortSet: flush, then add. *)
SyncSet(step, target) ==
  /\ ingress' = IF step = "ingress" /\ table # "absent" THEN target.ingress ELSE ingress
  /\ egress' = IF step = "egress" /\ table # "absent" THEN target.egress ELSE egress
  /\ UNCHANGED <<table, temporary>>

Command(step, target) ==
  CASE step = "delete" -> DeleteTable
    [] step = "sets"   -> AddSets
    [] step = "rules"  -> AddRules
    [] OTHER           -> SyncSet(step, target)

(* A command that fails changes nothing, except that a set may be flushed. *)
CommandFails(step) ==
  /\ faults < MaxFaults
  /\ faults' = faults + 1
  /\ ingress' \in IF step = "ingress" THEN {ingress, {}} ELSE {ingress}
  /\ egress' \in IF step = "egress" THEN {egress, {}} ELSE {egress}
  /\ UNCHANGED <<table, temporary>>

(* recreateNFTables, then syncNFTState, which a removal does not need. *)
After(step, op) ==
  CASE step = "delete"  -> "sets"
    [] step = "sets"    -> "rules"
    [] step = "rules"   -> IF op = "remove" THEN "done" ELSE "ingress"
    [] step = "ingress" -> "egress"
    [] step = "egress"  -> "done"

CoreStep ==
  /\ core.step # "done"
  /\ Command(core.step, core.target)
  /\ core' = [core EXCEPT !.step = After(@, core.op)]
  /\ enforced' = enforced \cap temporary'
  /\ UNCHANGED <<plugin, blocked, recreate, connected, blocking, spared, disturbed, bounds>>

(* The error of deleting the table is ignored: a sync loads the sets anew all
   the same, but a removal leaves the old lists in the kernel and is accepted. *)
DeleteFails ==
  /\ core.step = "delete"
  /\ CommandFails("delete")
  /\ core' = [core EXCEPT !.step = "sets"]
  /\ disturbed' = (disturbed \/ core.op = "remove")
  /\ UNCHANGED <<plugin, blocked, recreate, requests, restarts, clients>>

CoreFails == core.step \notin {"done", "delete"} /\ CommandFails(core.step)

(* Mutant: the rules are not put back. *)
StepFailsUnrestored ==
  /\ CoreFails /\ core.op # "remove" /\ ~core.restoring
  /\ plugin' = [plugin EXCEPT !.error = TRUE]
  /\ core' = Idle
  /\ UNCHANGED <<blocked, recreate, disturbed, requests, restarts, clients>>

(* The sync or the refresh fails: restorePluginNFTState rebuilds the table
   from the plugin in force. *)
StepFails ==
  /\ CoreFails /\ core.op # "remove" /\ ~core.restoring
  /\ core' = [core EXCEPT !.restoring = TRUE, !.step = "delete", !.target = plugin]
  /\ UNCHANGED <<plugin, blocked, recreate, disturbed, requests, restarts, clients>>

(* So does the rebuild: it is given up. *)
RestoreFails ==
  /\ CoreFails /\ core.restoring
  /\ plugin' = [plugin EXCEPT !.error = TRUE]
  /\ core' = Idle
  /\ disturbed' = TRUE
  /\ UNCHANGED <<blocked, recreate, requests, restarts, clients>>

(* The removal fails: the plugin is forgotten whatever the table holds. *)
RemoveFails ==
  /\ CoreFails /\ core.op = "remove"
  /\ plugin' = [emptyPluginState EXCEPT !.error = TRUE]
  /\ core' = Idle
  /\ disturbed' = TRUE
  /\ UNCHANGED <<blocked, recreate, requests, restarts, clients>>

(* The request is answered and coreMu released. *)
Commit ==
  /\ core # Idle /\ core.step = "done"
  /\ plugin' = IF core.restoring THEN [plugin EXCEPT !.error = TRUE] ELSE core.target
  /\ core' = Idle
  /\ UNCHANGED <<blocked, nft, recreate, disturbed, bounds, clients>>

-----------------------------------------------------------------------------
(* Requests that do not take coreMu. *)

RecreateTables ==
  /\ recreate = "done" /\ Request
  /\ recreate' = "delete"
  /\ disturbed' = TRUE
  /\ UNCHANGED <<plugin, blocked, nft, core, faults, restarts, clients>>

RecreateStep ==
  /\ recreate # "done"
  /\ \/ Command(recreate, plugin) /\ UNCHANGED faults
     \/ recreate = "delete" /\ CommandFails(recreate)
  /\ recreate' = After(recreate, "remove")
  /\ enforced' = enforced \cap temporary'
  /\ UNCHANGED <<plugin, blocked, core, connected, blocking, spared, disturbed, requests, restarts>>

RecreateFails ==
  /\ recreate \in {"sets", "rules"}
  /\ CommandFails(recreate)
  /\ recreate' = "done"
  /\ UNCHANGED <<plugin, blocked, core, disturbed, requests, restarts, clients>>

Drops(set) == IF table = "full" THEN set ELSE {}

(* Mutant: the connections are killed before the address is blocked. *)
BlockStepsSwapped == <<"ss", "nft">>

(* What blockIPWithTimeout does, in this order, once the address is recorded. *)
BlockSteps == <<"nft", "ss">>

IsAt(ip, step) == blocking[ip] # 0 /\ BlockSteps[blocking[ip]] = step

(* The next step, or the answer. *)
BlockProceeds(ip) ==
  LET last == blocking[ip] = Len(BlockSteps)
  IN  /\ blocking' = [blocking EXCEPT ![ip] = IF last THEN 0 ELSE @ + 1]
      /\ enforced' = IF last THEN enforced \cup ({ip} \cap Drops(temporary)') ELSE enforced

(* A block request for an address; one at a time for each. *)
BlockIP(ip) ==
  /\ Request
  /\ blocking[ip] = 0
  /\ blocked' = blocked \cup {ip}
  /\ blocking' = [blocking EXCEPT ![ip] = 1]
  /\ UNCHANGED <<plugin, nft, core, recreate, connected, enforced, spared, disturbed, faults, restarts>>

(* nft add element, which silently does nothing while there is no table; an
   error ends the request. *)
AddElement(ip) ==
  /\ IsAt(ip, "nft")
  /\ \/ /\ temporary' = IF table = "absent" THEN temporary ELSE temporary \cup {ip}
        /\ UNCHANGED <<table, ingress, egress, faults>>
        /\ BlockProceeds(ip)
     \/ /\ CommandFails("temporary")
        /\ blocking' = [blocking EXCEPT ![ip] = 0] /\ UNCHANGED enforced
  /\ UNCHANGED <<plugin, blocked, core, recreate, connected, spared, disturbed, requests, restarts>>

(* ss -K ends the connections of the address.  That it is missing, fails or
   ignores the address is not looked at. *)
dropConnections(ip) ==
  /\ IsAt(ip, "ss")
  /\ \/ connected' = connected \ {ip} /\ spared' = spared \ {ip}
     \/ UNCHANGED connected /\ spared' = spared \cup {ip}
  /\ UNCHANGED <<plugin, blocked, nft, core, recreate, disturbed, bounds>>
  /\ BlockProceeds(ip)

(* A packet of a blocked address does not reach the node. *)
Connect(ip) ==
  /\ ip \notin Drops(temporary) \cup Drops(ingress)
  /\ connected' = connected \cup {ip}
  /\ UNCHANGED <<plugin, blocked, nft, core, recreate, blocking, enforced, spared, disturbed, bounds>>

Disconnect(ip) ==
  /\ connected' = connected \ {ip}
  /\ UNCHANGED <<plugin, blocked, nft, core, recreate, blocking, enforced, spared, disturbed, bounds>>

(* UnblockIPs also takes the address out of the ingress list's set; an error
   ends the request after the first or before the second deletion. *)
UnblockIP(ip) ==
  /\ Request
  /\ blocked' = blocked \ {ip}
  /\ \/ /\ temporary' = temporary \ {ip}
        /\ ingress' = ingress \ {ip}
        /\ disturbed' = (disturbed \/ ip \in ingress)
        /\ UNCHANGED faults
     \/ /\ faults < MaxFaults /\ faults' = faults + 1
        /\ temporary' \in {temporary, temporary \ {ip}}
        /\ UNCHANGED <<ingress, disturbed>>
  /\ enforced' = enforced \cap temporary'
  /\ UNCHANGED <<plugin, table, egress, core, recreate, connected, blocking, spared, restarts>>

(* The kernel forgets a timed block. *)
BlockExpires(ip) ==
  /\ ip \in temporary
  /\ temporary' = temporary \ {ip}
  /\ enforced' = enforced \ {ip}
  /\ UNCHANGED <<plugin, blocked, table, ingress, egress, core, recreate, connected, blocking,
                 spared, disturbed, bounds>>

(* A new agent process: the runtime state is lost, the table is not. *)
AgentRestarts ==
  /\ restarts < MaxRestarts
  /\ restarts' = restarts + 1
  /\ plugin' = emptyPluginState /\ blocked' = {}
  /\ core' = Idle /\ recreate' = "done" /\ blocking' = [ip \in IPs |-> 0]
  /\ disturbed' = TRUE
  /\ UNCHANGED <<nft, connected, enforced, spared, requests, faults>>

Next ==
  \/ \E list \in SUBSET IPs, domains \in SUBSET Domains, answer \in Answers :
       SyncPlugin(list, domains, answer)
  \/ \E answer \in Answers : Refresh(answer) \/ RefreshFails(answer)
  \/ \E ip \in IPs : \/ BlockIP(ip) \/ AddElement(ip) \/ dropConnections(ip)
                     \/ UnblockIP(ip) \/ BlockExpires(ip)
                     \/ Connect(ip) \/ Disconnect(ip)
  \/ SyncRejected \/ CompilePlugin \/ RemovePlugin
  \/ CoreStep \/ DeleteFails \/ StepFails \/ RestoreFails \/ RemoveFails \/ Commit
  \/ RecreateTables \/ RecreateStep \/ RecreateFails
  \/ AgentRestarts

Spec == Init /\ [][Next]_vars

-----------------------------------------------------------------------------
(* Properties. *)

(* Every variable has its type. *)
TypeOK ==
  /\ plugin \in PluginStates
  /\ blocked \subseteq IPs /\ temporary \subseteq IPs /\ ingress \subseteq IPs
  /\ egress \subseteq Addresses
  /\ table \in {"absent", "sets", "full"}
  /\ core \in [op : {"idle", "sync", "remove", "refresh"}, step : Steps,
               restoring : BOOLEAN, target : PluginStates]
  /\ recreate \in Steps
  /\ connected \subseteq IPs /\ blocking \in [IPs -> 0..2]
  /\ enforced \subseteq temporary /\ spared \subseteq IPs
  /\ disturbed \in BOOLEAN

(* The plugin in force is what the kernel drops: after an accepted sync or
   refresh its own lists, after a failed one whose rules could be put back the
   lists of the plugin before it.  Requests outside coreMu, an agent restart
   and a failure that could not be undone void the promise until the next
   sync that runs alone, or the next refresh that loads the lists into a table
   with its rules, or empty lists into any: the refresh of every minute clears
   what a failed removal or the agent before a restart has left. *)
AppliedIsEnforced ==
  /\ TypeOK
  /\ core = Idle /\ ~disturbed =>
       Drops(ingress) = plugin.ingress /\ Drops(egress) = plugin.egress

(* Once a block that the rules enforce was answered, the address has no
   connection until the kernel forgets the block: blockIPWithTimeout blocks
   before it kills, so that no client slips in between.  The exception is an
   address that ss did not act on, which is answered as accepted all the same
   (spared): what it had open before the block stays. *)
BlockedIsCut == enforced \cap connected \subseteq spared

(* A blocked domain always has addresses in the egress list: a lookup that
   fails keeps the last known ones instead of opening the filter. *)
DomainsStayBlocked ==
  \A d \in plugin.domains :
    plugin.resolved[d] # {} /\ plugin.resolved[d] \subseteq plugin.egress

=============================================================================
