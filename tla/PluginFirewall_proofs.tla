----------------------- MODULE PluginFirewall_proofs -----------------------
(***************************************************************************)
(* Proofs about PluginFirewall: for every set of addresses and domains and *)
(* every number of requests, failed commands and restarts, the plugin in   *)
(* force is enforced while nothing outside coreMu disturbs the table, its  *)
(* domains stay blocked, and an address whose enforced block was answered  *)
(* has no connection that ss did not spare.                                *)
(***************************************************************************)
EXTENDS PluginFirewall, TLAPS

\* A compiled plugin blocks exactly the addresses of its domains, and every
\* domain has one.
Consistent(p) ==
  /\ p.egress = Blocked(p.resolved)
  /\ \A d \in p.domains : p.resolved[d] # {}
  /\ \A d \in Domains \ p.domains : p.resolved[d] = {}

PluginsAreConsistent == Consistent(plugin) /\ Consistent(core.target)

\* The request that holds coreMu.
RequestIsSound ==
  /\ core.op = "idle" => core = Idle
  /\ core.op = "remove" => core.target = emptyPluginState /\ ~core.restoring
  /\ core.restoring => core.target = plugin

Enforced(p) == Drops(ingress) = p.ingress /\ Drops(egress) = p.egress

\* What the commands issued so far have built, while nobody else interferes.
BuiltSoFar ==
  /\ core = Idle => Enforced(plugin)
  /\ core # Idle =>
       /\ core.step = "rules" => table # "absent"
       /\ core.step \in {"ingress", "egress"} =>
            table = "full" \/ core.target.ingress \cup core.target.egress = {}
       /\ core.step = "egress" => Drops(ingress) = core.target.ingress
       /\ core.step = "done" => Enforced(core.target)
       /\ core.op = "remove" /\ core.step # "delete" => ingress = {} /\ egress = {}

UndisturbedIsBuilt == ~disturbed => recreate = "done" /\ BuiltSoFar

\* A block that was answered as enforced is in a table that drops it.
CutIsEnforced == BlockedIsCut /\ (enforced # {} => table = "full")

IInv ==
  /\ TypeOK
  /\ PluginsAreConsistent
  /\ RequestIsSound
  /\ UndisturbedIsBuilt
  /\ CutIsEnforced

-----------------------------------------------------------------------------
\* Plugins.

LEMMA EmptyPlugin ==
  /\ emptyPluginState \in PluginStates
  /\ Consistent(emptyPluginState)
  /\ emptyPluginState.ingress = {} /\ emptyPluginState.egress = {}
BY DEF emptyPluginState, PluginStates, NoDomain, Consistent, Blocked

LEMMA PluginWithError ==
  ASSUME NEW p \in PluginStates, NEW e \in BOOLEAN
  PROVE  /\ [p EXCEPT !.error = e] \in PluginStates
         /\ [p EXCEPT !.error = e].ingress = p.ingress
         /\ [p EXCEPT !.error = e].egress = p.egress
         /\ Consistent(p) => Consistent([p EXCEPT !.error = e])
BY DEF PluginStates, Consistent

LEMMA ResolvedType ==
  ASSUME NEW domains \in SUBSET Domains, NEW answer \in Answers,
         NEW previous \in [Domains -> SUBSET Addresses]
  PROVE  /\ Resolved(domains, answer, previous) \in [Domains -> SUBSET Addresses]
         /\ Blocked(Resolved(domains, answer, previous)) \subseteq Addresses
         /\ \A d \in Domains \ domains : Resolved(domains, answer, previous)[d] = {}
<1>1. \A d \in Domains : answer[d] # Fails => answer[d] \subseteq Addresses
  BY DEF Answers
<1>2. Resolved(domains, answer, previous) \in [Domains -> SUBSET Addresses]
  BY <1>1 DEF Resolved
<1>3. Blocked(Resolved(domains, answer, previous)) \subseteq Addresses
  BY <1>2 DEF Blocked
<1>4. \A d \in Domains \ domains : Resolved(domains, answer, previous)[d] = {}
  BY DEF Resolved
<1> QED BY <1>2, <1>3, <1>4

\* A plugin that compiles is consistent.
LEMMA CompiledIsConsistent ==
  ASSUME TypeOK, NEW list \in SUBSET IPs, NEW domains \in SUBSET Domains, NEW answer \in Answers,
         Resolves(domains, answer, plugin.resolved)
  PROVE  /\ Compiled(list, domains, answer) \in PluginStates
         /\ Consistent(Compiled(list, domains, answer))
<1> DEFINE resolved == Resolved(domains, answer, plugin.resolved)
           c == Compiled(list, domains, answer)
<1>1. plugin.resolved \in [Domains -> SUBSET Addresses]
  BY DEF TypeOK, PluginStates
<1>2. /\ resolved \in [Domains -> SUBSET Addresses] /\ Blocked(resolved) \subseteq Addresses
      /\ \A d \in Domains \ domains : resolved[d] = {}
      /\ \A d \in domains : resolved[d] # {}
  BY <1>1, ResolvedType DEF Resolves
<1>3. c = [ingress |-> list, domains |-> domains, resolved |-> resolved,
           egress |-> Blocked(resolved), error |-> FALSE]
  BY DEF Compiled
<1> HIDE DEF resolved, c
<1>4. c \in PluginStates
  BY <1>2, <1>3 DEF PluginStates
<1>5. Consistent(c)
  BY <1>2, <1>3 DEF Consistent
<1> QED BY <1>4, <1>5 DEF c

\* So is a refreshed one; its other lists are those of the plugin in force,
\* and its addresses only change when it names a domain.
LEMMA RefreshedIsConsistent ==
  ASSUME TypeOK, Consistent(plugin), NEW answer \in Answers,
         Resolves(plugin.domains, answer, plugin.resolved)
  PROVE  /\ Refreshed(answer) \in PluginStates
         /\ Consistent(Refreshed(answer))
         /\ Refreshed(answer).ingress = plugin.ingress
         /\ Refreshed(answer).egress # plugin.egress => plugin.egress # {}
<1> DEFINE resolved == Resolved(plugin.domains, answer, plugin.resolved)
           c == Refreshed(answer)
<1>1. plugin \in PluginStates /\ plugin.resolved \in [Domains -> SUBSET Addresses] /\ plugin.domains \in SUBSET Domains
  BY DEF TypeOK, PluginStates
<1>2. /\ resolved \in [Domains -> SUBSET Addresses] /\ Blocked(resolved) \subseteq Addresses
      /\ \A d \in Domains \ plugin.domains : resolved[d] = {}
      /\ \A d \in plugin.domains : resolved[d] # {}
  BY <1>1, ResolvedType DEF Resolves
<1>3. c = [plugin EXCEPT !.resolved = resolved, !.egress = Blocked(resolved), !.error = FALSE]
  BY DEF Refreshed
<1> HIDE DEF resolved, c
<1>4. /\ c \in PluginStates /\ c.ingress = plugin.ingress /\ c.domains = plugin.domains
      /\ c.resolved = resolved /\ c.egress = Blocked(resolved)
  BY <1>1, <1>2, <1>3 DEF PluginStates
<1>5. Consistent(c)
  BY <1>2, <1>4 DEF Consistent
<1>6. ASSUME plugin.egress = {} PROVE c.egress = {}
  <2>1. plugin.domains = {}
    BY <1>1, <1>6 DEF Consistent, Blocked
  <2>2. \A d \in Domains : resolved[d] = {}
    BY <1>2, <2>1
  <2> QED BY <1>4, <2>2 DEF Blocked
<1>7. c.egress # plugin.egress => plugin.egress # {}
  BY <1>6
<1> QED BY <1>4, <1>5, <1>7 DEF c

-----------------------------------------------------------------------------
\* What a step that leaves a part of the state alone keeps.

LEMMA CutFrame ==
  ASSUME CutIsEnforced, enforced' \subseteq enforced, connected' \subseteq connected,
         UNCHANGED spared, enforced' # {} => table' = table
  PROVE  CutIsEnforced'
BY DEF CutIsEnforced, BlockedIsCut

\* The requests under coreMu that only begin, or only note an error.
LEMMA BeginStep ==
  ASSUME IInv, core = Idle, NEW op \in {"sync", "remove"}, NEW target \in PluginStates,
         Consistent(target), op = "remove" => target = emptyPluginState,
         Begin(op, "delete", target), disturbed' = (recreate # "done"),
         UNCHANGED <<plugin, blocked, nft, recreate, clients>>
  PROVE  IInv'
<1> USE DEF nft, sets, clients
<1>1. core' = [op |-> op, step |-> "delete", restoring |-> FALSE, target |-> target]
  BY DEF Begin
<1>2. core'.op = op /\ core'.step = "delete" /\ core'.restoring = FALSE /\ core'.target = target /\ core' # Idle
  BY <1>1 DEF Idle
<1>3. TypeOK'
  BY <1>1 DEF IInv, TypeOK, Steps
<1>4. PluginsAreConsistent' /\ RequestIsSound'
  BY <1>2 DEF IInv, PluginsAreConsistent, RequestIsSound, Consistent
<1>5. UndisturbedIsBuilt'
  BY <1>2 DEF UndisturbedIsBuilt, BuiltSoFar
<1>6. CutIsEnforced'
  BY CutFrame DEF IInv
<1> QED BY <1>3, <1>4, <1>5, <1>6 DEF IInv

LEMMA NoteErrorStep ==
  ASSUME IInv, core = Idle, NEW e \in BOOLEAN, plugin' = [plugin EXCEPT !.error = e],
         UNCHANGED <<blocked, nft, core, recreate, disturbed, clients>>
  PROVE  IInv'
<1> USE DEF nft, sets, clients
<1>1. /\ plugin' \in PluginStates /\ plugin'.ingress = plugin.ingress /\ plugin'.egress = plugin.egress
      /\ Consistent(plugin')
  BY PluginWithError DEF IInv, TypeOK, PluginsAreConsistent
<1>2. TypeOK'
  BY <1>1 DEF IInv, TypeOK
<1>3. PluginsAreConsistent' /\ RequestIsSound'
  BY <1>1 DEF IInv, PluginsAreConsistent, RequestIsSound, Consistent, Idle
<1>4. UndisturbedIsBuilt'
  BY <1>1 DEF IInv, UndisturbedIsBuilt, BuiltSoFar, Enforced, Drops
<1>5. CutIsEnforced'
  BY CutFrame DEF IInv
<1> QED BY <1>2, <1>3, <1>4, <1>5 DEF IInv

LEMMA RefreshStep ==
  ASSUME IInv, NEW answer \in Answers, Refresh(answer)
  PROVE  IInv'
<1> USE DEF nft, sets, clients
<1> DEFINE target == Refreshed(answer)
<1>1. /\ core = Idle /\ UNCHANGED <<blocked, nft, recreate, clients>>
      /\ TypeOK /\ Consistent(plugin)
  BY DEF Refresh, IInv, PluginsAreConsistent
<1>2. /\ target \in PluginStates /\ Consistent(target) /\ target.ingress = plugin.ingress
      /\ target.egress # plugin.egress => plugin.egress # {}
  BY <1>1, RefreshedIsConsistent DEF Refresh
<1> HIDE DEF target
<1>3. CASE /\ Begin("refresh", "ingress", target) /\ UNCHANGED plugin
           /\ disturbed' = (disturbed /\ ~LoadSuffices(target))
  <2>1. /\ Begin("refresh", "ingress", target) /\ UNCHANGED plugin
        /\ disturbed' = (disturbed /\ ~LoadSuffices(target))
    BY <1>3
  <2>2. core' = [op |-> "refresh", step |-> "ingress", restoring |-> FALSE, target |-> target]
    BY <2>1 DEF Begin
  <2>3. /\ core'.op = "refresh" /\ core'.step = "ingress" /\ core'.restoring = FALSE
        /\ core'.target = target /\ core' # Idle
    BY <2>2 DEF Idle
  <2>4. TypeOK'
    <3>1. disturbed' \in BOOLEAN
      BY <1>1, <2>1 DEF TypeOK
    <3> QED BY <1>1, <1>2, <2>1, <2>2, <3>1 DEF TypeOK, Steps
  <2>5. PluginsAreConsistent' /\ RequestIsSound'
    BY <1>1, <1>2, <2>1, <2>3 DEF PluginsAreConsistent, RequestIsSound, Consistent
  <2>6. UndisturbedIsBuilt'
    <3> SUFFICES ASSUME ~disturbed'
                 PROVE  /\ recreate = "done"
                        /\ table = "full" \/ target.ingress \cup target.egress = {}
      BY <1>1, <2>3 DEF UndisturbedIsBuilt, BuiltSoFar
    <3>1. CASE LoadSuffices(target)
      BY <3>1 DEF LoadSuffices
    <3>2. CASE ~disturbed
      <4>1. recreate = "done" /\ Drops(ingress) = plugin.ingress /\ Drops(egress) = plugin.egress
        BY <1>1, <3>2 DEF IInv, UndisturbedIsBuilt, BuiltSoFar, Enforced
      <4> QED BY <1>2, <4>1 DEF Drops
    <3> QED BY <2>1, <3>1, <3>2
  <2>7. CutIsEnforced'
    BY <1>1, CutFrame DEF IInv
  <2> QED BY <2>4, <2>5, <2>6, <2>7 DEF IInv
<1>4. CASE EgressEqual(answer) /\ plugin' = target /\ UNCHANGED <<core, disturbed>>
  <2>1. plugin' = target /\ UNCHANGED <<core, disturbed>> /\ target.egress = plugin.egress
    BY <1>4 DEF EgressEqual, target
  <2>2. TypeOK'
    BY <1>1, <1>2, <2>1 DEF TypeOK
  <2>3. PluginsAreConsistent' /\ RequestIsSound'
    BY <1>1, <1>2, <2>1 DEF IInv, PluginsAreConsistent, RequestIsSound, Consistent, Idle
  <2>4. UndisturbedIsBuilt'
    BY <1>1, <1>2, <2>1 DEF IInv, UndisturbedIsBuilt, BuiltSoFar, Enforced, Drops
  <2>5. CutIsEnforced'
    BY <1>1, CutFrame DEF IInv
  <2> QED BY <2>2, <2>3, <2>4, <2>5 DEF IInv
<1> QED BY <1>3, <1>4 DEF Refresh, target

-----------------------------------------------------------------------------
\* The commands.

\* What any command does to the table's type and to the blocks in force.
LEMMA CommandFrame ==
  ASSUME IInv, NEW step \in Steps, NEW target \in PluginStates, Command(step, target),
         enforced' = enforced \cap temporary', UNCHANGED <<connected, spared>>
  PROVE  /\ temporary' \subseteq IPs /\ ingress' \subseteq IPs /\ egress' \subseteq Addresses
         /\ table' \in {"absent", "sets", "full"}
         /\ enforced' \subseteq temporary' /\ CutIsEnforced'
<1>0. /\ temporary \subseteq IPs /\ ingress \subseteq IPs /\ egress \subseteq Addresses
      /\ table \in {"absent", "sets", "full"}
      /\ target.ingress \subseteq IPs /\ target.egress \subseteq Addresses
      /\ CutIsEnforced
  BY DEF IInv, TypeOK, PluginStates
<1>1. CASE step = "delete"
  BY <1>0, <1>1, CutFrame DEF Command, DeleteTable
<1>2. CASE step = "sets"
  <2>1. AddSets
    BY <1>2 DEF Command
  <2>2. enforced' # {} => table' = table
    BY <1>0, <2>1 DEF AddSets, CutIsEnforced, sets
  <2> QED BY <1>0, <2>1, <2>2, CutFrame DEF AddSets, sets
<1>3. CASE step = "rules"
  <2>1. AddRules
    BY <1>3 DEF Command
  <2>2. enforced' # {} => table' = table
    BY <1>0, <2>1 DEF AddRules, CutIsEnforced, sets
  <2> QED BY <1>0, <2>1, <2>2, CutFrame DEF AddRules, sets
<1>4. CASE step \notin {"delete", "sets", "rules"}
  <2>1. SyncSet(step, target)
    BY <1>4 DEF Command
  <2> QED BY <1>0, <2>1, CutFrame DEF SyncSet
<1> QED BY <1>1, <1>2, <1>3, <1>4

LEMMA AfterType ==
  ASSUME NEW step \in Steps \ {"done"}, NEW op
  PROVE  /\ After(step, op) \in Steps
         /\ step = "delete" => After(step, op) = "sets"
         /\ step = "sets" => After(step, op) = "rules"
         /\ step = "rules" => After(step, op) = IF op = "remove" THEN "done" ELSE "ingress"
         /\ step = "ingress" => After(step, op) = "egress"
         /\ step = "egress" => After(step, op) = "done"
BY DEF After, Steps

LEMMA CoreStepStep ==
  ASSUME IInv, CoreStep
  PROVE  IInv'
<1>1. /\ core.step \in Steps \ {"done"} /\ core.target \in PluginStates
      /\ Command(core.step, core.target)
      /\ core' = [core EXCEPT !.step = After(core.step, core.op)]
      /\ core \in [op : {"idle", "sync", "remove", "refresh"}, step : Steps,
                   restoring : BOOLEAN, target : PluginStates]
      /\ enforced' = enforced \cap temporary'
      /\ UNCHANGED <<plugin, blocked, recreate, connected, blocking, spared, disturbed>>
  BY DEF CoreStep, IInv, TypeOK
<1>2. /\ core'.step = After(core.step, core.op) /\ core'.step \in Steps
      /\ core'.op = core.op /\ core'.restoring = core.restoring /\ core'.target = core.target
      /\ core' \in [op : {"idle", "sync", "remove", "refresh"}, step : Steps,
                    restoring : BOOLEAN, target : PluginStates]
  BY <1>1, AfterType
<1>3. /\ core # Idle /\ core.op # "idle" /\ core' # Idle
      /\ core.op = "remove" => core.target.ingress = {} /\ core.target.egress = {}
  BY <1>1, <1>2, EmptyPlugin DEF IInv, RequestIsSound, Idle
<1>4. /\ temporary' \subseteq IPs /\ ingress' \subseteq IPs /\ egress' \subseteq Addresses
      /\ table' \in {"absent", "sets", "full"} /\ enforced' \subseteq temporary' /\ CutIsEnforced'
  BY <1>1, CommandFrame
<1>5. TypeOK'
  BY <1>1, <1>2, <1>4 DEF IInv, TypeOK
<1>6. PluginsAreConsistent' /\ RequestIsSound'
  BY <1>1, <1>2, <1>3 DEF IInv, PluginsAreConsistent, RequestIsSound, Consistent
<1>7. UndisturbedIsBuilt'
  <2> SUFFICES ASSUME ~disturbed PROVE recreate = "done" /\ BuiltSoFar'
    BY <1>1 DEF UndisturbedIsBuilt
  <2>1. /\ recreate = "done"
        /\ core.step = "rules" => table # "absent"
        /\ core.step \in {"ingress", "egress"} =>
             table = "full" \/ core.target.ingress \cup core.target.egress = {}
        /\ core.step = "egress" => Drops(ingress) = core.target.ingress
        /\ core.op = "remove" /\ core.step # "delete" => ingress = {} /\ egress = {}
    BY <1>3 DEF IInv, UndisturbedIsBuilt, BuiltSoFar
  <2>2. CASE core.step = "delete"
    <3>1. core'.step = "sets"
      BY <1>1, <1>2, <2>2, AfterType
    <3>2. ingress' = {} /\ egress' = {}
      BY <1>1, <2>2 DEF Command, DeleteTable
    <3> QED BY <1>3, <2>1, <3>1, <3>2 DEF BuiltSoFar
  <2>3. CASE core.step = "sets"
    <3>1. core'.step = "rules"
      BY <1>1, <1>2, <2>3, AfterType
    <3>2. table' # "absent" /\ UNCHANGED <<ingress, egress>>
      BY <1>1, <2>3 DEF Command, AddSets, sets
    <3> QED BY <1>2, <1>3, <2>1, <2>3, <3>1, <3>2 DEF BuiltSoFar
  <2>4. CASE core.step = "rules"
    <3>1. core'.step = IF core.op = "remove" THEN "done" ELSE "ingress"
      BY <1>1, <1>2, <2>4, AfterType
    <3>2. table' = "full" /\ UNCHANGED <<ingress, egress>>
      BY <1>1, <2>1, <2>4 DEF Command, AddRules, sets
    <3> QED BY <1>2, <1>3, <2>1, <2>4, <3>1, <3>2 DEF BuiltSoFar, Enforced, Drops
  <2>5. CASE core.step = "ingress"
    <3>1. core'.step = "egress"
      BY <1>1, <1>2, <2>5, AfterType
    <3>2. /\ UNCHANGED <<table, egress>> /\ ingress' \in {ingress, core.target.ingress}
          /\ table = "full" => ingress' = core.target.ingress
      BY <1>1, <2>5 DEF Command, SyncSet
    <3>3. Drops(ingress)' = core.target.ingress
      BY <2>1, <2>5, <3>2 DEF Drops
    <3> QED BY <1>2, <1>3, <2>1, <2>5, <3>1, <3>2, <3>3 DEF BuiltSoFar
  <2>6. CASE core.step = "egress"
    <3>1. core'.step = "done"
      BY <1>1, <1>2, <2>6, AfterType
    <3>2. /\ UNCHANGED <<table, ingress>> /\ egress' \in {egress, core.target.egress}
          /\ table = "full" => egress' = core.target.egress
      BY <1>1, <2>6 DEF Command, SyncSet
    <3>3. Enforced(core.target)'
      BY <1>2, <2>1, <2>6, <3>2 DEF Enforced, Drops
    <3> QED BY <1>2, <1>3, <2>1, <2>6, <3>1, <3>2, <3>3 DEF BuiltSoFar
  <2> QED BY <1>1, <2>1, <2>2, <2>3, <2>4, <2>5, <2>6 DEF Steps
<1> QED BY <1>4, <1>5, <1>6, <1>7 DEF IInv

\* A command that fails leaves the table's type, and the blocks, alone.
LEMMA FailedCommandFrame ==
  ASSUME IInv, NEW step, CommandFails(step), UNCHANGED <<connected, enforced, spared>>
  PROVE  /\ temporary' = temporary /\ table' = table
         /\ ingress' \subseteq IPs /\ egress' \subseteq Addresses
         /\ step # "ingress" => ingress' = ingress
         /\ step # "egress" => egress' = egress
         /\ CutIsEnforced'
<1>1. UNCHANGED <<table, temporary>>
  BY DEF CommandFails
<1>2. CutIsEnforced'
  BY <1>1, CutFrame DEF IInv
<1> QED BY <1>1, <1>2 DEF CommandFails, IInv, TypeOK

LEMMA DeleteFailsStep ==
  ASSUME IInv, DeleteFails
  PROVE  IInv'
<1>1. /\ core.step = "delete" /\ core' = [core EXCEPT !.step = "sets"]
      /\ core \in [op : {"idle", "sync", "remove", "refresh"}, step : Steps,
                   restoring : BOOLEAN, target : PluginStates]
      /\ disturbed' = (disturbed \/ core.op = "remove")
      /\ UNCHANGED <<plugin, blocked, recreate, connected, blocking, enforced, spared>>
      /\ CommandFails("delete")
  BY DEF DeleteFails, IInv, TypeOK, clients
<1>2. /\ core'.step = "sets" /\ core'.op = core.op /\ core'.restoring = core.restoring /\ core'.target = core.target
      /\ core' \in [op : {"idle", "sync", "remove", "refresh"}, step : Steps,
                    restoring : BOOLEAN, target : PluginStates]
      /\ core # Idle /\ core.op # "idle" /\ core' # Idle
  BY <1>1 DEF Steps, Idle, IInv, RequestIsSound
<1>3. UNCHANGED <<table, temporary, ingress, egress>> /\ CutIsEnforced'
  BY <1>1, FailedCommandFrame
<1>4. TypeOK'
  BY <1>1, <1>2, <1>3 DEF IInv, TypeOK
<1>5. PluginsAreConsistent' /\ RequestIsSound'
  BY <1>1, <1>2 DEF IInv, PluginsAreConsistent, RequestIsSound, Consistent
<1>6. UndisturbedIsBuilt'
  BY <1>1, <1>2 DEF IInv, UndisturbedIsBuilt, BuiltSoFar
<1> QED BY <1>3, <1>4, <1>5, <1>6 DEF IInv

LEMMA StepFailsStep ==
  ASSUME IInv, StepFails
  PROVE  IInv'
<1>1. /\ core.step # "done" /\ core.op # "remove"
      /\ core' = [core EXCEPT !.restoring = TRUE, !.step = "delete", !.target = plugin]
      /\ core \in [op : {"idle", "sync", "remove", "refresh"}, step : Steps,
                   restoring : BOOLEAN, target : PluginStates]
      /\ plugin \in PluginStates
      /\ UNCHANGED <<plugin, blocked, recreate, disturbed, connected, blocking, enforced, spared>>
      /\ CommandFails(core.step)
  BY DEF StepFails, CoreFails, IInv, TypeOK, clients
<1>2. /\ core'.step = "delete" /\ core'.op = core.op /\ core'.restoring = TRUE /\ core'.target = plugin
      /\ core' \in [op : {"idle", "sync", "remove", "refresh"}, step : Steps,
                    restoring : BOOLEAN, target : PluginStates]
      /\ core # Idle /\ core.op # "idle" /\ core' # Idle
  <2>1. "delete" \in Steps
    BY DEF Steps
  <2>2. /\ core'.step = "delete" /\ core'.op = core.op /\ core'.restoring = TRUE /\ core'.target = plugin
        /\ core' \in [op : {"idle", "sync", "remove", "refresh"}, step : Steps,
                      restoring : BOOLEAN, target : PluginStates]
    BY <1>1, <2>1
  <2>3. core # Idle /\ core.op # "idle"
    BY <1>1 DEF Idle, IInv, RequestIsSound
  <2> QED BY <2>2, <2>3 DEF Idle
<1>3. UNCHANGED <<table, temporary>> /\ ingress' \subseteq IPs /\ egress' \subseteq Addresses /\ CutIsEnforced'
  BY <1>1, FailedCommandFrame
<1>4. TypeOK'
  BY <1>1, <1>2, <1>3 DEF IInv, TypeOK
<1>5. PluginsAreConsistent' /\ RequestIsSound'
  BY <1>1, <1>2 DEF IInv, PluginsAreConsistent, RequestIsSound, Consistent
<1>6. UndisturbedIsBuilt'
  BY <1>1, <1>2 DEF IInv, UndisturbedIsBuilt, BuiltSoFar
<1> QED BY <1>3, <1>4, <1>5, <1>6 DEF IInv

\* A failure that cannot be undone: the promise is void.
LEMMA GivenUpStep ==
  ASSUME IInv, RestoreFails \/ RemoveFails
  PROVE  IInv'
<1>1. /\ CommandFails(core.step) /\ core' = Idle /\ disturbed' = TRUE
      /\ UNCHANGED <<blocked, recreate, connected, blocking, enforced, spared>>
      /\ plugin' = [plugin EXCEPT !.error = TRUE] \/ plugin' = [emptyPluginState EXCEPT !.error = TRUE]
  BY DEF RestoreFails, RemoveFails, CoreFails, clients
<1>2. plugin' \in PluginStates /\ Consistent(plugin')
  BY <1>1, PluginWithError, EmptyPlugin DEF IInv, TypeOK, PluginsAreConsistent
<1>3. UNCHANGED <<table, temporary>> /\ ingress' \subseteq IPs /\ egress' \subseteq Addresses /\ CutIsEnforced'
  BY <1>1, FailedCommandFrame
<1>4. TypeOK'
  BY <1>1, <1>2, <1>3, EmptyPlugin DEF IInv, TypeOK, Idle, Steps
<1>5. PluginsAreConsistent' /\ RequestIsSound'
  BY <1>1, <1>2, EmptyPlugin DEF PluginsAreConsistent, RequestIsSound, Consistent, Idle
<1>6. UndisturbedIsBuilt'
  BY <1>1 DEF UndisturbedIsBuilt
<1> QED BY <1>3, <1>4, <1>5, <1>6 DEF IInv

LEMMA CommitStep ==
  ASSUME IInv, Commit
  PROVE  IInv'
<1> USE DEF nft, sets, clients
<1>1. /\ core # Idle /\ core.step = "done" /\ core' = Idle
      /\ plugin' = IF core.restoring THEN [plugin EXCEPT !.error = TRUE] ELSE core.target
      /\ UNCHANGED <<blocked, nft, recreate, disturbed, clients>>
  BY DEF Commit
<1>2. /\ plugin' \in PluginStates /\ Consistent(plugin')
      /\ plugin'.ingress = core.target.ingress /\ plugin'.egress = core.target.egress
  BY <1>1, PluginWithError DEF IInv, TypeOK, PluginsAreConsistent, RequestIsSound
<1>3. TypeOK'
  BY <1>1, <1>2, EmptyPlugin DEF IInv, TypeOK, Idle, Steps
<1>4. PluginsAreConsistent' /\ RequestIsSound'
  BY <1>1, <1>2, EmptyPlugin DEF PluginsAreConsistent, RequestIsSound, Consistent, Idle
<1>5. UndisturbedIsBuilt'
  BY <1>1, <1>2 DEF IInv, UndisturbedIsBuilt, BuiltSoFar, Enforced, Drops
<1>6. CutIsEnforced'
  BY <1>1, CutFrame DEF IInv
<1> QED BY <1>3, <1>4, <1>5, <1>6 DEF IInv

-----------------------------------------------------------------------------
\* Requests that do not take coreMu.

\* They do not touch the plugins, and what they do to the table is noted.
LEMMA OutsideFrame ==
  ASSUME IInv, UNCHANGED <<plugin, core>>,
         temporary' \subseteq IPs, ingress' \subseteq IPs, egress' \subseteq Addresses,
         table' \in {"absent", "sets", "full"}, recreate' \in Steps,
         blocked' \subseteq IPs, connected' \subseteq IPs, blocking' \in [IPs -> 0..2],
         spared' \subseteq IPs,
         enforced' \subseteq temporary', disturbed' \in BOOLEAN, CutIsEnforced',
         disturbed' \/ (~disturbed /\ UNCHANGED <<table, ingress, egress, recreate>>)
  PROVE  IInv'
<1>1. TypeOK'
  BY DEF IInv, TypeOK
<1>2. PluginsAreConsistent' /\ RequestIsSound'
  BY DEF IInv, PluginsAreConsistent, RequestIsSound, Consistent
<1>3. UndisturbedIsBuilt'
  BY DEF IInv, UndisturbedIsBuilt, BuiltSoFar, Enforced, Drops
<1> QED BY <1>1, <1>2, <1>3 DEF IInv

LEMMA OutsideTypes ==
  ASSUME IInv
  PROVE  /\ temporary \subseteq IPs /\ ingress \subseteq IPs /\ egress \subseteq Addresses
         /\ table \in {"absent", "sets", "full"} /\ recreate \in Steps
         /\ blocked \subseteq IPs /\ connected \subseteq IPs
         /\ blocking \in [IPs -> 0..2] /\ spared \subseteq IPs
         /\ enforced \subseteq temporary /\ disturbed \in BOOLEAN /\ CutIsEnforced
         /\ ~disturbed => recreate = "done" /\ plugin \in PluginStates
         /\ plugin \in PluginStates
BY DEF IInv, TypeOK, UndisturbedIsBuilt

LEMMA RecreateTablesStep ==
  ASSUME IInv, RecreateTables
  PROVE  IInv'
<1> USE DEF nft, sets, clients
<1>1. CutIsEnforced'
  BY OutsideTypes, CutFrame DEF RecreateTables
<1> QED BY <1>1, OutsideTypes, OutsideFrame DEF RecreateTables, Steps

LEMMA RecreateStepStep ==
  ASSUME IInv, RecreateStep
  PROVE  IInv'
<1>1. /\ recreate \in Steps \ {"done"} /\ disturbed /\ plugin \in PluginStates
      /\ recreate' = After(recreate, "remove") /\ recreate' \in Steps
      /\ enforced' = enforced \cap temporary'
      /\ UNCHANGED <<plugin, blocked, core, connected, blocking, spared, disturbed>>
  BY OutsideTypes, AfterType DEF RecreateStep
<1>2. CASE Command(recreate, plugin)
  <2>1. /\ temporary' \subseteq IPs /\ ingress' \subseteq IPs /\ egress' \subseteq Addresses
        /\ table' \in {"absent", "sets", "full"} /\ enforced' \subseteq temporary' /\ CutIsEnforced'
    BY <1>1, <1>2, CommandFrame
  <2> QED BY <1>1, <2>1, OutsideTypes, OutsideFrame
<1>3. CASE CommandFails(recreate)
  <2>1. temporary' = temporary /\ enforced' = enforced
    BY <1>1, <1>3, OutsideTypes DEF CommandFails
  <2>2. /\ table' = table /\ ingress' \subseteq IPs /\ egress' \subseteq Addresses /\ CutIsEnforced'
    BY <1>1, <1>3, <2>1, FailedCommandFrame
  <2> QED BY <1>1, <2>1, <2>2, OutsideTypes, OutsideFrame
<1> QED BY <1>2, <1>3 DEF RecreateStep

LEMMA RecreateFailsStep ==
  ASSUME IInv, RecreateFails
  PROVE  IInv'
<1>1. /\ recreate # "done" /\ CommandFails(recreate) /\ recreate' = "done"
      /\ UNCHANGED <<plugin, blocked, core, disturbed, connected, blocking, enforced, spared>>
  BY DEF RecreateFails, clients
<1>2. /\ temporary' = temporary /\ table' = table
      /\ ingress' \subseteq IPs /\ egress' \subseteq Addresses /\ CutIsEnforced'
  BY <1>1, FailedCommandFrame
<1> QED BY <1>1, <1>2, OutsideTypes, OutsideFrame DEF Steps

LEMMA BlockIPStep ==
  ASSUME IInv, NEW ip \in IPs, BlockIP(ip)
  PROVE  IInv'
<1>1. /\ blocked' = blocked \cup {ip} /\ blocking' = [blocking EXCEPT ![ip] = 1]
      /\ UNCHANGED <<plugin, table, temporary, ingress, egress, core, recreate,
                     connected, enforced, spared, disturbed>>
  BY DEF BlockIP, nft, sets
<1>2. CutIsEnforced'
  BY <1>1, OutsideTypes, CutFrame
<1>3. blocked' \subseteq IPs /\ blocking' \in [IPs -> 0..2]
  BY <1>1, OutsideTypes
<1> QED BY <1>1, <1>2, <1>3, OutsideTypes, OutsideFrame

\* The address is blocked first: the request is not answered yet.
LEMMA AddElementStep ==
  ASSUME IInv, NEW ip \in IPs, AddElement(ip)
  PROVE  IInv'
<1>0. blocking \in [IPs -> 0..2] /\ blocking[ip] \in 0..2
  BY OutsideTypes
<1>1. blocking[ip] = 1
  BY <1>0 DEF AddElement, IsAt, BlockSteps
<1>2. /\ temporary' \in {temporary, temporary \cup {ip}}
      /\ UNCHANGED <<plugin, blocked, table, ingress, egress, core, recreate, connected, spared, disturbed>>
  BY DEF AddElement, CommandFails
<1>3. UNCHANGED enforced /\ blocking' \in {[blocking EXCEPT ![ip] = 2], [blocking EXCEPT ![ip] = 0]}
  <2>1. Len(BlockSteps) = 2
    BY DEF BlockSteps
  <2>2. CASE BlockProceeds(ip)
    BY <1>0, <1>1, <2>1, <2>2 DEF BlockProceeds
  <2>3. CASE blocking' = [blocking EXCEPT ![ip] = 0] /\ UNCHANGED enforced
    BY <2>3
  <2> QED BY <2>2, <2>3 DEF AddElement
<1>4. CutIsEnforced'
  BY <1>2, <1>3, OutsideTypes, CutFrame
<1>5. temporary' \subseteq IPs /\ enforced' \subseteq temporary' /\ blocking' \in [IPs -> 0..2]
  BY <1>0, <1>2, <1>3, OutsideTypes
<1> QED BY <1>2, <1>4, <1>5, OutsideTypes, OutsideFrame

\* Then its connections are killed: it is not connected when the request is
\* answered, unless ss spared it.
LEMMA dropConnectionsStep ==
  ASSUME IInv, NEW ip \in IPs, dropConnections(ip)
  PROVE  IInv'
<1>0. blocking \in [IPs -> 0..2] /\ blocking[ip] \in 0..2
  BY OutsideTypes
<1>1. blocking[ip] = 2 /\ Len(BlockSteps) = 2
  BY <1>0 DEF dropConnections, IsAt, BlockSteps
<1>2. UNCHANGED <<plugin, blocked, table, temporary, ingress, egress, core, recreate, disturbed>>
  BY DEF dropConnections, nft, sets
<1>3. \/ connected' = connected \ {ip} /\ spared' = spared \ {ip}
      \/ connected' = connected /\ spared' = spared \cup {ip}
  BY DEF dropConnections
<1>4. /\ blocking' = [blocking EXCEPT ![ip] = 0]
      /\ enforced' = enforced \cup ({ip} \cap Drops(temporary)')
  BY <1>0, <1>1 DEF dropConnections, BlockProceeds
<1>5. enforced' \subseteq enforced \cup {ip} /\ enforced' \subseteq temporary'
  BY <1>2, <1>4, OutsideTypes DEF Drops
<1>6. BlockedIsCut'
  BY <1>3, <1>5, OutsideTypes DEF CutIsEnforced, BlockedIsCut
<1>7. CutIsEnforced'
  BY <1>2, <1>4, <1>6, OutsideTypes DEF CutIsEnforced, Drops
<1>8. connected' \subseteq IPs /\ spared' \subseteq IPs /\ blocking' \in [IPs -> 0..2]
  BY <1>0, <1>3, <1>4, OutsideTypes
<1> QED BY <1>2, <1>5, <1>7, <1>8, OutsideTypes, OutsideFrame

\* No packet of an address whose block is enforced reaches the node.
LEMMA ConnectStep ==
  ASSUME IInv, NEW ip \in IPs, Connect(ip)
  PROVE  IInv'
<1>1. /\ connected' = connected \cup {ip} /\ ip \notin Drops(temporary)
      /\ UNCHANGED <<plugin, blocked, table, temporary, ingress, egress, core, recreate, blocking, enforced, spared, disturbed>>
  BY DEF Connect, nft, sets
<1>2. ip \notin enforced
  BY <1>1, OutsideTypes DEF CutIsEnforced, Drops
<1>3. CutIsEnforced'
  BY <1>1, <1>2, OutsideTypes DEF CutIsEnforced, BlockedIsCut
<1> QED BY <1>1, <1>3, OutsideTypes, OutsideFrame

LEMMA DisconnectStep ==
  ASSUME IInv, NEW ip \in IPs, Disconnect(ip)
  PROVE  IInv'
<1>1. /\ connected' = connected \ {ip}
      /\ UNCHANGED <<plugin, blocked, table, temporary, ingress, egress, core, recreate, blocking, enforced, spared, disturbed>>
  BY DEF Disconnect, nft, sets
<1>2. CutIsEnforced' /\ connected' \subseteq IPs
  BY <1>1, OutsideTypes, CutFrame
<1> QED BY <1>1, <1>2, OutsideTypes, OutsideFrame

LEMMA UnblockIPStep ==
  ASSUME IInv, NEW ip \in IPs, UnblockIP(ip)
  PROVE  IInv'
<1>1. /\ blocked' = blocked \ {ip} /\ temporary' \subseteq temporary
      /\ enforced' = enforced \cap temporary'
      /\ UNCHANGED <<plugin, table, egress, core, recreate, connected, blocking, spared>>
  BY DEF UnblockIP
<1>2. /\ ingress' \in {ingress, ingress \ {ip}}
      /\ disturbed' \in {disturbed, disturbed \/ ip \in ingress}
      /\ ingress' # ingress => disturbed'
      /\ disturbed => disturbed'
  <2>0. disturbed \in BOOLEAN
    BY OutsideTypes
  <2>1. CASE ingress' = ingress \ {ip} /\ disturbed' = (disturbed \/ ip \in ingress)
    BY <2>0, <2>1
  <2>2. CASE UNCHANGED <<ingress, disturbed>>
    BY <2>0, <2>2
  <2> QED BY <2>1, <2>2 DEF UnblockIP
<1>3. CutIsEnforced'
  BY <1>1, OutsideTypes, CutFrame
<1>4. /\ temporary' \subseteq IPs /\ enforced' \subseteq temporary' /\ blocked' \subseteq IPs
      /\ ingress' \subseteq IPs /\ disturbed' \in BOOLEAN
      /\ disturbed' \/ (~disturbed /\ UNCHANGED <<table, ingress, egress, recreate>>)
  BY <1>1, <1>2, OutsideTypes
<1> QED BY <1>1, <1>3, <1>4, OutsideTypes, OutsideFrame

LEMMA BlockExpiresStep ==
  ASSUME IInv, NEW ip \in IPs, BlockExpires(ip)
  PROVE  IInv'
<1>1. /\ temporary' = temporary \ {ip} /\ enforced' = enforced \ {ip}
      /\ UNCHANGED <<plugin, blocked, table, ingress, egress, core, recreate, connected, blocking, spared, disturbed>>
  BY DEF BlockExpires
<1>2. CutIsEnforced'
  BY <1>1, OutsideTypes, CutFrame
<1>3. temporary' \subseteq IPs /\ enforced' \subseteq temporary'
  BY <1>1, OutsideTypes
<1> QED BY <1>1, <1>2, <1>3, OutsideTypes, OutsideFrame

LEMMA AgentRestartsStep ==
  ASSUME IInv, AgentRestarts
  PROVE  IInv'
<1>1. /\ plugin' = emptyPluginState /\ blocked' = {} /\ core' = Idle /\ recreate' = "done"
      /\ blocking' = [ip \in IPs |-> 0] /\ disturbed' = TRUE
      /\ UNCHANGED <<table, temporary, ingress, egress, connected, enforced, spared>>
  BY DEF AgentRestarts, nft, sets
<1>2. TypeOK'
  BY <1>1, EmptyPlugin DEF IInv, TypeOK, Idle, Steps
<1>3. PluginsAreConsistent' /\ RequestIsSound'
  BY <1>1, EmptyPlugin DEF PluginsAreConsistent, RequestIsSound, Consistent, Idle
<1>4. UndisturbedIsBuilt'
  BY <1>1 DEF UndisturbedIsBuilt
<1>5. CutIsEnforced'
  BY <1>1, CutFrame DEF IInv
<1> QED BY <1>2, <1>3, <1>4, <1>5 DEF IInv

-----------------------------------------------------------------------------
\* The inductive invariant.

LEMMA InitIInv == Init => IInv
<1> SUFFICES ASSUME Init PROVE IInv
  OBVIOUS
<1>1. TypeOK
  <2>1. blocking \in [IPs -> 0..2]
    BY DEF Init
  <2> QED BY <2>1, EmptyPlugin DEF Init, TypeOK, Idle, Steps
<1>2. PluginsAreConsistent /\ RequestIsSound
  BY EmptyPlugin DEF Init, PluginsAreConsistent, RequestIsSound, Idle
<1>3. UndisturbedIsBuilt /\ CutIsEnforced
  BY EmptyPlugin DEF Init, UndisturbedIsBuilt, BuiltSoFar, Enforced, Drops, CutIsEnforced, BlockedIsCut
<1> QED BY <1>1, <1>2, <1>3 DEF IInv

LEMMA NextIInv == IInv /\ [Next]_vars => IInv'
<1> SUFFICES ASSUME IInv, [Next]_vars PROVE IInv'
  OBVIOUS
<1>1. ASSUME NEW list \in SUBSET IPs, NEW domains \in SUBSET Domains, NEW answer \in Answers,
             SyncPlugin(list, domains, answer)
      PROVE  IInv'
  <2>1. Compiled(list, domains, answer) \in PluginStates /\ Consistent(Compiled(list, domains, answer))
    BY <1>1, CompiledIsConsistent DEF IInv, SyncPlugin
  <2> QED BY <1>1, <2>1, BeginStep DEF SyncPlugin
<1>2. ASSUME NEW answer \in Answers, Refresh(answer) \/ RefreshFails(answer) PROVE IInv'
  BY <1>2, RefreshStep, NoteErrorStep DEF RefreshFails
<1>3. CASE SyncRejected
  BY <1>3, NoteErrorStep DEF SyncRejected
<1>4. CASE RemovePlugin
  BY <1>4, EmptyPlugin, BeginStep DEF RemovePlugin
<1>5. CASE CompilePlugin \/ UNCHANGED vars
  <2>1. UNCHANGED <<plugin, core, blocked, table, temporary, ingress, egress, recreate, connected, blocking, enforced, spared, disturbed>>
    BY <1>5 DEF CompilePlugin, vars, nft, sets, clients
  <2>2. CutIsEnforced'
    BY <2>1, OutsideTypes, CutFrame
  <2> QED BY <2>1, <2>2, OutsideTypes, OutsideFrame
<1>6. CASE CoreStep
  BY <1>6, CoreStepStep
<1>7. CASE DeleteFails \/ StepFails
  BY <1>7, DeleteFailsStep, StepFailsStep
<1>8. CASE RestoreFails \/ RemoveFails
  BY <1>8, GivenUpStep
<1>9. CASE Commit
  BY <1>9, CommitStep
<1>10. CASE RecreateTables \/ RecreateStep \/ RecreateFails
  BY <1>10, RecreateTablesStep, RecreateStepStep, RecreateFailsStep
<1>11. ASSUME NEW ip \in IPs,
              \/ BlockIP(ip) \/ AddElement(ip) \/ dropConnections(ip)
              \/ UnblockIP(ip) \/ BlockExpires(ip)
              \/ Connect(ip) \/ Disconnect(ip)
       PROVE  IInv'
  BY <1>11, BlockIPStep, AddElementStep, dropConnectionsStep, UnblockIPStep, BlockExpiresStep, ConnectStep, DisconnectStep
<1>12. CASE AgentRestarts
  BY <1>12, AgentRestartsStep
<1> QED BY <1>1, <1>2, <1>3, <1>4, <1>5, <1>6, <1>7, <1>8, <1>9, <1>10, <1>11, <1>12 DEF Next

LEMMA Inductive == Spec => []IInv
<1>1. Init => IInv
  BY InitIInv
<1>2. IInv /\ [Next]_vars => IInv'
  BY NextIInv
<1> QED BY <1>1, <1>2, PTL DEF Spec

-----------------------------------------------------------------------------
(***************************************************************************)
(* While nothing disturbs the table the kernel drops what the plugin in    *)
(* force lists, whichever nft commands of a sync, a refresh or a rollback  *)
(* failed; and the refresh of every minute ends a disturbance when it      *)
(* loads the lists into a table with its rules, or has nothing to load.    *)
(***************************************************************************)
THEOREM EnforcementSafety == Spec => []AppliedIsEnforced
<1>1. IInv => AppliedIsEnforced
  BY DEF IInv, UndisturbedIsBuilt, BuiltSoFar, Enforced, AppliedIsEnforced
<1> QED BY <1>1, Inductive, PTL

(***************************************************************************)
(* Failed lookups never empty the egress list of a domain.                 *)
(***************************************************************************)
THEOREM DomainSafety == Spec => []DomainsStayBlocked
<1>1. ASSUME IInv PROVE DomainsStayBlocked
  <2>1. plugin.domains \subseteq Domains /\ Consistent(plugin)
    BY <1>1 DEF IInv, TypeOK, PluginStates, PluginsAreConsistent
  <2> QED BY <2>1 DEF Consistent, Blocked, DomainsStayBlocked
<1> QED BY <1>1, Inductive, PTL

(***************************************************************************)
(* blockIPWithTimeout, answered while the rules enforce the block, leaves  *)
(* the address no connection except those that ss, missing or failing, has *)
(* spared: in every interleaving with clients, the other requests and the  *)
(* rebuilds.                                                               *)
(***************************************************************************)
THEOREM BlockSafety == Spec => []BlockedIsCut
<1>1. IInv => BlockedIsCut
  BY DEF IInv, CutIsEnforced
<1> QED BY <1>1, Inductive, PTL
=============================================================================
