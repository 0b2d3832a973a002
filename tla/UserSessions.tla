---------------------------- MODULE UserSessions ----------------------------
(***************************************************************************)
(* Who may use which inbound, and who is connected: the users in the       *)
(* sing-box configuration (internal/node/manager.go), the names they carry *)
(* there (internal/statname), the index of users per inbound               *)
(* (internal/state) and the requests that close connections                *)
(* (user_connection_provider.go, DropUsersConnections, DropIPs).           *)
(*                                                                         *)
(* Start, Stop and the user operations hold coreMu.  DropUsersConnections  *)
(* does not: it lists and closes connections one HTTP call at a time while *)
(* clients come and go and sing-box is restarted under it.                 *)
(*                                                                         *)
(* A user operation edits the configuration in memory and then restarts    *)
(* sing-box with it.  The transaction restartSingBox is one step here, by  *)
(* its outcomes; CoreLifecycle has its files, its process and the Start    *)
(* that finds nothing to change.  The sing-box API is configured.          *)
(***************************************************************************)
EXTENDS Integers, FiniteSets

CONSTANTS
  Users, Tags,  \* user identifiers, inbound tags
  IPs,          \* client addresses
  Plain,        \* the inbound of a name that was not encoded
  Nobody,       \* no user
  Down,         \* what a sing-box that does not run serves
  MaxRequests,  \* bound: requests of the panel
  MaxBatch,     \* bound: users of one addition or removal
  MaxFaults,    \* bound: failures of requests, of the core and of calls to it
  MaxSessions   \* bound: connections at a time

ASSUME SessionsAssumption ==
  /\ Plain \notin Tags /\ Nobody \notin Users
  /\ {MaxRequests, MaxBatch, MaxFaults, MaxSessions} \subseteq Nat

VARIABLES
  running,   \* Runtime.running = SING_BOX
  memory,    \* Runtime.singBoxConfig
  index,     \* Runtime.inboundUsers
  file,      \* the configuration file
  served,    \* the configuration the sing-box process runs, Down without one
  hung,      \* its API no longer answers
  sessions,  \* the connections of clients
  pending,   \* the request that holds coreMu and is about to restart sing-box
  drop,      \* the DropUsersConnections request under way
  requests, faults

\* History: the inbounds the panel was told a user has; the users of requests
\* that failed, until a later request settles them (of a Start that failed, when
\* its configuration was left in the file); the connections of the named users
\* when the drop began; the users a drop could not serve.
VARIABLES granted, unsure, due, missed

stateVars == <<running, memory, index>>
coreVars == <<file, served, hung>>
dropVars == <<drop, due, missed>>
bounds == <<requests, faults>>
vars == <<stateVars, coreVars, sessions, pending, dropVars, bounds, granted, unsure>>

-----------------------------------------------------------------------------
\* Names and configurations.

UserInbound(u, tag) == [user |-> u, inbound |-> tag]

UserID(name) == name.user

Names == [user : Users, inbound : Tags \cup {Plain}]

Config == [inbounds : [Tags -> SUBSET Names], stats : SUBSET Names]

NoConfig == [inbounds |-> [t \in Tags |-> {}], stats |-> {}]

encodeSingBoxConfigUsers(inbounds) ==
  [t \in Tags |-> {UserInbound(UserID(n), t) : n \in inbounds[t]}]

\* Mutant: the statistics list is made before the names are encoded.
applySingBoxAPIConfigEarly(config) ==
  [inbounds |-> encodeSingBoxConfigUsers(config.inbounds),
   stats |-> UNION {config.inbounds[t] : t \in Tags}]

\* The users sing-box is to count are the encoded ones of every inbound.
applySingBoxAPIConfig(config) ==
  LET inbounds == encodeSingBoxConfigUsers(config.inbounds)
  IN  [inbounds |-> inbounds, stats |-> UNION {inbounds[t] : t \in Tags}]

removeSingBoxUser(config, users) ==
  [config EXCEPT !.inbounds = [t \in Tags |-> {n \in @[t] : UserID(n) \notin users}]]

\* Mutant: the user is removed before every item of the request.
applyAddUserRequestPerItem(config, grants) ==
  LET kept == removeSingBoxUser(config, DOMAIN grants)
      last(u) == IF grants[u] = {} THEN {} ELSE {CHOOSE t \in grants[u] : TRUE}
  IN  [kept EXCEPT !.inbounds =
         [t \in Tags |-> @[t] \cup {UserInbound(u, t) : u \in {v \in DOMAIN grants : t \in last(v)}}]]

\* A user of the request is removed once and then added to every inbound the
\* request names: grants is the set of inbounds of each user of the request.
applyAddUserRequest(config, grants) ==
  LET kept == removeSingBoxUser(config, DOMAIN grants)
  IN  [kept EXCEPT !.inbounds =
         [t \in Tags |-> @[t] \cup {UserInbound(u, t) : u \in {v \in DOMAIN grants : t \in grants[v]}}]]

InboundsOf(config, u) == {t \in Tags : \E n \in config.inbounds[t] : UserID(n) = u}

NoIndex == [t \in Tags |-> {}]

extractSingBoxInbounds(config) == [t \in Tags |-> {UserID(n) : n \in config.inbounds[t]}]

\* The users of an addition or a removal.
Batches == {users \in (SUBSET Users) \ {{}} : Cardinality(users) <= MaxBatch}

NoRequest == [op |-> "none", candidate |-> NoConfig, grants |-> [u \in {} |-> {}]]

DropIdle == [phase |-> "idle", todo |-> {}, user |-> Nobody, left |-> {}, ips |-> {}]

Sessions == [name : [user : Users, inbound : Tags], ip : IPs]

Of(u) == {s \in sessions : UserID(s.name) = u}

Init ==
  /\ running = FALSE /\ memory = NoConfig /\ index = NoIndex
  /\ file = NoConfig /\ served = Down /\ hung = FALSE
  /\ sessions = {}
  /\ pending = NoRequest
  /\ drop = DropIdle /\ due = {} /\ missed = {}
  /\ requests = 0 /\ faults = 0
  /\ granted = [u \in Users |-> {}] /\ unsure = {}

Request == requests < MaxRequests /\ requests' = requests + 1

Fault == faults < MaxFaults /\ faults' = faults + 1

-----------------------------------------------------------------------------
\* The runtime state.

SetSingBoxConfig(config) ==
  /\ memory' = config
  /\ index' = IF running THEN extractSingBoxInbounds(config) ELSE index

\* Mutant: the index is only made when the configuration is set.
SetRunningKeepsIndex(core) ==
  /\ running' = core
  /\ index' = IF core THEN index ELSE NoIndex

SetRunningCore(core) ==
  /\ running' = core
  /\ index' = IF core THEN extractSingBoxInbounds(memory') ELSE NoIndex

-----------------------------------------------------------------------------
\* Requests under coreMu.

\* Start: a configuration whose names are plain, or encoded by whoever wrote it.
Start(grants, inbound) ==
  LET config == [NoConfig EXCEPT !.inbounds =
                   [t \in Tags |-> {UserInbound(u, inbound) : u \in {v \in Users : t \in grants[v]}}]]
  IN  /\ pending = NoRequest /\ Request
      /\ pending' = [op |-> "start", candidate |-> applySingBoxAPIConfig(config), grants |-> grants]
      /\ UNCHANGED <<stateVars, coreVars, sessions, dropVars, faults, granted, unsure>>

\* AddUser and AddUsers, whose edits all succeed.
AddUsers(grants) ==
  LET config == applyAddUserRequest(memory, grants)
  IN  /\ pending = NoRequest /\ Request
      /\ running
      /\ SetSingBoxConfig(config)
      /\ pending' = [op |-> "users", candidate |-> applySingBoxAPIConfig(config), grants |-> grants]
      /\ UNCHANGED <<running, coreVars, sessions, dropVars, faults, granted, unsure>>

\* An item names a missing inbound, an unsupported protocol or a bad key: the
\* request ends there, and what it has edited stays in memory.
AddUsersFails(done) ==
  /\ pending = NoRequest /\ Request /\ Fault
  /\ running
  /\ SetSingBoxConfig(applyAddUserRequest(memory, done))
  /\ unsure' = unsure \cup DOMAIN done
  /\ UNCHANGED <<running, coreVars, sessions, pending, dropVars, granted>>

\* RemoveUser and RemoveUsers.
RemoveUsers(users) ==
  LET config == removeSingBoxUser(memory, users)
  IN  /\ pending = NoRequest /\ Request
      /\ running
      /\ SetSingBoxConfig(config)
      /\ pending' = [op |-> "users", candidate |-> applySingBoxAPIConfig(config),
                     grants |-> [u \in users |-> {}]]
      /\ UNCHANGED <<running, coreVars, sessions, dropVars, faults, granted, unsure>>

\* Stop ignores the error of StopProcess.
Stop ==
  /\ pending = NoRequest /\ Request
  /\ running' = FALSE /\ index' = NoIndex
  /\ \/ served' = Down /\ sessions' = {} /\ due' = {} /\ hung' = FALSE
     \/ UNCHANGED <<served, sessions, due, hung>>
  /\ UNCHANGED <<memory, file, pending, drop, missed, faults, granted, unsure>>

-----------------------------------------------------------------------------
\* The outcomes of restartSingBox.

\* A new process: the connections of the old one end.
Serve(config) == served' = config /\ hung' = FALSE /\ sessions' = {} /\ due' = {}

KeepServing == UNCHANGED <<served, hung, sessions, due>>

Restarted ==
  /\ pending # NoRequest
  /\ file' = pending.candidate
  /\ Serve(pending.candidate)
  /\ memory' = pending.candidate /\ SetRunningCore(TRUE)
  /\ granted' = [u \in Users |-> IF u \in DOMAIN pending.grants THEN pending.grants[u] ELSE granted[u]]
  /\ unsure' = unsure \ DOMAIN pending.grants
  /\ pending' = NoRequest
  /\ UNCHANGED <<drop, missed, bounds>>

\* The users of a failed operation are edited in memory or not; a failed Start
\* has edited nothing.
NoLongerSure == unsure' = IF pending.op = "users" THEN unsure \cup DOMAIN pending.grants ELSE unsure

\* "sing-box check" fails: the configuration of the file comes back.
Rejected ==
  /\ pending # NoRequest /\ Fault
  /\ IF running THEN SetSingBoxConfig(file) ELSE UNCHANGED <<memory, index>>
  /\ KeepServing
  /\ pending' = NoRequest
  /\ UNCHANGED <<running, file, drop, missed, requests, granted, unsure>>

\* A file operation before the restart fails.  When it is the sync of the
\* directory and the old file cannot be put back either, the candidate stays
\* in its place although nothing serves it: what a later rejection or rollback
\* brings back is then in doubt for every user of the request.
NotWritten ==
  /\ pending # NoRequest /\ Fault
  /\ \/ UNCHANGED file /\ NoLongerSure
     \/ file' = pending.candidate /\ unsure' = unsure \cup DOMAIN pending.grants
  /\ KeepServing
  /\ pending' = NoRequest
  /\ UNCHANGED <<stateVars, drop, missed, requests, granted>>

\* The new process is not healthy: the previous file is started again, or
\* nothing when there was no core, and whatever process cannot be stopped stays.
RolledBack ==
  /\ pending # NoRequest /\ Fault
  /\ IF running THEN Serve(file) ELSE Serve(Down) \/ Serve(pending.candidate) \/ KeepServing
  /\ memory' = IF running THEN file ELSE memory
  /\ SetRunningCore(running)
  /\ pending' = NoRequest
  /\ UNCHANGED <<file, drop, missed, requests, granted, unsure>>

\* The rollback fails as well: the agent has no core, whatever process is left.
RollbackFails ==
  /\ pending # NoRequest /\ Fault
  /\ memory' \in (IF running THEN {memory, file} ELSE {memory})
  /\ file' \in {file, pending.candidate}
  /\ Serve(Down) \/ Serve(pending.candidate) \/ KeepServing
  /\ SetRunningCore(FALSE)
  /\ NoLongerSure
  /\ pending' = NoRequest
  /\ UNCHANGED <<drop, missed, requests, granted>>

Restart == Restarted \/ Rejected \/ NotWritten \/ RolledBack \/ RollbackFails

-----------------------------------------------------------------------------
\* DropUsersConnections.

DropUsersConnections(users) ==
  /\ drop = DropIdle /\ Request
  /\ drop' = [DropIdle EXCEPT !.phase = "next", !.todo = users]
  /\ due' = UNION {Of(u) : u \in users}
  /\ missed' = {}
  /\ UNCHANGED <<stateVars, coreVars, sessions, pending, faults, granted, unsure>>

APIAnswers == served # Down /\ ~hung /\ UNCHANGED faults

\* Mutant: the HTTP client has no timeout.
APIFailsWithoutTimeout == (served = Down /\ UNCHANGED faults) \/ (~hung /\ Fault)

\* A refused connection, the 5 s timeout of a hung API, or an error.
APIFails == ((served = Down \/ hung) /\ UNCHANGED faults) \/ Fault

DropUnchanged == UNCHANGED <<stateVars, coreVars, pending, requests, granted, unsure>>

\* CloseUserConnections(u): the connections of u, whatever inbound they are on.
ListConnections(u) ==
  /\ drop.phase = "next" /\ u \in drop.todo
  /\ \/ /\ APIAnswers
        /\ drop' = [drop EXCEPT !.phase = "delete", !.todo = @ \ {u}, !.user = u, !.left = Of(u)]
     \/ /\ APIFails
        /\ drop' = [drop EXCEPT !.phase = "fallback", !.todo = @ \ {u}, !.user = u]
  /\ DropUnchanged
  /\ UNCHANGED <<sessions, due, missed>>

\* Mutant: the connections are listed again until none is left.
DeleteConnectionRelists(s) ==
  /\ drop.phase = "delete" /\ s \in drop.left
  /\ APIAnswers
  /\ sessions' = sessions \ {s} /\ due' = due \ {s}
  /\ drop' = [drop EXCEPT !.left = Of(drop.user) \ {s}]
  /\ DropUnchanged
  /\ UNCHANGED missed

\* Closing a connection that has ended meanwhile succeeds.
DeleteConnection(s) ==
  /\ drop.phase = "delete" /\ s \in drop.left
  /\ APIAnswers
  /\ sessions' = sessions \ {s} /\ due' = due \ {s}
  /\ drop' = [drop EXCEPT !.left = @ \ {s}]
  /\ DropUnchanged
  /\ UNCHANGED missed

\* Mutant: the error of a connection does not end the loop and is not reported.
DeleteFailsSilently ==
  /\ drop.phase = "delete" /\ drop.left # {}
  /\ APIFails
  /\ drop' = [drop EXCEPT !.phase = "next", !.user = Nobody, !.left = {}]
  /\ DropUnchanged
  /\ UNCHANGED <<sessions, due, missed>>

\* The first error ends CloseUserConnections.
DeleteFails ==
  /\ drop.phase = "delete" /\ drop.left # {}
  /\ APIFails
  /\ drop' = [drop EXCEPT !.phase = "fallback", !.left = {}]
  /\ DropUnchanged
  /\ UNCHANGED <<sessions, due, missed>>

\* UserIPList; when it fails as well the user is passed over.
ListAddresses ==
  /\ drop.phase = "fallback"
  /\ \/ /\ APIAnswers
        /\ drop' = [drop EXCEPT !.phase = "kill", !.ips = {s.ip : s \in Of(drop.user)}]
        /\ UNCHANGED missed
     \/ /\ APIFails
        /\ drop' = [drop EXCEPT !.phase = "next", !.user = Nobody]
        /\ missed' = missed \cup {drop.user}
  /\ DropUnchanged
  /\ UNCHANGED <<sessions, due>>

\* "ss -K": every connection of the address, whoever owns it.
Kill(ip) ==
  /\ sessions' = {s \in sessions : s.ip # ip}
  /\ due' = {s \in due : s.ip # ip}

\* Without ss, for an ignored address or when ss fails nothing happens.
dropConnections(ip) ==
  /\ drop.phase = "kill" /\ ip \in drop.ips
  /\ \/ Kill(ip) /\ UNCHANGED <<faults, missed>>
     \/ Fault /\ missed' = missed \cup {drop.user} /\ UNCHANGED <<sessions, due>>
  /\ drop' = [drop EXCEPT !.ips = @ \ {ip}]
  /\ DropUnchanged

NextUser ==
  /\ \/ drop.phase = "delete" /\ drop.left = {}
     \/ drop.phase = "kill" /\ drop.ips = {}
  /\ drop' = [drop EXCEPT !.phase = "next", !.user = Nobody]
  /\ DropUnchanged
  /\ UNCHANGED <<sessions, due, missed, faults>>

\* The answer is success whatever was missed.
Dropped == drop.phase = "next" /\ drop.todo = {}

Answer ==
  /\ Dropped
  /\ drop' = DropIdle /\ due' = {} /\ missed' = {}
  /\ DropUnchanged
  /\ UNCHANGED <<sessions, faults>>

DropStep ==
  \/ \E u \in Users : ListConnections(u)
  \/ \E s \in Sessions : DeleteConnection(s)
  \/ DeleteFails
  \/ ListAddresses
  \/ \E ip \in IPs : dropConnections(ip)
  \/ NextUser
  \/ Answer

DropIPs(ip) ==
  /\ Request
  /\ \/ Kill(ip) /\ UNCHANGED faults
     \/ Fault /\ UNCHANGED <<sessions, due>>
  /\ UNCHANGED <<stateVars, coreVars, pending, drop, missed, granted, unsure>>

\* GetUserIPList, GetUsersIPList, GetInboundUsers and the online status only
\* read, without a lock: the connections from the API, the users from the index.
ReadUsers == UNCHANGED vars

-----------------------------------------------------------------------------
\* Clients and faults.

OpenSession(s) ==
  /\ served # Down /\ s.name \in served.inbounds[s.name.inbound]
  /\ Cardinality(sessions \cup {s}) <= MaxSessions
  /\ s \notin sessions
  /\ sessions' = sessions \cup {s}
  /\ UNCHANGED <<stateVars, coreVars, pending, dropVars, bounds, granted, unsure>>

CloseSession(s) ==
  /\ s \in sessions
  /\ sessions' = sessions \ {s} /\ due' = due \ {s}
  /\ UNCHANGED <<stateVars, coreVars, pending, drop, missed, bounds, granted, unsure>>

CoreCrashes ==
  /\ served # Down /\ Fault
  /\ Serve(Down)
  /\ UNCHANGED <<stateVars, file, pending, drop, missed, requests, granted, unsure>>

CoreHangs ==
  /\ served # Down /\ ~hung /\ Fault
  /\ hung' = TRUE
  /\ UNCHANGED <<stateVars, file, served, sessions, pending, dropVars, requests, granted, unsure>>

\* The agent dies and takes its container, sing-box included, with it.
AgentRestarts ==
  /\ Fault
  /\ running' = FALSE /\ memory' = NoConfig /\ index' = NoIndex
  /\ file' \in (IF pending = NoRequest THEN {file} ELSE {file, pending.candidate})
  /\ Serve(Down)
  /\ pending' = NoRequest
  /\ drop' = DropIdle /\ missed' = {}
  /\ UNCHANGED <<requests, granted, unsure>>

Next ==
  \/ \E grants \in [Users -> SUBSET Tags], inbound \in Tags \cup {Plain} : Start(grants, inbound)
  \/ \E users \in Batches : \/ \E grants \in [users -> SUBSET Tags] : AddUsers(grants) \/ AddUsersFails(grants)
                            \/ RemoveUsers(users)
  \/ \E users \in (SUBSET Users) \ {{}} : DropUsersConnections(users)
  \/ Stop
  \/ Restart
  \/ DropStep
  \/ \E ip \in IPs : DropIPs(ip)
  \/ ReadUsers
  \/ \E s \in Sessions : OpenSession(s) \/ CloseSession(s)
  \/ CoreCrashes \/ CoreHangs \/ AgentRestarts

Spec == Init /\ [][Next]_vars

-----------------------------------------------------------------------------
\* Every variable has its type.
TypeOK ==
  /\ running \in BOOLEAN /\ hung \in BOOLEAN
  /\ memory \in Config /\ file \in Config /\ served \in Config \cup {Down}
  /\ index \in [Tags -> SUBSET Users]
  /\ sessions \subseteq Sessions /\ due \subseteq sessions
  /\ pending.op \in {"none", "start", "users"} /\ pending.candidate \in Config
  /\ drop.phase \in {"idle", "next", "delete", "fallback", "kill"}
  /\ drop.todo \subseteq Users /\ drop.left \subseteq Sessions /\ drop.ips \subseteq IPs
  /\ granted \in [Users -> SUBSET Tags] /\ unsure \subseteq Users /\ missed \subseteq Users

(***************************************************************************)
(* A user has exactly the inbounds of the last request that succeeded for  *)
(* it: in the file, in the process and for its connections; multi-inbound  *)
(* requests keep every inbound, a removal ends the user's connections, and *)
(* neither a rejected or rolled back request nor the failed request of     *)
(* another user changes anything for it.  The users of an operation that   *)
(* failed are excluded until a request for them succeeds; so is everybody  *)
(* after a Start that failed with its configuration left in the live file  *)
(* (the directory could not be synced, nor the old file put back).         *)
(***************************************************************************)
AccessIsGranted ==
  /\ TypeOK
  /\ running /\ pending = NoRequest =>
       \A u \in Users \ unsure :
         /\ InboundsOf(file, u) = granted[u]
         /\ served # Down => InboundsOf(served, u) = granted[u]
         /\ \A s \in Of(u) : s.name.inbound \in granted[u]

(***************************************************************************)
(* Every user sing-box serves is counted under a name of its own for the   *)
(* inbound: names are encoded for the inbound they are in, however the     *)
(* panel wrote them, and the statistics list of applySingBoxAPIConfig has  *)
(* them all, users added after the start included.                         *)
(***************************************************************************)
ServedIsCounted ==
  served # Down =>
    \A t \in Tags : \A n \in served.inbounds[t] : n.inbound = t /\ n \in served.stats

(***************************************************************************)
(* GetInboundUsers answers from the index: it lists the users of the live  *)
(* file and of the process, after every restart, rejection and rollback,   *)
(* and nobody when the agent has no core.  It is not promised while users  *)
(* of a failed request are in doubt (unsure): an operation that failed is  *)
(* in memory and not in the file, and a Start that failed may have left in *)
(* the file what neither memory nor the core has.                          *)
(***************************************************************************)
IndexFollowsCore ==
  pending = NoRequest =>
    /\ running /\ unsure = {} =>
         /\ index = extractSingBoxInbounds(file)
         /\ served # Down => index = extractSingBoxInbounds(served)
    /\ ~running => index = NoIndex

(***************************************************************************)
(* A drop request closes every connection its users had when it arrived,   *)
(* across a failing API, restarts and reconnecting clients, except for a   *)
(* user whose addresses could not be listed or killed.                     *)
(***************************************************************************)
DropIsComplete == Dropped => \A s \in due : UserID(s.name) \in missed

(***************************************************************************)
(* Whatever the core does, the handler of a drop request has a next step:  *)
(* every call it makes to the API ends.                                    *)
(***************************************************************************)
DropNeverWaits == drop # DropIdle => ENABLED DropStep

\* What a drop request has still to do got less: fewer users; or for the same
\* users a later part of the work; or for the same part fewer connections or
\* addresses.
Rank == [next |-> 0, kill |-> 1, fallback |-> 2, delete |-> 3]

Smaller(before, after) == after \subseteq before /\ after # before

LessToDo(old, new) ==
  \/ Smaller(old.todo, new.todo)
  \/ /\ new.todo = old.todo
     /\ \/ Rank[new.phase] < Rank[old.phase]
        \/ new.phase = old.phase /\ new.user = old.user /\ Smaller(old.left, new.left) /\ new.ips = old.ips
        \/ new.phase = old.phase /\ new.user = old.user /\ Smaller(old.ips, new.ips) /\ new.left = old.left

(***************************************************************************)
(* A drop request ends after a number of steps that is fixed by what it    *)
(* has listed: no step, not a client that reconnects while its connections *)
(* are closed nor a restart of the core, gives it more to do.  With        *)
(* DropNeverWaits, it is answered.                                         *)
(***************************************************************************)
DropAdvances ==
  [][drop # DropIdle /\ drop' # drop => drop' = DropIdle \/ LessToDo(drop, drop')]_vars
=============================================================================
