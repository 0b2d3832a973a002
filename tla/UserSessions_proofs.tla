------------------------ MODULE UserSessions_proofs ------------------------
(***************************************************************************)
(* Proofs about UserSessions: for every set of users, inbounds and client  *)
(* addresses and every number of requests, failures and connections, users *)
(* have the access they were granted, are counted, are listed by the index *)
(* and lose their connections when they are dropped, which takes a number  *)
(* of steps that nobody can prolong.                                       *)
(***************************************************************************)
EXTENDS UserSessions, TLAPS

\* The users the request that holds coreMu has edited in memory.
Edited == IF pending.op = "users" THEN DOMAIN pending.grants ELSE {}

\* Every name is encoded for its inbound and in the statistics list.
Encoded(config) == \A t \in Tags : \A n \in config.inbounds[t] : n.inbound = t /\ n \in config.stats

\* What restartSingBox writes, and the process runs, was encoded.
ConfigsAreEncoded ==
  /\ Encoded(file) /\ Encoded(pending.candidate)
  /\ served # Down => Encoded(served)

\* The candidate of a request: a Start names every user; a user operation
\* needs a core and keeps the other users as they are in memory.
CandidateIsRequested ==
  /\ pending # NoRequest => pending.op \in {"start", "users"}
  /\ DOMAIN pending.grants \subseteq Users
  /\ \A u \in DOMAIN pending.grants :
       /\ pending.grants[u] \subseteq Tags
       /\ InboundsOf(pending.candidate, u) = pending.grants[u]
  /\ pending.op = "start" => DOMAIN pending.grants = Users
  /\ pending.op = "users" =>
       /\ running
       /\ \A u \in Users : InboundsOf(pending.candidate, u) = InboundsOf(memory, u)

\* The process of a core the agent has serves every user what it was granted.
\* It need not run the file: a candidate may have been left there.
CoreServesGranted ==
  running /\ served # Down => \A u \in Users \ unsure : InboundsOf(served, u) = granted[u]

\* The file and, but for the edits under way, the memory give every user what
\* it was granted.
UsersAsGranted ==
  running => \A u \in Users \ unsure :
    /\ InboundsOf(file, u) = granted[u]
    /\ u \notin Edited => InboundsOf(memory, u) = granted[u]

IndexFollowsMemory == index = IF running THEN extractSingBoxInbounds(memory) ELSE NoIndex

\* A connection is of a user of the process that carries it.
SessionsAreServed ==
  \A s \in sessions : served # Down /\ s.name \in served.inbounds[s.name.inbound]

\* A connection that is due waits for a step of the drop, or was missed.
DueIsPending ==
  /\ drop \in [phase : {"idle", "next", "delete", "fallback", "kill"}, todo : SUBSET Users,
               user : Users \cup {Nobody}, left : SUBSET Sessions, ips : SUBSET IPs]
  /\ drop.phase \in {"delete", "fallback", "kill"} => drop.user \in Users
  /\ \A s \in due :
       \/ UserID(s.name) \in drop.todo \cup missed
       \/ /\ UserID(s.name) = drop.user
          /\ \/ drop.phase = "delete" /\ s \in drop.left
             \/ drop.phase = "fallback"
             \/ drop.phase = "kill" /\ s.ip \in drop.ips

Access ==
  /\ ConfigsAreEncoded
  /\ CandidateIsRequested
  /\ CoreServesGranted
  /\ UsersAsGranted
  /\ IndexFollowsMemory

IInv ==
  /\ TypeOK
  /\ Access
  /\ SessionsAreServed
  /\ DueIsPending

-----------------------------------------------------------------------------
\* Configurations.

LEMMA ConfigParts ==
  ASSUME NEW config \in Config
  PROVE  /\ config.inbounds \in [Tags -> SUBSET Names] /\ config.stats \subseteq Names
         /\ \A t \in Tags : \A n \in config.inbounds[t] :
              n \in Names /\ UserID(n) \in Users /\ n.user = UserID(n)
BY DEF Config, Names, UserID

LEMMA NoConfigIsEncoded ==
  /\ NoConfig \in Config
  /\ Encoded(NoConfig)
  /\ \A u \in Users : InboundsOf(NoConfig, u) = {}
BY DEF NoConfig, Config, Encoded, InboundsOf

LEMMA NameParts ==
  ASSUME NEW u, NEW t
  PROVE  /\ UserInbound(u, t).user = u /\ UserInbound(u, t).inbound = t
         /\ UserID(UserInbound(u, t)) = u
         /\ u \in Users /\ t \in Tags \cup {Plain} => UserInbound(u, t) \in Names
BY DEF UserInbound, UserID, Names

\* The index lists exactly the users of each inbound.
LEMMA ExtractedUsers ==
  ASSUME NEW config \in Config
  PROVE  /\ extractSingBoxInbounds(config) \in [Tags -> SUBSET Users]
         /\ \A t \in Tags : extractSingBoxInbounds(config)[t] = {u \in Users : t \in InboundsOf(config, u)}
<1>1. \A t \in Tags : {UserID(n) : n \in config.inbounds[t]} = {u \in Users : t \in InboundsOf(config, u)}
  BY ConfigParts DEF InboundsOf
<1> QED BY <1>1 DEF extractSingBoxInbounds

\* Configurations with the same users have the same index.
LEMMA SameUsers ==
  ASSUME NEW c \in Config, NEW d \in Config, \A u \in Users : InboundsOf(d, u) = InboundsOf(c, u)
  PROVE  extractSingBoxInbounds(c) = extractSingBoxInbounds(d)
<1>1. ASSUME NEW t \in Tags PROVE extractSingBoxInbounds(c)[t] = extractSingBoxInbounds(d)[t]
  <2>1. {u \in Users : t \in InboundsOf(c, u)} = {u \in Users : t \in InboundsOf(d, u)}
    OBVIOUS
  <2>2. extractSingBoxInbounds(c)[t] = {u \in Users : t \in InboundsOf(c, u)}
    BY ExtractedUsers
  <2>3. extractSingBoxInbounds(d)[t] = {u \in Users : t \in InboundsOf(d, u)}
    BY ExtractedUsers
  <2> QED BY <2>1, <2>2, <2>3
<1> QED BY <1>1 DEF extractSingBoxInbounds

\* Encoding changes no user's inbounds and yields a counted configuration.
LEMMA APIConfigIsEncoded ==
  ASSUME NEW config \in Config
  PROVE  /\ applySingBoxAPIConfig(config) \in Config
         /\ Encoded(applySingBoxAPIConfig(config))
         /\ \A u \in Users : InboundsOf(applySingBoxAPIConfig(config), u) = InboundsOf(config, u)
<1> DEFINE inbounds == encodeSingBoxConfigUsers(config.inbounds)
           api == applySingBoxAPIConfig(config)
<1>1. api.inbounds = inbounds /\ api.stats = UNION {inbounds[t] : t \in Tags}
      /\ api = [inbounds |-> inbounds, stats |-> UNION {inbounds[t] : t \in Tags}]
  BY DEF applySingBoxAPIConfig
<1>2. inbounds = [t \in Tags |-> {UserInbound(UserID(n), t) : n \in config.inbounds[t]}]
  BY DEF encodeSingBoxConfigUsers
<1> HIDE DEF inbounds, api
<1>3. \A t \in Tags : \A n \in inbounds[t] : n \in Names /\ n.inbound = t
  BY <1>2, ConfigParts, NameParts
<1>4. inbounds \in [Tags -> SUBSET Names]
  BY <1>2, <1>3
<1>5. UNION {inbounds[t] : t \in Tags} \subseteq Names
  BY <1>3
<1>6. api \in Config
  BY <1>1, <1>4, <1>5 DEF Config
<1>7. Encoded(api)
  BY <1>1, <1>3 DEF Encoded
<1>8. ASSUME NEW u \in Users PROVE InboundsOf(api, u) = InboundsOf(config, u)
  <2>1. \A t \in Tags : (\E n \in inbounds[t] : UserID(n) = u) <=> (\E n \in config.inbounds[t] : UserID(n) = u)
    BY <1>2, NameParts
  <2> QED BY <1>1, <2>1 DEF InboundsOf
<1> QED BY <1>6, <1>7, <1>8 DEF api

LEMMA RemovedUsers ==
  ASSUME NEW config \in Config, NEW users
  PROVE  /\ removeSingBoxUser(config, users) \in Config
         /\ \A t \in Tags : removeSingBoxUser(config, users).inbounds[t]
                              = {n \in config.inbounds[t] : UserID(n) \notin users}
         /\ \A u \in users : InboundsOf(removeSingBoxUser(config, users), u) = {}
         /\ \A u \in Users \ users :
              InboundsOf(removeSingBoxUser(config, users), u) = InboundsOf(config, u)
<1> DEFINE kept == [t \in Tags |-> {n \in config.inbounds[t] : UserID(n) \notin users}]
           r == removeSingBoxUser(config, users)
<1>1. r.inbounds = kept /\ r.stats = config.stats /\ r = [inbounds |-> kept, stats |-> config.stats]
  <2>1. r = [config EXCEPT !.inbounds = kept]
    BY DEF removeSingBoxUser
  <2> HIDE DEF r, kept
  <2> QED BY <2>1 DEF Config
<1> HIDE DEF r
<1>2. kept \in [Tags -> SUBSET Names]
  BY ConfigParts
<1>3. r \in Config
  BY <1>1, <1>2, ConfigParts DEF Config
<1>4. \A t \in Tags : r.inbounds[t] = {n \in config.inbounds[t] : UserID(n) \notin users}
  BY <1>1
<1> HIDE DEF kept
<1>5. \A u \in users : InboundsOf(r, u) = {}
  BY <1>4 DEF InboundsOf
<1>6. \A u \in Users \ users : InboundsOf(r, u) = InboundsOf(config, u)
  BY <1>4 DEF InboundsOf
<1> QED BY <1>3, <1>4, <1>5, <1>6 DEF r

\* A multi-inbound addition: the users of the request get all its inbounds
\* and only those, the others keep theirs.
LEMMA AddedUsers ==
  ASSUME NEW config \in Config, NEW users \in SUBSET Users, NEW grants \in [users -> SUBSET Tags]
  PROVE  /\ applyAddUserRequest(config, grants) \in Config
         /\ \A u \in users : InboundsOf(applyAddUserRequest(config, grants), u) = grants[u]
         /\ \A u \in Users \ users :
              InboundsOf(applyAddUserRequest(config, grants), u) = InboundsOf(config, u)
<1> DEFINE kept == removeSingBoxUser(config, users)
           new(t) == {UserInbound(u, t) : u \in {v \in users : t \in grants[v]}}
           all == [t \in Tags |-> kept.inbounds[t] \cup new(t)]
           r == applyAddUserRequest(config, grants)
<1>1. kept \in Config
  BY RemovedUsers
<1>2. DOMAIN grants = users
  OBVIOUS
<1>3. r = [kept EXCEPT !.inbounds = all]
  BY <1>2 DEF applyAddUserRequest
<1> HIDE DEF kept, r
<1>4. r.inbounds = all /\ r = [inbounds |-> all, stats |-> kept.stats]
  BY <1>1, <1>3 DEF Config
<1>5. \A t \in Tags : \A n \in new(t) : n \in Names
  BY NameParts
<1> HIDE DEF new
<1>6. r \in Config
  BY <1>1, <1>4, <1>5, ConfigParts DEF Config
<1>7. \A t \in Tags : \A n : n \in r.inbounds[t] <=> n \in kept.inbounds[t] \/ n \in new(t)
  BY <1>4
<1>8. \A t \in Tags : \A u \in Users : (\E n \in new(t) : UserID(n) = u) <=> u \in users /\ t \in grants[u]
  BY NameParts DEF new
<1>9. \A u \in Users : InboundsOf(r, u) = InboundsOf(kept, u) \cup {t \in Tags : u \in users /\ t \in grants[u]}
  BY <1>7, <1>8 DEF InboundsOf
<1>10. /\ \A u \in users : InboundsOf(kept, u) = {}
       /\ \A u \in Users \ users : InboundsOf(kept, u) = InboundsOf(config, u)
  BY RemovedUsers DEF kept
<1>11. ASSUME NEW u \in users PROVE InboundsOf(r, u) = grants[u]
  <2>1. grants[u] \subseteq Tags /\ u \in Users
    OBVIOUS
  <2> QED BY <1>9, <1>10, <2>1
<1>12. ASSUME NEW u \in Users \ users PROVE InboundsOf(r, u) = InboundsOf(config, u)
  BY <1>9, <1>10
<1> QED BY <1>6, <1>11, <1>12 DEF r

\* The configuration of a Start, before it is encoded.
StartConfig(grants, inbound) ==
  [NoConfig EXCEPT !.inbounds =
     [t \in Tags |-> {UserInbound(u, inbound) : u \in {v \in Users : t \in grants[v]}}]]

LEMMA StartedUsers ==
  ASSUME NEW grants \in [Users -> SUBSET Tags], NEW inbound \in Tags \cup {Plain}
  PROVE  /\ StartConfig(grants, inbound) \in Config
         /\ \A u \in Users : InboundsOf(StartConfig(grants, inbound), u) = grants[u]
<1> DEFINE all == [t \in Tags |-> {UserInbound(u, inbound) : u \in {v \in Users : t \in grants[v]}}]
           r == StartConfig(grants, inbound)
<1>1. r.inbounds = all /\ r = [inbounds |-> all, stats |-> {}]
  <2>1. r = [NoConfig EXCEPT !.inbounds = all]
    BY DEF StartConfig
  <2> HIDE DEF r, all
  <2> QED BY <2>1 DEF NoConfig
<1>2. all \in [Tags -> SUBSET Names]
  BY NameParts
<1>3. r \in Config
  BY <1>1, <1>2 DEF Config
<1>4. \A t \in Tags : \A u \in Users : (\E n \in all[t] : UserID(n) = u) <=> t \in grants[u]
  BY NameParts
<1> HIDE DEF all, r
<1>5. \A u \in Users : InboundsOf(r, u) = {t \in Tags : t \in grants[u]}
  BY <1>1, <1>4 DEF InboundsOf
<1>6. \A u \in Users : {t \in Tags : t \in grants[u]} = grants[u]
  OBVIOUS
<1> QED BY <1>3, <1>5, <1>6 DEF r

-----------------------------------------------------------------------------
\* What a step that leaves a part of the state alone keeps.

LEMMA AccessFrame ==
  ASSUME Access, UNCHANGED <<stateVars, file, pending, granted, unsure>>, served' \in {served, Down}
  PROVE  Access'
<1> USE DEF Access, stateVars
<1>1. ConfigsAreEncoded'
  BY DEF ConfigsAreEncoded, Encoded
<1>2. CandidateIsRequested'
  BY DEF CandidateIsRequested, InboundsOf
<1>3. CoreServesGranted'
  BY DEF CoreServesGranted, InboundsOf
<1>4. UsersAsGranted'
  BY DEF UsersAsGranted, InboundsOf, Edited
<1>5. IndexFollowsMemory'
  BY DEF IndexFollowsMemory, extractSingBoxInbounds
<1> QED BY <1>1, <1>2, <1>3, <1>4, <1>5

LEMMA SessionFrame ==
  ASSUME SessionsAreServed, sessions' \subseteq sessions, served' = served \/ sessions' = {}
  PROVE  SessionsAreServed'
BY DEF SessionsAreServed

LEMMA DueFrame ==
  ASSUME DueIsPending, UNCHANGED <<drop, missed>>, due' \subseteq due
  PROVE  DueIsPending'
BY DEF DueIsPending

\* The connections of a process that is replaced, or kept, by a request.
LEMMA ServeFrame ==
  ASSUME IInv, UNCHANGED <<drop, missed>>, (\E config : Serve(config)) \/ KeepServing
  PROVE  /\ SessionsAreServed' /\ DueIsPending'
         /\ sessions' \subseteq Sessions /\ due' \subseteq sessions'
         /\ hung' \in BOOLEAN
<1>1. CASE \E config : Serve(config)
  BY <1>1, SessionFrame, DueFrame DEF IInv, Serve, TypeOK
<1>2. CASE KeepServing
  BY <1>2, SessionFrame, DueFrame DEF IInv, KeepServing, TypeOK
<1> QED BY <1>1, <1>2

-----------------------------------------------------------------------------
\* Requests under coreMu.

LEMMA StartStep ==
  ASSUME IInv, NEW grants \in [Users -> SUBSET Tags], NEW inbound \in Tags \cup {Plain}, Start(grants, inbound)
  PROVE  IInv'
<1> DEFINE config == StartConfig(grants, inbound)
           candidate == applySingBoxAPIConfig(config)
<1>1. /\ pending = NoRequest
      /\ pending' = [op |-> "start", candidate |-> candidate, grants |-> grants]
      /\ UNCHANGED <<running, memory, index, file, served, hung, sessions, drop, due, missed, granted, unsure>>
  BY DEF Start, StartConfig, stateVars, coreVars, dropVars
<1>2. /\ candidate \in Config /\ Encoded(candidate)
      /\ \A u \in Users : InboundsOf(candidate, u) = grants[u]
  BY StartedUsers, APIConfigIsEncoded
<1> HIDE DEF config, candidate
<1>3. /\ pending'.op = "start" /\ pending'.candidate = candidate /\ pending'.grants = grants
      /\ DOMAIN grants = Users /\ \A u \in Users : grants[u] \subseteq Tags
  BY <1>1
<1>4. TypeOK'
  BY <1>1, <1>2, <1>3 DEF IInv, TypeOK
<1>5. ConfigsAreEncoded'
  BY <1>1, <1>2, <1>3 DEF IInv, Access, ConfigsAreEncoded, Encoded
<1>6. CandidateIsRequested'
  BY <1>2, <1>3 DEF CandidateIsRequested, InboundsOf
<1>7. CoreServesGranted' /\ IndexFollowsMemory'
  BY <1>1 DEF IInv, Access, CoreServesGranted, InboundsOf, IndexFollowsMemory, extractSingBoxInbounds
<1>8. UsersAsGranted'
  <2>1. Edited' = {} /\ Edited = {}
    BY <1>1, <1>3 DEF Edited, NoRequest
  <2> QED BY <1>1, <2>1 DEF IInv, Access, UsersAsGranted, InboundsOf
<1>9. SessionsAreServed' /\ DueIsPending'
  BY <1>1, SessionFrame, DueFrame DEF IInv
<1> QED BY <1>4, <1>5, <1>6, <1>7, <1>8, <1>9 DEF IInv, Access

\* AddUsers and RemoveUsers: the memory is edited and restartSingBox begins.
LEMMA EditStep ==
  ASSUME IInv, pending = NoRequest, running, NEW config \in Config, NEW grants,
         DOMAIN grants \subseteq Users,
         \A u \in DOMAIN grants : grants[u] \subseteq Tags /\ InboundsOf(config, u) = grants[u],
         \A u \in Users \ DOMAIN grants : InboundsOf(config, u) = InboundsOf(memory, u),
         SetSingBoxConfig(config),
         pending' = [op |-> "users", candidate |-> applySingBoxAPIConfig(config), grants |-> grants],
         UNCHANGED <<running, coreVars, sessions, dropVars, granted, unsure>>
  PROVE  IInv'
<1> DEFINE candidate == applySingBoxAPIConfig(config)
<1>1. /\ candidate \in Config /\ Encoded(candidate)
      /\ \A u \in Users : InboundsOf(candidate, u) = InboundsOf(config, u)
  BY APIConfigIsEncoded
<1>2. /\ pending'.op = "users" /\ pending'.candidate = candidate /\ pending'.grants = grants
  OBVIOUS
<1>3. /\ UNCHANGED <<file, served, hung, drop, due, missed>>
      /\ memory' = config /\ index' = extractSingBoxInbounds(config)
  BY DEF coreVars, dropVars, SetSingBoxConfig
<1> HIDE DEF candidate
<1>4. TypeOK'
  BY <1>1, <1>2, <1>3, ExtractedUsers DEF IInv, TypeOK
<1>5. ConfigsAreEncoded'
  BY <1>1, <1>2, <1>3 DEF IInv, Access, ConfigsAreEncoded, Encoded
<1>6. CandidateIsRequested'
  BY <1>1, <1>2, <1>3 DEF CandidateIsRequested, InboundsOf
<1>7. CoreServesGranted' /\ IndexFollowsMemory'
  BY <1>3 DEF IInv, Access, CoreServesGranted, InboundsOf, IndexFollowsMemory, extractSingBoxInbounds
<1>8. UsersAsGranted'
  <2>1. Edited' = DOMAIN grants /\ Edited = {}
    BY <1>2 DEF Edited, NoRequest
  <2>2. \A u \in Users \ unsure : InboundsOf(file, u) = granted[u] /\ InboundsOf(memory, u) = granted[u]
    BY <2>1 DEF IInv, Access, UsersAsGranted
  <2>3. \A u \in Users : InboundsOf(file, u)' = InboundsOf(file, u) /\ InboundsOf(memory, u)' = InboundsOf(config, u)
    BY <1>3 DEF InboundsOf
  <2> QED BY <2>1, <2>2, <2>3 DEF UsersAsGranted
<1>9. SessionsAreServed' /\ DueIsPending'
  BY <1>3, SessionFrame, DueFrame DEF IInv
<1> QED BY <1>4, <1>5, <1>6, <1>7, <1>8, <1>9 DEF IInv, Access

LEMMA AddUsersStep ==
  ASSUME IInv, NEW users \in SUBSET Users, NEW grants \in [users -> SUBSET Tags], AddUsers(grants)
  PROVE  IInv'
<1>1. memory \in Config
  BY DEF IInv, TypeOK
<1> QED BY <1>1, AddedUsers, EditStep DEF AddUsers

LEMMA RemoveUsersStep ==
  ASSUME IInv, NEW users \in SUBSET Users, RemoveUsers(users)
  PROVE  IInv'
<1> DEFINE config == removeSingBoxUser(memory, users)
           grants == [u \in users |-> {}]
<1>1. memory \in Config
  BY DEF IInv, TypeOK
<1>2. /\ config \in Config
      /\ \A u \in users : InboundsOf(config, u) = {}
      /\ \A u \in Users \ users : InboundsOf(config, u) = InboundsOf(memory, u)
  BY <1>1, RemovedUsers
<1>3. DOMAIN grants = users /\ \A u \in users : grants[u] = {}
  OBVIOUS
<1>4. /\ pending = NoRequest /\ running /\ SetSingBoxConfig(config)
      /\ pending' = [op |-> "users", candidate |-> applySingBoxAPIConfig(config), grants |-> grants]
      /\ UNCHANGED <<running, coreVars, sessions, dropVars, granted, unsure>>
  BY DEF RemoveUsers
<1> HIDE DEF config, grants
<1> QED BY <1>2, <1>3, <1>4, EditStep

\* The edits of a request that fails half-way stay; its users are unsure.
LEMMA AddUsersFailsStep ==
  ASSUME IInv, NEW users \in SUBSET Users, NEW done \in [users -> SUBSET Tags], AddUsersFails(done)
  PROVE  IInv'
<1> DEFINE config == applyAddUserRequest(memory, done)
<1>1. /\ config \in Config
      /\ \A u \in Users \ users : InboundsOf(config, u) = InboundsOf(memory, u)
  BY AddedUsers DEF IInv, TypeOK
<1> HIDE DEF config
<1>2. /\ pending = NoRequest /\ running
      /\ memory' = config /\ index' = extractSingBoxInbounds(config)
      /\ unsure' = unsure \cup users
      /\ UNCHANGED <<running, file, served, hung, sessions, pending, drop, due, missed, granted>>
  BY DEF AddUsersFails, SetSingBoxConfig, coreVars, dropVars, config
<1>3. TypeOK'
  BY <1>1, <1>2, ExtractedUsers DEF IInv, TypeOK
<1>4. ConfigsAreEncoded' /\ CoreServesGranted' /\ IndexFollowsMemory'
  BY <1>2 DEF IInv, Access, ConfigsAreEncoded, Encoded, CoreServesGranted, InboundsOf, IndexFollowsMemory, extractSingBoxInbounds
<1>5. CandidateIsRequested'
  BY <1>2 DEF CandidateIsRequested, NoRequest
<1>6. UsersAsGranted'
  <2>1. Edited' = {} /\ Edited = {}
    BY <1>2 DEF Edited, NoRequest
  <2>2. \A u \in Users \ unsure : InboundsOf(file, u) = granted[u] /\ InboundsOf(memory, u) = granted[u]
    BY <1>2, <2>1 DEF IInv, Access, UsersAsGranted
  <2>3. \A u \in Users : InboundsOf(file, u)' = InboundsOf(file, u) /\ InboundsOf(memory, u)' = InboundsOf(config, u)
    BY <1>2 DEF InboundsOf
  <2> QED BY <1>1, <1>2, <2>1, <2>2, <2>3 DEF UsersAsGranted
<1>7. SessionsAreServed' /\ DueIsPending'
  BY <1>2, SessionFrame, DueFrame DEF IInv
<1> QED BY <1>3, <1>4, <1>5, <1>6, <1>7 DEF IInv, Access

LEMMA StopStep ==
  ASSUME IInv, Stop
  PROVE  IInv'
<1>1. /\ pending = NoRequest /\ running' = FALSE /\ index' = NoIndex
      /\ UNCHANGED <<memory, file, pending, drop, missed, granted, unsure>>
  BY DEF Stop
<1>2. \/ served' = Down /\ sessions' = {} /\ due' = {} /\ hung' = FALSE
      \/ UNCHANGED <<served, sessions, due, hung>>
  BY DEF Stop
<1>3. TypeOK'
  BY <1>1, <1>2 DEF IInv, TypeOK, NoIndex
<1>4. ConfigsAreEncoded' /\ CoreServesGranted' /\ IndexFollowsMemory' /\ UsersAsGranted'
  BY <1>1, <1>2 DEF IInv, Access, ConfigsAreEncoded, Encoded, CoreServesGranted, IndexFollowsMemory, NoIndex, UsersAsGranted
<1>5. CandidateIsRequested'
  BY <1>1 DEF CandidateIsRequested, NoRequest
<1>6. SessionsAreServed' /\ DueIsPending'
  BY <1>1, <1>2, SessionFrame, DueFrame DEF IInv
<1> QED BY <1>3, <1>4, <1>5, <1>6 DEF IInv, Access

-----------------------------------------------------------------------------
\* The outcomes of restartSingBox.

\* No request is pending after any of them.
LEMMA NoRequestParts ==
  /\ NoRequest.op = "none" /\ NoRequest.candidate = NoConfig /\ DOMAIN NoRequest.grants = {}
BY DEF NoRequest

LEMMA RestartedStep ==
  ASSUME IInv, Restarted
  PROVE  IInv'
<1>1. /\ file' = pending.candidate /\ served' = pending.candidate /\ memory' = pending.candidate
      /\ running' = TRUE /\ index' = extractSingBoxInbounds(pending.candidate)
      /\ hung' = FALSE /\ sessions' = {} /\ due' = {} /\ pending' = NoRequest
      /\ granted' = [u \in Users |-> IF u \in DOMAIN pending.grants THEN pending.grants[u] ELSE granted[u]]
      /\ unsure' = unsure \ DOMAIN pending.grants
      /\ UNCHANGED <<drop, missed>>
  BY DEF Restarted, Serve, SetRunningCore, extractSingBoxInbounds
<1>2. /\ pending.candidate \in Config /\ Encoded(pending.candidate)
      /\ DOMAIN pending.grants \subseteq Users
      /\ \A u \in DOMAIN pending.grants : /\ pending.grants[u] \subseteq Tags
                                          /\ InboundsOf(pending.candidate, u) = pending.grants[u]
      /\ pending.op \in {"start", "users"}
      /\ pending.op = "start" => DOMAIN pending.grants = Users
      /\ pending.op = "users" => /\ running
                                 /\ \A u \in Users : InboundsOf(pending.candidate, u) = InboundsOf(memory, u)
  BY DEF IInv, TypeOK, Access, ConfigsAreEncoded, CandidateIsRequested, Restarted
<1>3. TypeOK'
  BY <1>1, <1>2, ExtractedUsers, NoRequestParts, NoConfigIsEncoded DEF IInv, TypeOK
<1>4. ConfigsAreEncoded'
  BY <1>1, <1>2, NoRequestParts, NoConfigIsEncoded DEF ConfigsAreEncoded, Encoded
<1>5. CandidateIsRequested'
  BY <1>1, NoRequestParts DEF CandidateIsRequested
<1>6. IndexFollowsMemory'
  BY <1>1 DEF IndexFollowsMemory, extractSingBoxInbounds
<1>7. UsersAsGranted' /\ CoreServesGranted'
  <2>1. ASSUME NEW u \in Users \ unsure' PROVE InboundsOf(pending.candidate, u) = granted'[u]
    <3>1. CASE u \in DOMAIN pending.grants
      BY <1>1, <1>2, <3>1
    <3>2. CASE u \notin DOMAIN pending.grants
      <4>1. pending.op = "users" /\ u \notin unsure /\ u \notin Edited /\ running
        BY <1>1, <1>2, <3>2 DEF Edited
      <4>2. InboundsOf(memory, u) = granted[u]
        BY <4>1 DEF IInv, Access, UsersAsGranted
      <4> QED BY <1>1, <1>2, <3>2, <4>1, <4>2
    <3> QED BY <3>1, <3>2
  <2>2. \A u \in Users : /\ InboundsOf(file, u)' = InboundsOf(pending.candidate, u)
                         /\ InboundsOf(memory, u)' = InboundsOf(pending.candidate, u)
                         /\ InboundsOf(served, u)' = InboundsOf(pending.candidate, u)
    BY <1>1 DEF InboundsOf
  <2> QED BY <2>1, <2>2 DEF UsersAsGranted, CoreServesGranted
<1>8. SessionsAreServed' /\ DueIsPending'
  BY <1>1, SessionFrame, DueFrame DEF IInv
<1> QED BY <1>3, <1>4, <1>5, <1>6, <1>7, <1>8 DEF IInv, Access

\* The configuration of the file comes back, with a core or without.
LEMMA BackToFile ==
  ASSUME IInv, pending # NoRequest, pending' = NoRequest,
         UNCHANGED <<running, file, drop, missed, granted, unsure>>,
         IF running THEN memory' = file /\ index' = extractSingBoxInbounds(file) ELSE UNCHANGED <<memory, index>>,
         (\E config : Serve(config)) \/ KeepServing,
         running => served' \in {served, file},
         served' \in {served, file, Down, pending.candidate}
  PROVE  IInv'
<1>1. pending'.op = "none" /\ pending'.candidate = NoConfig /\ DOMAIN pending'.grants = {} /\ Edited' = {}
  BY NoRequestParts DEF Edited
<1>2. file \in Config /\ pending.candidate \in Config
  BY DEF IInv, TypeOK
<1>3. SessionsAreServed' /\ DueIsPending' /\ sessions' \subseteq Sessions /\ due' \subseteq sessions' /\ hung' \in BOOLEAN
  BY ServeFrame
<1>4. TypeOK'
  BY <1>1, <1>2, <1>3, NoConfigIsEncoded, ExtractedUsers DEF IInv, TypeOK
<1>5. ConfigsAreEncoded'
  BY <1>1, NoConfigIsEncoded DEF IInv, Access, ConfigsAreEncoded, Encoded
<1>6. CandidateIsRequested'
  BY <1>1 DEF CandidateIsRequested
<1>7. CoreServesGranted'
  BY DEF IInv, Access, CoreServesGranted, UsersAsGranted, InboundsOf
<1>8. IndexFollowsMemory'
  BY DEF IInv, Access, IndexFollowsMemory, extractSingBoxInbounds
<1>9. UsersAsGranted'
  BY <1>1 DEF IInv, Access, UsersAsGranted, InboundsOf
<1> QED BY <1>3, <1>4, <1>5, <1>6, <1>7, <1>8, <1>9 DEF IInv, Access

LEMMA RejectedStep ==
  ASSUME IInv, Rejected
  PROVE  IInv'
<1>1. KeepServing /\ served' = served
  BY DEF Rejected, KeepServing
<1>2. IF running THEN memory' = file /\ index' = extractSingBoxInbounds(file) ELSE UNCHANGED <<memory, index>>
  BY DEF Rejected, SetSingBoxConfig
<1> QED BY <1>1, <1>2, BackToFile DEF Rejected

LEMMA RolledBackStep ==
  ASSUME IInv, RolledBack
  PROVE  IInv'
<1>1. IF running THEN memory' = file /\ index' = extractSingBoxInbounds(file) ELSE UNCHANGED <<memory, index>>
  BY DEF RolledBack, SetRunningCore, extractSingBoxInbounds, IInv, Access, IndexFollowsMemory, TypeOK
<1>2. /\ (\E config : Serve(config)) \/ KeepServing
      /\ running => served' \in {served, file}
      /\ served' \in {served, file, Down, pending.candidate}
  BY DEF RolledBack, Serve, KeepServing
<1>3. running' = running
  BY DEF RolledBack, SetRunningCore
<1> QED BY <1>1, <1>2, <1>3, BackToFile DEF RolledBack

\* Memory, index and process are as before; the file is, too, or has the
\* candidate, which is what was granted for the users not named.
LEMMA NotWrittenStep ==
  ASSUME IInv, NotWritten
  PROVE  IInv'
<1>1. /\ UNCHANGED <<running, memory, index, served, hung, sessions, due, drop, missed, granted>>
      /\ pending # NoRequest /\ pending' = NoRequest
      /\ \/ UNCHANGED file /\ unsure' = unsure \cup Edited
         \/ file' = pending.candidate /\ unsure' = unsure \cup DOMAIN pending.grants
  BY DEF NotWritten, KeepServing, NoLongerSure, stateVars, Edited
<1>2. pending'.op = "none" /\ pending'.candidate = NoConfig /\ DOMAIN pending'.grants = {} /\ Edited' = {}
  BY <1>1, NoRequestParts DEF Edited
<1>3. /\ Edited \subseteq DOMAIN pending.grants /\ DOMAIN pending.grants \subseteq Users
      /\ pending.op \in {"start", "users"}
      /\ pending.op = "start" => DOMAIN pending.grants = Users
      /\ pending.op = "users" => /\ running
                                 /\ Edited = DOMAIN pending.grants
                                 /\ \A u \in Users : InboundsOf(pending.candidate, u) = InboundsOf(memory, u)
  BY <1>1 DEF Edited, IInv, Access, CandidateIsRequested
<1>4. /\ unsure \cup Edited \subseteq unsure' /\ unsure' \subseteq Users
      /\ file' \in Config /\ Encoded(file')
  BY <1>1, <1>3 DEF IInv, TypeOK, Access, ConfigsAreEncoded
<1>5. TypeOK'
  BY <1>1, <1>2, <1>4, NoConfigIsEncoded DEF IInv, TypeOK
<1>6. ConfigsAreEncoded'
  BY <1>1, <1>2, <1>4, NoConfigIsEncoded DEF IInv, Access, ConfigsAreEncoded, Encoded
<1>7. CandidateIsRequested'
  BY <1>1, <1>2 DEF CandidateIsRequested
<1>8. CoreServesGranted' /\ IndexFollowsMemory'
  BY <1>1, <1>4 DEF IInv, Access, CoreServesGranted, InboundsOf, IndexFollowsMemory, extractSingBoxInbounds
<1>9. UsersAsGranted'
  <2> SUFFICES ASSUME running, NEW u \in Users \ unsure'
               PROVE  InboundsOf(file', u) = granted[u] /\ InboundsOf(memory, u) = granted[u]
    BY <1>1 DEF UsersAsGranted, InboundsOf
  <2>1. InboundsOf(file, u) = granted[u] /\ InboundsOf(memory, u) = granted[u]
    BY <1>4 DEF IInv, Access, UsersAsGranted
  <2>2. CASE file' = file
    BY <2>1, <2>2
  <2>3. CASE file' = pending.candidate /\ unsure' = unsure \cup DOMAIN pending.grants
    <3>1. pending.op = "users"
      BY <1>3, <2>3
    <3> QED BY <1>3, <2>1, <2>3, <3>1
  <2> QED BY <1>1, <2>2, <2>3
<1>10. SessionsAreServed' /\ DueIsPending'
  BY <1>1, SessionFrame, DueFrame DEF IInv
<1> QED BY <1>5, <1>6, <1>7, <1>8, <1>9, <1>10 DEF IInv, Access

\* Without a core only the types and the encoding matter.
LEMMA NoCoreStep ==
  ASSUME IInv, running' = FALSE, index' = NoIndex, pending' = NoRequest,
         memory' \in Config, file' \in {file, pending.candidate},
         served' \in {served, Down, pending.candidate},
         unsure' \subseteq Users, UNCHANGED granted,
         SessionsAreServed', DueIsPending', sessions' \subseteq Sessions, due' \subseteq sessions',
         hung' \in BOOLEAN, missed' \subseteq Users
  PROVE  IInv'
<1>1. pending'.op = "none" /\ pending'.candidate = NoConfig /\ DOMAIN pending'.grants = {}
  BY NoRequestParts
<1>2. TypeOK'
  BY <1>1, NoConfigIsEncoded DEF IInv, TypeOK, NoIndex, DueIsPending
<1>3. ConfigsAreEncoded'
  BY <1>1, NoConfigIsEncoded DEF IInv, Access, ConfigsAreEncoded, Encoded
<1>4. CandidateIsRequested'
  BY <1>1 DEF CandidateIsRequested
<1>5. CoreServesGranted' /\ IndexFollowsMemory' /\ UsersAsGranted'
  BY DEF CoreServesGranted, IndexFollowsMemory, UsersAsGranted, NoIndex
<1> QED BY <1>2, <1>3, <1>4, <1>5 DEF IInv, Access

LEMMA RollbackFailsStep ==
  ASSUME IInv, RollbackFails
  PROVE  IInv'
<1>1. /\ running' = FALSE /\ index' = NoIndex /\ pending' = NoRequest
      /\ memory' \in {memory, file} /\ file' \in {file, pending.candidate}
      /\ UNCHANGED <<drop, missed, granted>>
  BY DEF RollbackFails, SetRunningCore
<1>2. /\ (\E config : Serve(config)) \/ KeepServing
      /\ served' \in {served, Down, pending.candidate}
  BY DEF RollbackFails, Serve, KeepServing
<1>3. unsure' \subseteq Users
  BY DEF RollbackFails, NoLongerSure, IInv, TypeOK, Access, CandidateIsRequested
<1>4. SessionsAreServed' /\ DueIsPending' /\ sessions' \subseteq Sessions /\ due' \subseteq sessions' /\ hung' \in BOOLEAN
  BY <1>1, <1>2, ServeFrame
<1>5. memory' \in Config /\ missed' \subseteq Users
  BY <1>1 DEF IInv, TypeOK
<1> QED BY <1>1, <1>2, <1>3, <1>4, <1>5, NoCoreStep

LEMMA AgentRestartsStep ==
  ASSUME IInv, AgentRestarts
  PROVE  IInv'
<1>1. /\ running' = FALSE /\ index' = NoIndex /\ pending' = NoRequest /\ memory' = NoConfig
      /\ file' \in {file, pending.candidate} /\ served' = Down /\ sessions' = {} /\ due' = {}
      /\ hung' = FALSE /\ drop' = DropIdle /\ missed' = {}
      /\ UNCHANGED <<granted, unsure>>
  BY DEF AgentRestarts, Serve
<1>2. SessionsAreServed'
  BY <1>1 DEF SessionsAreServed
<1>3. DueIsPending'
  BY <1>1 DEF DueIsPending, DropIdle
<1>4. unsure' \subseteq Users
  BY <1>1 DEF IInv, TypeOK
<1>5. memory' \in Config
  BY <1>1, NoConfigIsEncoded
<1>6. sessions' \subseteq Sessions /\ due' \subseteq sessions' /\ hung' \in BOOLEAN /\ missed' \subseteq Users
  BY <1>1
<1> QED BY <1>1, <1>2, <1>3, <1>4, <1>5, <1>6, NoCoreStep

-----------------------------------------------------------------------------
\* DropUsersConnections.

DropType == [phase : {"idle", "next", "delete", "fallback", "kill"}, todo : SUBSET Users,
             user : Users \cup {Nobody}, left : SUBSET Sessions, ips : SUBSET IPs]

\* A step of the drop touches neither the configurations nor the requests.
LEMMA DropFrame ==
  ASSUME IInv, DropUnchanged, sessions' \subseteq sessions, due' \subseteq sessions',
         missed' \subseteq Users, DueIsPending'
  PROVE  IInv'
<1>1. /\ UNCHANGED <<stateVars, file, pending, granted, unsure>>
      /\ UNCHANGED <<running, memory, index, file, served, hung, pending, granted, unsure>>
  BY DEF DropUnchanged, stateVars, coreVars
<1>2. Access'
  BY <1>1, AccessFrame DEF IInv
<1>3. SessionsAreServed'
  BY <1>1, SessionFrame DEF IInv
<1>4. TypeOK'
  <2>1. drop' \in DropType
    BY DEF DueIsPending, DropType
  <2> QED BY <1>1, <2>1 DEF IInv, TypeOK, DropType
<1> QED BY <1>2, <1>3, <1>4 DEF IInv

LEMMA DropBegins ==
  ASSUME IInv, NEW users \in SUBSET Users, DropUsersConnections(users)
  PROVE  IInv'
<1>1. /\ drop' = [DropIdle EXCEPT !.phase = "next", !.todo = users]
      /\ due' = UNION {Of(u) : u \in users} /\ missed' = {}
      /\ UNCHANGED <<stateVars, coreVars, sessions, pending, granted, unsure>>
  BY DEF DropUsersConnections
<1>2. drop' = [phase |-> "next", todo |-> users, user |-> Nobody, left |-> {}, ips |-> {}]
  BY <1>1 DEF DropIdle
<1>3. \A s \in due' : s \in sessions /\ UserID(s.name) \in users
  BY <1>1 DEF Of
<1>4. drop' \in DropType /\ drop'.todo = users /\ drop'.phase = "next"
  BY <1>2 DEF DropType
<1>5. DueIsPending'
  BY <1>3, <1>4 DEF DueIsPending, DropType
<1>6. UNCHANGED <<running, memory, index, file, served, hung>>
  BY <1>1 DEF stateVars, coreVars
<1>7. Access' /\ SessionsAreServed'
  BY <1>1, <1>6, AccessFrame, SessionFrame DEF IInv
<1>8. TypeOK'
  BY <1>1, <1>3, <1>4, <1>6 DEF IInv, TypeOK, DropType
<1> QED BY <1>5, <1>7, <1>8 DEF IInv

\* The connections of a user are listed: all that are due are among them.
LEMMA ListConnectionsStep ==
  ASSUME IInv, NEW u \in Users, ListConnections(u)
  PROVE  IInv'
<1>1. /\ DropUnchanged /\ UNCHANGED <<sessions, due, missed>>
      /\ drop.phase = "next" /\ u \in drop.todo /\ drop \in DropType
      /\ due \subseteq sessions /\ sessions \subseteq Sessions /\ missed \subseteq Users
  BY DEF ListConnections, IInv, DueIsPending, DropType, TypeOK
<1>2. \A s \in due : UserID(s.name) \in drop.todo \cup missed
  BY <1>1 DEF IInv, DueIsPending
<1>3. CASE drop' = [drop EXCEPT !.phase = "delete", !.todo = @ \ {u}, !.user = u, !.left = Of(u)]
  <2>1. /\ drop' \in DropType /\ drop'.phase = "delete" /\ drop'.todo = drop.todo \ {u}
        /\ drop'.user = u /\ drop'.left = Of(u)
    BY <1>1, <1>3 DEF DropType, Of
  <2>2. \A s \in due : UserID(s.name) = u => s \in Of(u)
    BY <1>1 DEF Of
  <2>3. DueIsPending'
    BY <1>1, <1>2, <2>1, <2>2 DEF DueIsPending, DropType
  <2> QED BY <1>1, <2>3, DropFrame
<1>4. CASE drop' = [drop EXCEPT !.phase = "fallback", !.todo = @ \ {u}, !.user = u]
  <2>1. /\ drop' \in DropType /\ drop'.phase = "fallback" /\ drop'.todo = drop.todo \ {u}
        /\ drop'.user = u
    BY <1>1, <1>4 DEF DropType
  <2>2. DueIsPending'
    BY <1>1, <1>2, <2>1 DEF DueIsPending, DropType
  <2> QED BY <1>1, <2>2, DropFrame
<1> QED BY <1>3, <1>4 DEF ListConnections

LEMMA DeleteStep ==
  ASSUME IInv, NEW s \in Sessions, DeleteConnection(s)
  PROVE  IInv'
<1>1. /\ DropUnchanged /\ UNCHANGED missed
      /\ drop.phase = "delete" /\ drop \in DropType /\ drop.user \in Users
      /\ sessions' = sessions \ {s} /\ due' = due \ {s}
      /\ drop' = [drop EXCEPT !.left = @ \ {s}]
      /\ due \subseteq sessions /\ missed \subseteq Users
  BY DEF DeleteConnection, IInv, DueIsPending, DropType, TypeOK
<1>2. \A x \in due : \/ UserID(x.name) \in drop.todo \cup missed
                     \/ UserID(x.name) = drop.user /\ x \in drop.left
  BY <1>1 DEF IInv, DueIsPending
<1>3. /\ drop' \in DropType /\ drop'.left = drop.left \ {s}
      /\ drop'.phase = "delete" /\ drop'.todo = drop.todo /\ drop'.user = drop.user
  BY <1>1 DEF DropType
<1>4. DueIsPending'
  BY <1>1, <1>2, <1>3 DEF DueIsPending, DropType
<1> QED BY <1>1, <1>4, DropFrame

LEMMA DeleteFailsStep ==
  ASSUME IInv, DeleteFails
  PROVE  IInv'
<1>1. /\ DropUnchanged /\ UNCHANGED <<sessions, due, missed>>
      /\ drop.phase = "delete" /\ drop \in DropType /\ drop.user \in Users
      /\ drop' = [drop EXCEPT !.phase = "fallback", !.left = {}]
      /\ due \subseteq sessions /\ missed \subseteq Users
  BY DEF DeleteFails, IInv, DueIsPending, DropType, TypeOK
<1>2. \A x \in due : UserID(x.name) \in drop.todo \cup missed \/ UserID(x.name) = drop.user
  BY DEF IInv, DueIsPending
<1>3. /\ drop' \in DropType /\ drop'.phase = "fallback" /\ drop'.todo = drop.todo /\ drop'.user = drop.user
  BY <1>1 DEF DropType
<1>4. DueIsPending'
  BY <1>1, <1>2, <1>3 DEF DueIsPending, DropType
<1> QED BY <1>1, <1>4, DropFrame

LEMMA ListAddressesStep ==
  ASSUME IInv, ListAddresses
  PROVE  IInv'
<1>1. /\ DropUnchanged /\ UNCHANGED <<sessions, due>>
      /\ drop.phase = "fallback" /\ drop \in DropType /\ drop.user \in Users
      /\ due \subseteq sessions /\ sessions \subseteq Sessions /\ missed \subseteq Users
  BY DEF ListAddresses, IInv, DueIsPending, DropType, TypeOK
<1>2. \A x \in due : UserID(x.name) \in drop.todo \cup missed \/ UserID(x.name) = drop.user
  BY DEF IInv, DueIsPending
<1>3. CASE drop' = [drop EXCEPT !.phase = "kill", !.ips = {s.ip : s \in Of(drop.user)}] /\ UNCHANGED missed
  <2>0. {s.ip : s \in Of(drop.user)} \subseteq IPs
    BY <1>1 DEF Of, Sessions
  <2>1. /\ drop' \in DropType /\ drop'.phase = "kill" /\ drop'.ips = {s.ip : s \in Of(drop.user)}
        /\ drop'.todo = drop.todo /\ drop'.user = drop.user
    BY <1>1, <1>3, <2>0 DEF DropType
  <2>2. \A x \in due : UserID(x.name) = drop.user => x.ip \in {s.ip : s \in Of(drop.user)}
    BY <1>1 DEF Of
  <2>3. DueIsPending'
    BY <1>1, <1>2, <1>3, <2>1, <2>2 DEF DueIsPending, DropType
  <2> QED BY <1>1, <1>3, <2>3, DropFrame
<1>4. CASE drop' = [drop EXCEPT !.phase = "next", !.user = Nobody] /\ missed' = missed \cup {drop.user}
  <2>1. /\ drop' \in DropType /\ drop'.phase = "next" /\ drop'.todo = drop.todo
    BY <1>1, <1>4 DEF DropType
  <2>2. DueIsPending'
    BY <1>1, <1>2, <1>4, <2>1 DEF DueIsPending, DropType
  <2> QED BY <1>1, <1>4, <2>2, DropFrame
<1> QED BY <1>3, <1>4 DEF ListAddresses

LEMMA KillStep ==
  ASSUME IInv, NEW ip \in IPs, dropConnections(ip)
  PROVE  IInv'
<1>1. /\ DropUnchanged
      /\ drop.phase = "kill" /\ drop \in DropType /\ drop.user \in Users
      /\ drop' = [drop EXCEPT !.ips = @ \ {ip}]
      /\ due \subseteq sessions /\ missed \subseteq Users
  BY DEF dropConnections, IInv, DueIsPending, DropType, TypeOK
<1>2. \A x \in due : \/ UserID(x.name) \in drop.todo \cup missed
                     \/ UserID(x.name) = drop.user /\ x.ip \in drop.ips
  BY <1>1 DEF IInv, DueIsPending
<1>3. /\ drop' \in DropType /\ drop'.phase = "kill" /\ drop'.ips = drop.ips \ {ip}
      /\ drop'.todo = drop.todo /\ drop'.user = drop.user
  BY <1>1 DEF DropType
<1>4. CASE Kill(ip) /\ UNCHANGED missed
  <2>1. DueIsPending'
    BY <1>1, <1>2, <1>3, <1>4 DEF DueIsPending, DropType, Kill
  <2> QED BY <1>1, <1>4, <2>1, DropFrame DEF Kill
<1>5. CASE missed' = missed \cup {drop.user} /\ UNCHANGED <<sessions, due>>
  <2>1. DueIsPending'
    BY <1>1, <1>2, <1>3, <1>5 DEF DueIsPending, DropType
  <2> QED BY <1>1, <1>5, <2>1, DropFrame
<1> QED BY <1>4, <1>5 DEF dropConnections

LEMMA NextUserStep ==
  ASSUME IInv, NextUser
  PROVE  IInv'
<1>1. /\ DropUnchanged /\ UNCHANGED <<sessions, due, missed>>
      /\ drop \in DropType /\ drop' = [drop EXCEPT !.phase = "next", !.user = Nobody]
      /\ due \subseteq sessions /\ missed \subseteq Users
  BY DEF NextUser, IInv, DueIsPending, DropType, TypeOK
<1>2. \A x \in due : UserID(x.name) \in drop.todo \cup missed
  BY DEF IInv, DueIsPending, NextUser
<1>3. /\ drop' \in DropType /\ drop'.phase = "next" /\ drop'.todo = drop.todo
  BY <1>1 DEF DropType
<1>4. DueIsPending'
  BY <1>1, <1>2, <1>3 DEF DueIsPending, DropType
<1> QED BY <1>1, <1>4, DropFrame

LEMMA AnswerStep ==
  ASSUME IInv, Answer
  PROVE  IInv'
<1>1. DropUnchanged /\ UNCHANGED sessions /\ drop' = DropIdle /\ due' = {} /\ missed' = {}
  BY DEF Answer
<1>2. DueIsPending'
  BY <1>1 DEF DueIsPending, DropIdle
<1> QED BY <1>1, <1>2, DropFrame

-----------------------------------------------------------------------------
\* Clients, faults and requests without coreMu.

\* Connections end, the process with them or not.
LEMMA SessionsEnd ==
  ASSUME IInv, UNCHANGED <<stateVars, file, pending, drop, missed, granted, unsure>>,
         hung' \in BOOLEAN, sessions' \subseteq sessions, due' \subseteq due, due' \subseteq sessions',
         served' = served \/ (served' = Down /\ sessions' = {})
  PROVE  IInv'
<1>1. Access'
  BY AccessFrame DEF IInv
<1>2. SessionsAreServed' /\ DueIsPending'
  BY SessionFrame, DueFrame DEF IInv
<1>3. TypeOK'
  BY DEF IInv, TypeOK, stateVars
<1> QED BY <1>1, <1>2, <1>3 DEF IInv

LEMMA OpenSessionStep ==
  ASSUME IInv, NEW s \in Sessions, OpenSession(s)
  PROVE  IInv'
<1>1. /\ UNCHANGED <<stateVars, file, pending, granted, unsure>>
      /\ UNCHANGED <<running, memory, index, file, served, hung, pending, drop, due, missed, granted, unsure>>
      /\ sessions' = sessions \cup {s}
      /\ served # Down /\ s.name \in served.inbounds[s.name.inbound]
  BY DEF OpenSession, stateVars, coreVars, dropVars
<1>2. Access' /\ DueIsPending'
  BY <1>1, AccessFrame, DueFrame DEF IInv
<1>3. SessionsAreServed'
  BY <1>1 DEF IInv, SessionsAreServed
<1>4. TypeOK'
  BY <1>1 DEF IInv, TypeOK
<1> QED BY <1>2, <1>3, <1>4 DEF IInv

LEMMA ClientsAndFaults ==
  ASSUME IInv,
         \/ \E ip \in IPs : DropIPs(ip)
         \/ \E s \in Sessions : CloseSession(s)
         \/ CoreCrashes \/ CoreHangs \/ UNCHANGED vars
  PROVE  IInv'
<1>0. due \subseteq sessions /\ hung \in BOOLEAN
  BY DEF IInv, TypeOK
<1>1. ASSUME NEW ip \in IPs, DropIPs(ip) PROVE IInv'
  <2>1. sessions' \subseteq sessions /\ due' \subseteq due /\ due' \subseteq sessions'
    BY <1>0, <1>1 DEF DropIPs, Kill
  <2> QED BY <1>0, <1>1, <2>1, SessionsEnd DEF DropIPs, coreVars
<1>2. ASSUME NEW s \in Sessions, CloseSession(s) PROVE IInv'
  BY <1>0, <1>2, SessionsEnd DEF CloseSession, coreVars
<1>3. CASE CoreCrashes
  BY <1>0, <1>3, SessionsEnd DEF CoreCrashes, Serve
<1>4. CASE CoreHangs
  BY <1>0, <1>4, SessionsEnd DEF CoreHangs, dropVars
<1>5. CASE UNCHANGED vars
  BY <1>0, <1>5, SessionsEnd DEF vars, coreVars, dropVars
<1> QED BY <1>1, <1>2, <1>3, <1>4, <1>5

-----------------------------------------------------------------------------
\* The inductive invariant.

LEMMA InitIInv == Init => IInv
<1> SUFFICES ASSUME Init PROVE IInv
  OBVIOUS
<1>1. TypeOK
  BY NoConfigIsEncoded, NoRequestParts DEF Init, TypeOK, NoIndex, DropIdle
<1>2. Access
  BY NoConfigIsEncoded, NoRequestParts
  DEF Init, Access, ConfigsAreEncoded, CandidateIsRequested, CoreServesGranted, UsersAsGranted, IndexFollowsMemory, NoIndex
<1>3. SessionsAreServed /\ DueIsPending
  BY DEF Init, SessionsAreServed, DueIsPending, DropIdle
<1> QED BY <1>1, <1>2, <1>3 DEF IInv

LEMMA NextIInv == IInv /\ [Next]_vars => IInv'
<1> SUFFICES ASSUME IInv, [Next]_vars PROVE IInv'
  OBVIOUS
<1>1. ASSUME NEW grants \in [Users -> SUBSET Tags], NEW inbound \in Tags \cup {Plain}, Start(grants, inbound)
      PROVE  IInv'
  BY <1>1, StartStep
<1>2. ASSUME NEW users \in Batches, NEW grants \in [users -> SUBSET Tags], AddUsers(grants) \/ AddUsersFails(grants)
      PROVE  IInv'
  BY <1>2, AddUsersStep, AddUsersFailsStep DEF Batches
<1>3. ASSUME NEW users \in Batches, RemoveUsers(users) PROVE IInv'
  BY <1>3, RemoveUsersStep DEF Batches
<1>4. ASSUME NEW users \in SUBSET Users, DropUsersConnections(users) PROVE IInv'
  BY <1>4, DropBegins
<1>5. CASE Stop
  BY <1>5, StopStep
<1>6. CASE Restart
  BY <1>6, RestartedStep, RejectedStep, NotWrittenStep, RolledBackStep, RollbackFailsStep DEF Restart
<1>7. CASE DropStep
  BY <1>7, ListConnectionsStep, DeleteStep, DeleteFailsStep, ListAddressesStep, KillStep, NextUserStep, AnswerStep
  DEF DropStep
<1>8. ASSUME NEW s \in Sessions, OpenSession(s) PROVE IInv'
  BY <1>8, OpenSessionStep
<1>9. CASE AgentRestarts
  BY <1>9, AgentRestartsStep
<1>10. CASE \/ \E ip \in IPs : DropIPs(ip)
            \/ \E s \in Sessions : CloseSession(s)
            \/ CoreCrashes \/ CoreHangs \/ UNCHANGED vars
  BY <1>10, ClientsAndFaults
<1> QED BY <1>1, <1>2, <1>3, <1>4, <1>5, <1>6, <1>7, <1>8, <1>9, <1>10 DEF Next, ReadUsers

LEMMA Inductive == Spec => []IInv
<1>1. Init => IInv
  BY InitIInv
<1>2. IInv /\ [Next]_vars => IInv'
  BY NextIInv
<1> QED BY <1>1, <1>2, PTL DEF Spec

-----------------------------------------------------------------------------
(***************************************************************************)
(* Whatever requests fail, are rejected or rolled back, a user whose last  *)
(* request succeeded has exactly its inbounds, in the file, in the process *)
(* and in its open connections, unless a Start has failed since and left   *)
(* its configuration in the file.                                          *)
(***************************************************************************)
THEOREM AccessSafety == Spec => []AccessIsGranted
<1>1. ASSUME IInv PROVE AccessIsGranted
  <2> SUFFICES ASSUME running, pending = NoRequest, NEW u \in Users \ unsure
               PROVE  /\ InboundsOf(file, u) = granted[u]
                      /\ served # Down => InboundsOf(served, u) = granted[u]
                      /\ \A s \in Of(u) : s.name.inbound \in granted[u]
    BY <1>1 DEF AccessIsGranted, IInv
  <2>1. InboundsOf(file, u) = granted[u] /\ (served # Down => InboundsOf(served, u) = granted[u])
    BY <1>1 DEF IInv, Access, UsersAsGranted, CoreServesGranted
  <2>2. ASSUME NEW s \in Of(u) PROVE s.name.inbound \in granted[u]
    <3>1. /\ served # Down /\ s.name \in served.inbounds[s.name.inbound] /\ UserID(s.name) = u
          /\ s.name.inbound \in Tags
      BY <1>1 DEF IInv, SessionsAreServed, Of, TypeOK, Sessions
    <3> QED BY <2>1, <3>1 DEF InboundsOf
  <2> QED BY <2>1, <2>2
<1> QED BY <1>1, Inductive, PTL

(***************************************************************************)
(* Every user sing-box serves carries a name of its inbound and is in the  *)
(* statistics list of applySingBoxAPIConfig.                               *)
(***************************************************************************)
THEOREM CountingSafety == Spec => []ServedIsCounted
<1>1. IInv => ServedIsCounted
  BY DEF IInv, Access, ConfigsAreEncoded, Encoded, ServedIsCounted
<1> QED BY <1>1, Inductive, PTL

(***************************************************************************)
(* The index that GetInboundUsers reads lists the users of the file and of *)
(* the process while no user is in doubt after a failed request, and       *)
(* nobody without a core.                                                  *)
(***************************************************************************)
THEOREM IndexSafety == Spec => []IndexFollowsCore
<1>1. ASSUME IInv PROVE IndexFollowsCore
  <2>1. CASE ~running
    BY <1>1, <2>1 DEF IInv, Access, IndexFollowsMemory, IndexFollowsCore
  <2>2. CASE running /\ pending = NoRequest /\ unsure = {}
    <3>1. /\ \A u \in Users : InboundsOf(file, u) = InboundsOf(memory, u)
          /\ served # Down => \A u \in Users : InboundsOf(served, u) = InboundsOf(memory, u)
      BY <1>1, <2>2, NoRequestParts DEF IInv, Access, UsersAsGranted, CoreServesGranted, Edited
    <3>2. file \in Config /\ memory \in Config /\ (served # Down => served \in Config)
      BY <1>1 DEF IInv, TypeOK
    <3>3. /\ extractSingBoxInbounds(memory) = extractSingBoxInbounds(file)
          /\ served # Down => extractSingBoxInbounds(memory) = extractSingBoxInbounds(served)
      BY <3>1, <3>2, SameUsers
    <3> QED BY <1>1, <2>2, <3>3 DEF IInv, Access, IndexFollowsMemory, IndexFollowsCore
  <2> QED BY <2>1, <2>2 DEF IndexFollowsCore
<1> QED BY <1>1, Inductive, PTL

(***************************************************************************)
(* When DropUsersConnections answers, every connection its users had when  *)
(* it arrived is closed, but for users whose addresses could not be listed *)
(* or killed.                                                              *)
(***************************************************************************)
THEOREM DropSafety == Spec => []DropIsComplete
<1>1. IInv => DropIsComplete
  BY DEF IInv, DueIsPending, DropIsComplete, Dropped
<1> QED BY <1>1, Inductive, PTL

\* Nobody but the handler of the drop and the end of the agent touches it.
LEMMA DropIsAlone ==
  ASSUME Next, drop # DropIdle, drop' # drop
  PROVE  DropStep \/ drop' = DropIdle
<1>1. ASSUME NEW grants \in [Users -> SUBSET Tags], NEW inbound \in Tags \cup {Plain}, Start(grants, inbound)
      PROVE  FALSE
  BY <1>1 DEF Start, dropVars
<1>2. ASSUME NEW users \in Batches, NEW grants \in [users -> SUBSET Tags], AddUsers(grants) \/ AddUsersFails(grants)
      PROVE  FALSE
  BY <1>2 DEF AddUsers, AddUsersFails, dropVars
<1>3. ASSUME NEW users \in Batches, RemoveUsers(users) PROVE FALSE
  BY <1>3 DEF RemoveUsers, dropVars
<1>4. ASSUME NEW users \in SUBSET Users, DropUsersConnections(users) PROVE FALSE
  BY <1>4 DEF DropUsersConnections
<1>5. ~Stop
  BY DEF Stop
<1>6. ~Restart
  BY DEF Restart, Restarted, Rejected, NotWritten, RolledBack, RollbackFails
<1>7. ASSUME NEW s \in Sessions, OpenSession(s) \/ CloseSession(s) PROVE FALSE
  BY <1>7 DEF OpenSession, CloseSession, dropVars
<1>8. ASSUME NEW ip \in IPs, DropIPs(ip) PROVE FALSE
  BY <1>8 DEF DropIPs
<1>9. ~(CoreCrashes \/ CoreHangs \/ ReadUsers)
  BY DEF CoreCrashes, CoreHangs, ReadUsers, vars, dropVars
<1>10. CASE AgentRestarts
  BY <1>10 DEF AgentRestarts
<1> QED BY <1>1, <1>2, <1>3, <1>4, <1>5, <1>6, <1>7, <1>8, <1>9, <1>10 DEF Next

(***************************************************************************)
(* Every step of DropUsersConnections leaves it less to do in a            *)
(* well-founded order (users, part of the work, listed connections and     *)
(* addresses), and no other request, client or fault touches it: clients   *)
(* that reconnect cannot keep the handler busy.                            *)
(***************************************************************************)
THEOREM DropProgress == Spec => DropAdvances
<1> DEFINE Advances == drop # DropIdle /\ drop' # drop => drop' = DropIdle \/ LessToDo(drop, drop')
<1>1. ASSUME IInv, Next, drop # DropIdle, drop' # drop, drop' # DropIdle
      PROVE  LessToDo(drop, drop')
  <2>0. DropStep /\ drop \in DropType
    BY <1>1, DropIsAlone DEF IInv, DueIsPending, DropType
  <2>1. ASSUME NEW u \in Users, ListConnections(u) PROVE LessToDo(drop, drop')
    <3>1. drop'.todo = drop.todo \ {u} /\ u \in drop.todo
      BY <2>0, <2>1 DEF ListConnections, DropType
    <3> QED BY <3>1 DEF LessToDo, Smaller
  <2>2. ASSUME NEW s \in Sessions, DeleteConnection(s) PROVE LessToDo(drop, drop')
    <3>1. /\ drop'.todo = drop.todo /\ drop'.phase = drop.phase /\ drop'.user = drop.user
          /\ drop'.left = drop.left \ {s} /\ s \in drop.left /\ drop'.ips = drop.ips
      BY <2>0, <2>2 DEF DeleteConnection, DropType
    <3> QED BY <3>1 DEF LessToDo, Smaller
  <2>3. CASE DeleteFails
    <3>1. drop'.todo = drop.todo /\ drop.phase = "delete" /\ drop'.phase = "fallback"
      BY <2>0, <2>3 DEF DeleteFails, DropType
    <3> QED BY <3>1 DEF LessToDo, Rank
  <2>4. CASE ListAddresses
    <3>1. drop'.todo = drop.todo /\ drop.phase = "fallback" /\ drop'.phase \in {"kill", "next"}
      BY <2>0, <2>4 DEF ListAddresses, DropType
    <3> QED BY <3>1 DEF LessToDo, Rank
  <2>5. ASSUME NEW ip \in IPs, dropConnections(ip) PROVE LessToDo(drop, drop')
    <3>1. /\ drop'.todo = drop.todo /\ drop'.phase = drop.phase /\ drop'.user = drop.user
          /\ drop'.ips = drop.ips \ {ip} /\ ip \in drop.ips /\ drop'.left = drop.left
      BY <2>0, <2>5 DEF dropConnections, DropType
    <3> QED BY <3>1 DEF LessToDo, Smaller
  <2>6. CASE NextUser
    <3>1. drop'.todo = drop.todo /\ drop.phase \in {"delete", "kill"} /\ drop'.phase = "next"
      BY <2>0, <2>6 DEF NextUser, DropType
    <3> QED BY <3>1 DEF LessToDo, Rank
  <2>7. CASE Answer
    BY <1>1, <2>7 DEF Answer
  <2> QED BY <2>0, <2>1, <2>2, <2>3, <2>4, <2>5, <2>6, <2>7 DEF DropStep
<1>2. IInv /\ [Next]_vars => [Advances]_vars
  BY <1>1
<1> QED BY <1>2, Inductive, PTL DEF Spec, DropAdvances
=============================================================================
