------------------------------- MODULE Logins -------------------------------
(***************************************************************************)
(* Who somebody is to the relay: accounts, mail links, sessions and device  *)
(* codes in login's database (internal/relay/auth_web.go, handler.go,       *)
(* store.go), and what an edge node believes of a session and of its        *)
(* user's organisation (session_cache.go, internal_api.go, workers.go).     *)
(*                                                                          *)
(* A request is a sequence of store calls, each atomic; requests interleave *)
(* and a call may fail. Login and the edge exchange requests whose answers  *)
(* are late or lost. There is one organisation.                             *)
(***************************************************************************)
EXTENDS Integers, FiniteSets

CONSTANTS
    People,     \* identities at a provider, or mail addresses
    Nobody,
    Ids,        \* account ids, session tokens, codes and links, 1..n
    Handlers,   \* requests login handles at the same time
    Looks,      \* validations under way at the edge
    Jobs,       \* refreshes of a user's organisations under way at the edge
    Streams,    \* event streams of dashboards at the edge
    TTL,        \* age, in ticks, at which a cached session is not used any more
    Flight,     \* ticks a request to login takes at most: its client's timeout
    Scenarios   \* bounds: how often each thing happens in a behaviour

\* An id is a UUID in the code: there is one for everybody.
ASSUME LoginsAssumption ==
    /\ Nobody \notin People /\ IsFiniteSet(People)
    /\ IsFiniteSet(Ids) /\ Ids = 1..Cardinality(Ids) /\ Cardinality(People) <= Cardinality(Ids)
    /\ TTL \in Nat \ {0} /\ Flight \in Nat \ {0}
    /\ \A s \in Scenarios : s.known \in Nat /\ s.known <= Cardinality(Ids)

VARIABLES
    users,     \* accounts: id and identity
    links,     \* magic_links: address, used or not
    sessions,  \* sessions: the account of a token; 0 none, -1 deleted or expired
    codes,     \* device_codes: state and the account that claimed
    tokens,    \* device tokens given out: code and account
    member,    \* accounts in the organisation
    requests,  \* what login handles
    cache,     \* SessionCache: what the edge knows of a token
    look,      \* Validate calls of the edge
    jobs,      \* refreshRemoteUserOrgs calls of the edge
    orgSync,   \* syncOrgs at the edge
    stream,    \* handleAppWS at the edge
    index,     \* orgSubs: how often a stream is listed under the organisation
    left,      \* what may still happen
    told,      \* history: accounts told that they claimed a code
    opened,    \* history: sessions opened by a link
    gone       \* history: ticks since a session was deleted

tableVars == <<users, links, sessions, codes, tokens>>
edgeVars == <<cache, look, jobs, orgSync>>
streamVars == <<stream, index>>
history == <<told, opened>>
loginsVars == <<tableVars, member, requests, edgeVars, streamVars, left, history, gone>>

Spend(what) == left[what] > 0 /\ left' = [left EXCEPT ![what] = @ - 1]

\* The store call fails, and the caller looks at the error.
Fails == Spend("failures")

IdleRequest == [op |-> "none", pc |-> "idle", of |-> Nobody, key |-> 0, id |-> 0]
IdleLook == [pc |-> "idle", token |-> 0, id |-> 0, org |-> FALSE, age |-> 0]
IdleJob == [pc |-> "idle", id |-> 0, org |-> FALSE]
IdleSync == [pc |-> "idle", asked |-> {}, in |-> {}]
NoEntry == [pc |-> "none", id |-> 0, org |-> FALSE, age |-> 0]
Off == [pc |-> "off", id |-> 0, org |-> FALSE]

LoginsInit ==
    /\ left \in Scenarios
    /\ links = [l \in Ids |-> [to |-> Nobody, used |-> FALSE]]
    \* some people have logged in already: at identity i the account and session i
    /\ \E known \in [1..left.known -> People] :
         /\ \A i, j \in DOMAIN known : known[i] = known[j] => i = j
         /\ users = {[id |-> i, of |-> known[i]] : i \in DOMAIN known}
         /\ sessions = [t \in Ids |-> IF t \in DOMAIN known THEN t ELSE 0]
    /\ member \in IF left.changes = 0 THEN {{}} ELSE SUBSET {u.id : u \in users}
    /\ codes = [c \in Ids |-> [state |-> "none", by |-> 0]]
    /\ tokens = {}
    /\ requests = [p \in Handlers |-> IdleRequest]
    /\ cache = [t \in Ids |-> NoEntry]
    /\ look = [v \in Looks |-> IdleLook]
    /\ jobs = [j \in Jobs |-> IdleJob]
    /\ orgSync = IdleSync
    /\ stream = [x \in Streams |-> Off]
    /\ index = [x \in Streams |-> 0]
    /\ told = [c \in Ids |-> {}]
    /\ opened = [l \in Ids |-> 0]
    /\ gone = [t \in Ids |-> 0]

-----------------------------------------------------------------------------
(* Login *)

Live(t) == sessions[t] > 0
Free(f, none) == {i \in Ids : f[i] = none}

\* The row a request writes gets an id nobody has.
Account == CHOOSE i \in Ids : i \notin {u.id : u \in users}

Arrives(p, op, pc, who, key, id) ==
    /\ requests[p] = IdleRequest
    /\ requests' = [requests EXCEPT ![p] = [op |-> op, pc |-> pc, of |-> who, key |-> key, id |-> id]]

Continue(p, pc, id) == requests' = [requests EXCEPT ![p].pc = pc, ![p].id = id]
Ends(p) == requests' = [requests EXCEPT ![p] = IdleRequest]

\* handleMagicLink: the row is written, then the mail is sent; when that fails
\* the row stays and nobody knows its token.
MagicLink(who) ==
    /\ Spend("links")
    /\ \E l \in Ids :
         /\ l \in Free(links, [to |-> Nobody, used |-> FALSE])
         /\ \A k \in Ids : k < l => links[k].to # Nobody
         /\ links' = [links EXCEPT ![l].to = who]
    /\ UNCHANGED <<users, sessions, codes, tokens, member, requests, edgeVars, streamVars, history, gone>>

\* A callback of GitHub or Google, or a visit of a mailed link.
OAuth(p, who) ==
    /\ Spend("logins")
    /\ Arrives(p, "oauth", "find", who, 0, 0)
    /\ UNCHANGED <<tableVars, member, edgeVars, streamVars, history, gone>>

MagicVerify(p, l) ==
    /\ links[l].to # Nobody
    /\ Spend("logins")
    /\ Arrives(p, "magic", "consume", links[l].to, l, 0)
    /\ UNCHANGED <<tableVars, member, edgeVars, streamVars, history, gone>>

ConsumeMagicLink(p) ==
    /\ requests[p].pc = "consume"
    /\ IF links[requests[p].key].used
       THEN Ends(p) /\ UNCHANGED links
       ELSE /\ links' = [links EXCEPT ![requests[p].key].used = TRUE]
            /\ Continue(p, "find", 0)
    /\ UNCHANGED <<users, sessions, codes, tokens, member, edgeVars, streamVars, left, history, gone>>

\* GetUserByProvider: an account that is known keeps its id.
FindUser(p) ==
    /\ requests[p].pc = "find"
    /\ LET known == {u \in users : u.of = requests[p].of} IN
       IF known = {} THEN Continue(p, "save", 0)
       ELSE \E u \in known :
              Continue(p, IF requests[p].op = "magic" THEN "session" ELSE "save", u.id)
    /\ UNCHANGED <<tableVars, member, edgeVars, streamVars, left, history, gone>>

\* Mutant: the table does not refuse a second account of the same identity.
MutantUpsert(p) ==
    /\ requests[p].pc = "save"
    /\ IF requests[p].id # 0
       THEN Continue(p, "session", requests[p].id) /\ UNCHANGED users
       ELSE /\ Cardinality(users) < Cardinality(Ids)
            /\ users' = users \union {[id |-> Account, of |-> requests[p].of]}
            /\ Continue(p, "session", Account)
    /\ UNCHANGED <<links, sessions, codes, tokens, member, edgeVars, streamVars, left, history, gone>>

\* UpsertUser: a conflict on the id updates the row, one on the identity is an
\* error: somebody's other first login was faster.
UpsertUser(p) ==
    /\ requests[p].pc = "save"
    /\ IF requests[p].id # 0
       THEN Continue(p, "session", requests[p].id) /\ UNCHANGED users
       ELSE IF \E u \in users : u.of = requests[p].of
       THEN Ends(p) /\ UNCHANGED users
       ELSE /\ users' = users \union {[id |-> Account, of |-> requests[p].of]}
            /\ Continue(p, "session", Account)
    /\ UNCHANGED <<links, sessions, codes, tokens, member, edgeVars, streamVars, left, history, gone>>

\* createSessionAndRedirect
CreateSession(p) ==
    /\ requests[p].pc = "session"
    /\ \E t \in Ids :
         /\ sessions[t] = 0 /\ (\A s \in Ids : s < t => sessions[s] # 0)
         /\ sessions' = [sessions EXCEPT ![t] = requests[p].id]
    /\ opened' = IF requests[p].key = 0 THEN opened ELSE [opened EXCEPT ![requests[p].key] = @ + 1]
    /\ Ends(p)
    /\ UNCHANGED <<users, links, codes, tokens, member, edgeVars, streamVars, left, told, gone>>

\* handleLogout at login, or the session's thirty days are over.
Logout(t) ==
    /\ Live(t) /\ Spend("logouts")
    /\ sessions' = [sessions EXCEPT ![t] = -1]
    /\ UNCHANGED <<users, links, codes, tokens, member, requests, edgeVars, streamVars, history, gone>>

\* handleAuthDevice of a relay that has real logins.
AuthDevice(c) ==
    /\ codes[c].state = "none" /\ (\A d \in Ids : d < c => codes[d].state # "none")
    /\ Spend("codes")
    /\ codes' = [codes EXCEPT ![c].state = "open"]
    /\ UNCHANGED <<users, links, sessions, tokens, member, requests, edgeVars, streamVars, history, gone>>

CodeExpires(c) ==
    /\ codes[c].state \in {"open", "claimed"}
    /\ codes' = [codes EXCEPT ![c].state = "expired"]
    /\ UNCHANGED <<users, links, sessions, tokens, member, requests, edgeVars, streamVars, left, history, gone>>

\* handleAuthClaim: the session's user, then the row, then the update.
AuthClaim(p, c, t) ==
    /\ codes[c].state # "none" /\ Live(t)
    /\ Spend("claims")
    /\ Arrives(p, "claim", "read", Nobody, c, sessions[t])
    /\ UNCHANGED <<tableVars, member, edgeVars, streamVars, history, gone>>

ReadCode(p) ==
    /\ requests[p].pc = "read" /\ requests[p].op = "claim"
    /\ IF codes[requests[p].key].state = "open" THEN Continue(p, "claim", requests[p].id) ELSE Ends(p)
    /\ UNCHANGED <<tableVars, member, edgeVars, streamVars, left, history, gone>>

ClaimDeviceCode(p) ==
    /\ requests[p].pc = "claim"
    /\ LET c == requests[p].key IN
       IF codes[c].state # "open" THEN UNCHANGED <<codes, told>>
       ELSE /\ codes' = [codes EXCEPT ![c] = [state |-> "claimed", by |-> requests[p].id]]
            /\ told' = [told EXCEPT ![c] = @ \union {requests[p].id}]
    /\ Ends(p)
    /\ UNCHANGED <<users, links, sessions, tokens, member, edgeVars, streamVars, left, opened, gone>>

\* A poll of PollForToken: handleAuthToken reads the row, and gives a token out
\* each time it finds it claimed.
AuthToken(p, c) ==
    /\ codes[c].state # "none"
    /\ Spend("polls")
    /\ IF codes[c].state = "claimed"
       THEN Arrives(p, "token", "issue", Nobody, c, codes[c].by)
       ELSE requests[p] = IdleRequest /\ UNCHANGED requests
    /\ UNCHANGED <<tableVars, member, edgeVars, streamVars, history, gone>>

\* The token is signed, the row for it is written whether or not that works.
IssueWingJWT(p) ==
    /\ requests[p].pc = "issue"
    /\ tokens' = tokens \union {[code |-> requests[p].key, id |-> requests[p].id]}
    /\ Ends(p)
    /\ UNCHANGED <<users, links, sessions, codes, member, edgeVars, streamVars, left, history, gone>>

\* A store call fails: the request ends with an error, what it did stays.
CallFails(p) ==
    /\ requests[p].pc # "idle" /\ Fails
    /\ Ends(p)
    /\ UNCHANGED <<tableVars, member, edgeVars, streamVars, history, gone>>

-----------------------------------------------------------------------------
(* The edge's cache of sessions *)

Cached(t) == cache[t].pc = "known"

Answer(id, org) == [pc |-> "known", id |-> id, org |-> org, age |-> 0]

\* Validate with nothing fresh in the cache asks login.
Validate(v, t) ==
    /\ look[v] = IdleLook /\ sessions[t] # 0 /\ ~Cached(t)
    /\ Spend("looks")
    /\ look' = [look EXCEPT ![v] = [IdleLook EXCEPT !.pc = "user", !.token = t]]
    /\ UNCHANGED <<tableVars, member, requests, cache, jobs, orgSync, streamVars, history, gone>>

\* handleInternalSession: an error of the database is a session that is not
\* there, one of the list of organisations an empty list.
InternalSession(v) ==
    /\ look[v].pc = "user"
    /\ \/ /\ Live(look[v].token)
          /\ look' = [look EXCEPT ![v].pc = "orgs", ![v].id = sessions[look[v].token]]
          /\ UNCHANGED left
       \/ /\ ~Live(look[v].token) /\ UNCHANGED left
          /\ look' = [look EXCEPT ![v].pc = "answer"]
       \/ Fails /\ look' = [look EXCEPT ![v].pc = "answer"]
    /\ UNCHANGED <<tableVars, member, requests, cache, jobs, orgSync, streamVars, history, gone>>

SessionOrgs(v) ==
    /\ look[v].pc = "orgs"
    /\ \/ /\ look' = [look EXCEPT ![v].pc = "answer", ![v].org = look[v].id \in member]
          /\ UNCHANGED left
       \/ Fails /\ look' = [look EXCEPT ![v].pc = "answer"]
    /\ UNCHANGED <<tableVars, member, requests, cache, jobs, orgSync, streamVars, history, gone>>

\* The answer is cached, a refusal too.
Learn(v) ==
    /\ look[v].pc = "answer"
    /\ cache' = [cache EXCEPT ![look[v].token] = Answer(look[v].id, look[v].org)]
    /\ look' = [look EXCEPT ![v] = IdleLook]
    /\ UNCHANGED <<tableVars, member, requests, jobs, orgSync, streamVars, left, history, gone>>

\* The connection breaks or the client's five seconds are over: nothing is cached.
LoseLook(v) ==
    /\ look[v].pc # "idle" /\ Fails
    /\ look' = [look EXCEPT ![v] = IdleLook]
    /\ UNCHANGED <<tableVars, member, requests, cache, jobs, orgSync, streamVars, history, gone>>

\* UpdateUserOrgs of the cache. The entries of a user share nothing, but each is
\* handed out as a pointer: whoever holds it sees the change.
WithOrgs(id, org) ==
    [t \in Ids |-> IF cache[t].id = id /\ Cached(t) THEN [cache[t] EXCEPT !.org = org]
                   ELSE cache[t]]

ActiveUserIDs == {cache[t].id : t \in {s \in Ids : Cached(s)}} \ {0}

\* Mutant: the age of an entry is not looked at.
MutantAged == [t \in Ids |-> IF Cached(t) THEN [cache[t] EXCEPT !.age = @ + 1] ELSE NoEntry]

\* An entry of TTL ticks is asked for again: it is as good as none.
Aged == [t \in Ids |-> IF Cached(t) /\ cache[t].age + 1 < TTL
                       THEN [cache[t] EXCEPT !.age = @ + 1] ELSE NoEntry]

\* Time passes. A request that has been under way for Flight ticks has been given up.
Tick ==
    /\ Spend("ticks")
    /\ \A v \in Looks : look[v].pc # "idle" => look[v].age < Flight
    /\ cache' = Aged
    /\ look' = [v \in Looks |-> IF look[v].pc = "idle" THEN IdleLook
                                ELSE [look[v] EXCEPT !.age = @ + 1]]
    /\ gone' = [t \in Ids |-> IF sessions[t] = -1 /\ gone[t] < TTL + Flight
                              THEN gone[t] + 1 ELSE gone[t]]
    /\ UNCHANGED <<tableVars, member, requests, jobs, orgSync, streamVars, history>>

-----------------------------------------------------------------------------
(* Changes of the organisation *)

\* A user is added or removed; login tells the edges from a goroutine, and the
\* event may be lost (refreshUserOrgSubs, broadcastToEdges).
OrgChanged(id) ==
    /\ id \in {u.id : u \in users} /\ Spend("changes")
    /\ member' = IF id \in member THEN member \ {id} ELSE member \union {id}
    /\ \/ \E j \in Jobs : /\ jobs[j] = IdleJob
                          /\ jobs' = [jobs EXCEPT ![j] = [IdleJob EXCEPT !.pc = "read", !.id = id]]
       \/ UNCHANGED jobs
    /\ UNCHANGED <<tableVars, requests, cache, look, orgSync, streamVars, history, gone>>

\* handleInternalUserOrgs: an error is an empty list.
InternalUserOrgs(j) ==
    /\ jobs[j].pc = "read"
    /\ \/ /\ jobs' = [jobs EXCEPT ![j].pc = "streams", ![j].org = jobs[j].id \in member]
          /\ UNCHANGED left
       \/ Fails /\ jobs' = [jobs EXCEPT ![j].pc = "streams"]
    /\ UNCHANGED <<tableVars, member, requests, cache, look, orgSync, streamVars, history, gone>>

Listed(x) == stream[x].pc = "on" /\ stream[x].org

\* WingRegistry.UpdateUserOrgs: off where the stream was listed, on where it is now.
Indexed(id, org) ==
    [x \in Streams |-> IF stream[x].pc = "on" /\ stream[x].id = id
                       THEN index[x] - (IF Listed(x) THEN 1 ELSE 0) + (IF org THEN 1 ELSE 0)
                       ELSE index[x]]

\* refreshRemoteUserOrgs: first the event streams, then the cache.
RefreshStreams(j) ==
    /\ jobs[j].pc = "streams"
    /\ index' = Indexed(jobs[j].id, jobs[j].org)
    /\ stream' = [x \in Streams |-> IF stream[x].pc = "on" /\ stream[x].id = jobs[j].id
                                    THEN [stream[x] EXCEPT !.org = jobs[j].org] ELSE stream[x]]
    /\ jobs' = [jobs EXCEPT ![j].pc = "cache"]
    /\ UNCHANGED <<tableVars, member, requests, cache, look, orgSync, left, history, gone>>

RefreshCache(j) ==
    /\ jobs[j].pc = "cache"
    /\ cache' = WithOrgs(jobs[j].id, jobs[j].org)
    /\ jobs' = [jobs EXCEPT ![j] = IdleJob]
    /\ UNCHANGED <<tableVars, member, requests, look, orgSync, streamVars, left, history, gone>>

LoseJob(j) ==
    /\ jobs[j].pc = "read" /\ Fails
    /\ jobs' = [jobs EXCEPT ![j] = IdleJob]
    /\ UNCHANGED <<tableVars, member, requests, cache, look, orgSync, streamVars, history, gone>>

\* syncOrgs, every five minutes: the users of the cache, login's answer, the update.
SyncBegins ==
    /\ orgSync = IdleSync /\ ActiveUserIDs # {}
    /\ orgSync' = [pc |-> "read", asked |-> ActiveUserIDs, in |-> {}]
    /\ UNCHANGED <<tableVars, member, requests, cache, look, jobs, streamVars, left, history, gone>>

\* handleInternalUserOrgsBulk: a user whose list cannot be read is in none.
UserOrgsBulk ==
    /\ orgSync.pc = "read"
    /\ \/ orgSync' = [orgSync EXCEPT !.pc = "apply", !.in = orgSync.asked \intersect member] /\ UNCHANGED left
       \/ Fails /\ orgSync' = [orgSync EXCEPT !.pc = "apply"]
       \/ Fails /\ orgSync' = IdleSync
    /\ UNCHANGED <<tableVars, member, requests, cache, look, jobs, streamVars, history, gone>>

\* Mutant: a user without organisations is passed over.
MutantApply ==
    /\ orgSync.pc = "apply"
    /\ cache' = [t \in Ids |-> IF cache[t].id \in orgSync.in /\ Cached(t)
                               THEN [cache[t] EXCEPT !.org = TRUE] ELSE cache[t]]
    /\ orgSync' = IdleSync
    /\ UNCHANGED <<tableVars, member, requests, look, jobs, streamVars, left, history, gone>>

SyncApplies ==
    /\ orgSync.pc = "apply"
    /\ \E id \in orgSync.asked :
         /\ cache' = WithOrgs(id, id \in orgSync.in)
         /\ orgSync' = IF orgSync.asked = {id} THEN IdleSync ELSE [orgSync EXCEPT !.asked = @ \ {id}]
    /\ UNCHANGED <<tableVars, member, requests, look, jobs, streamVars, left, history, gone>>

-----------------------------------------------------------------------------
(* Event streams of dashboards at the edge *)

\* handleAppWS: the session's user, and with it the organisations the cache knows.
AppWS(x, t) ==
    /\ stream[x] = Off /\ Cached(t) /\ cache[t].id # 0
    /\ Spend("streams")
    /\ stream' = [stream EXCEPT ![x] = [pc |-> "resolved", id |-> cache[t].id, org |-> cache[t].org]]
    /\ UNCHANGED <<tableVars, member, requests, edgeVars, index, history, gone>>

Subscribe(x) ==
    /\ stream[x].pc = "resolved"
    /\ stream' = [stream EXCEPT ![x].pc = "on"]
    /\ index' = [index EXCEPT ![x] = @ + (IF stream[x].org THEN 1 ELSE 0)]
    /\ UNCHANGED <<tableVars, member, requests, edgeVars, left, history, gone>>

Unsubscribe(x) ==
    /\ stream[x].pc = "on"
    /\ index' = [index EXCEPT ![x] = @ - (IF Listed(x) THEN 1 ELSE 0)]
    /\ stream' = [stream EXCEPT ![x] = Off]
    /\ UNCHANGED <<tableVars, member, requests, edgeVars, left, history, gone>>

-----------------------------------------------------------------------------
LoginStep(p) ==
    \/ \E who \in People : OAuth(p, who)
    \/ \E i \in Ids : MagicVerify(p, i) \/ AuthToken(p, i) \/ (\E t \in Ids : AuthClaim(p, i, t))
    \/ ConsumeMagicLink(p) \/ FindUser(p) \/ UpsertUser(p) \/ CreateSession(p)
    \/ ReadCode(p) \/ ClaimDeviceCode(p) \/ IssueWingJWT(p) \/ CallFails(p)

LookStep(v) == InternalSession(v) \/ SessionOrgs(v) \/ Learn(v)
JobStep(j) == InternalUserOrgs(j) \/ RefreshStreams(j) \/ RefreshCache(j)
SyncStep == SyncBegins \/ UserOrgsBulk \/ SyncApplies

LoginsNext ==
    \/ \E p \in Handlers : LoginStep(p)
    \/ \E who \in People : MagicLink(who)
    \/ \E i \in Ids : Logout(i) \/ AuthDevice(i) \/ CodeExpires(i) \/ OrgChanged(i)
    \/ \E v \in Looks : LookStep(v) \/ LoseLook(v) \/ (\E t \in Ids : Validate(v, t))
    \/ \E j \in Jobs : JobStep(j) \/ LoseJob(j)
    \/ SyncStep \/ Tick
    \/ \E x \in Streams : Subscribe(x) \/ Unsubscribe(x) \/ (\E t \in Ids : AppWS(x, t))

\* What the runtime schedules: requests are answered, and the ticker of syncOrgs ticks.
LoginsFairness ==
    /\ \A v \in Looks : WF_loginsVars(LookStep(v))
    /\ \A j \in Jobs : WF_loginsVars(JobStep(j))
    /\ WF_loginsVars(SyncStep)

LoginsSpec == LoginsInit /\ [][LoginsNext]_loginsVars /\ LoginsFairness

-----------------------------------------------------------------------------
LoginRequests == [op : {"none", "oauth", "magic", "claim", "token"},
                  pc : {"idle", "consume", "find", "save", "session", "read", "claim", "issue"},
                  of : People \union {Nobody}, key : Ids \union {0}, id : Ids \union {0}]
Questions == [pc : {"idle", "user", "orgs", "answer"}, token : Ids \union {0}, id : Ids \union {0},
              org : BOOLEAN, age : 0..Flight]
Refreshes == [pc : {"idle", "read", "streams", "cache"}, id : Ids \union {0}, org : BOOLEAN]
Dashboards == [pc : {"off", "resolved", "on"}, id : Ids \union {0}, org : BOOLEAN]
Answers == [pc : {"none", "known"}, id : Ids \union {0}, org : BOOLEAN, age : 0..TTL-1]
LoginsTypeOK ==
    /\ users \subseteq [id : Ids, of : People]
    /\ links \in [Ids -> [to : People \union {Nobody}, used : BOOLEAN]]
    /\ sessions \in [Ids -> Ids \union {0, -1}]
    /\ codes \in [Ids -> [state : {"none", "open", "claimed", "expired"}, by : Ids \union {0}]]
    /\ tokens \subseteq [code : Ids, id : Ids]
    /\ member \subseteq Ids
    /\ requests \in [Handlers -> LoginRequests]
    /\ cache \in [Ids -> Answers]
    /\ look \in [Looks -> Questions]
    /\ jobs \in [Jobs -> Refreshes]
    /\ orgSync \in [pc : {"idle", "read", "apply"}, asked : SUBSET Ids, in : SUBSET Ids]
    /\ stream \in [Streams -> Dashboards]
    /\ index \in [Streams -> Nat]
    /\ told \in [Ids -> SUBSET Ids] /\ opened \in [Ids -> Nat] /\ gone \in [Ids -> Nat]

\* An identity has one account however many of its first logins run at once, a
\* session is of an account there is, and a mailed link opens one session at most.
OneAccount ==
    /\ \A u, v \in users : u.of = v.of \/ u.id = v.id => u = v
    /\ \A t \in Ids : Live(t) => \E u \in users : u.id = sessions[t]
    /\ \A l \in Ids : opened[l] <= 1

\* Of the people who race for a device code one is told that it is theirs, and
\* every token the device then polls for is that person's.
ClaimOnce ==
    /\ \A c \in Ids : Cardinality(told[c]) <= 1
    /\ \A k \in tokens : told[k.code] = {k.id}

\* An edge takes a session for valid at most the cache's time and a request's
\* flight after it was deleted, whatever refreshes come in between.
LogoutBites ==
    \A t \in Ids : Cached(t) /\ cache[t].id # 0 /\ sessions[t] = -1 => gone[t] < TTL + Flight

\* A dashboard's stream is listed under its organisation once, and only while
\* it is open: no event comes twice, none goes to a closed channel.
ListedOnce == \A x \in Streams : index[x] = IF Listed(x) THEN 1 ELSE 0

\* When memberships have stopped changing the edge's cache comes to agree with
\* them, whatever events were lost and whatever answers overtook each other.
CacheCatchesUp ==
    <>[](\A t \in Ids : Cached(t) /\ cache[t].id # 0 => (cache[t].org <=> cache[t].id \in member))

\* What is to happen once happens once, and what is over does not last.
LoginsHold == OneAccount /\ ClaimOnce /\ LogoutBites /\ ListedOnce
=============================================================================
