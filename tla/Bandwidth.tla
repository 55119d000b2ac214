----------------------------- MODULE Bandwidth -----------------------------
(***************************************************************************)
(* The bandwidth of one user (internal/relay/bandwidth.go): every node      *)
(* counts what it relays; the edges hand their counts to the login node     *)
(* with each sync (wing_map.go, internal_api.go), which adds them up,       *)
(* writes the month's total to the database and answers with the users who  *)
(* are over the cap.  A tier is looked up once and cached: by login in the  *)
(* database, by an edge in what it last fetched (entitlement_cache.go).     *)
(*                                                                          *)
(* A counter is an object: a goroutine adds to the one it got, even if the  *)
(* month's turn has replaced it meanwhile.                                  *)
(***************************************************************************)
EXTENDS Integers, FiniteSets, FiniteSetsExt

CONSTANTS
    Edges,      \* edge nodes
    Login,      \* the login node
    Cap,        \* bytes a free user may use in a month, in messages
    MaxRelayed, \* messages relayed
    MaxMonth,   \* months
    MaxChanges, \* times the user pays or cancels
    MaxFaults   \* syncs that go wrong, restarts

ASSUME BandwidthAssumption ==
    /\ IsFiniteSet(Edges) /\ Login \notin Edges
    /\ Cap \in Nat \ {0} /\ MaxRelayed \in Nat /\ MaxMonth \in Nat \ {0}
    /\ MaxChanges \in Nat /\ MaxFaults \in Nat

Nodes == Edges \union {Login}
Months == 1..MaxMonth

VARIABLES
    now,      \* the month by the clock
    month,    \* per node, the month its counters are of
    count,    \* per node, the user's counter
    tier,     \* per node, the cached tier, or "none"
    exceeded, \* per node, the flag the last sync has set
    fetched,  \* per edge, the entitlement cache's tier
    paid,     \* an active subscription entitles the user
    stale,    \* paid has changed and login's meter has not been told
    pc,       \* per node, where its forwarding goroutine is
    seen,     \* the tier it has looked up
    mine,     \* the month of the counter it has got
    sync,     \* per edge, where its sync is
    load,     \* what it has drained
    answer,   \* what login answered
    db,       \* bandwidth_log: per month, the total
    last,     \* what StartSync wrote last
    snap,     \* its snapshot, or -1
    changes, faults,
    relayed,  \* history: messages that were let through
    lost,     \* history: counts dropped by a restart or the month's turn
    doubled,  \* history: counts an edge took back though login had them
    raced     \* history: a lookup was under way when login's meter was told

meterVars == <<month, count, lost>>
tierVars == <<tier, seen>>
payVars == <<paid, stale, changes, raced, fetched>>
syncVars == <<sync, load, answer, doubled>>
dbVars == <<db, last, snap>>
vars == <<now, meterVars, tierVars, exceeded, payVars, pc, mine, syncVars, dbVars,
          faults, relayed>>

Init ==
    /\ now = 1 /\ month = [n \in Nodes |-> 0] /\ count = [n \in Nodes |-> 0]
    /\ tier = [n \in Nodes |-> "none"] /\ exceeded = [n \in Nodes |-> FALSE]
    /\ fetched = [e \in Edges |-> "free"] /\ paid = FALSE /\ stale = FALSE
    /\ pc = [n \in Nodes |-> "idle"] /\ seen = [n \in Nodes |-> "none"]
    /\ mine = [n \in Nodes |-> 0]
    /\ sync = [e \in Edges |-> "idle"] /\ load = [e \in Edges |-> 0]
    /\ answer = [e \in Edges |-> FALSE]
    /\ db = [m \in Months |-> 0] /\ last = 0 /\ snap = -1
    /\ changes = 0 /\ faults = 0
    /\ relayed = 0 /\ lost = 0 /\ doubled = 0 /\ raced = FALSE
-----------------------------------------------------------------------------
(* The meter *)

Tier(isPro) == IF isPro THEN "pro" ELSE "free"

\* tierFn: the database at login, the entitlement cache on an edge.
Truth(n) == IF n = Login THEN Tier(paid) ELSE fetched[n]

\* counter() makes new counters when the month has changed; Counter adds k to
\* the counter it returns.
Counter(n, k) ==
    /\ month' = [month EXCEPT ![n] = now]
    /\ count' = [count EXCEPT ![n] = (IF month[n] = now THEN @ ELSE 0) + k]
    /\ lost' = lost + IF month[n] = now THEN 0 ELSE count[n]

Current(n) == IF month[n] = now THEN count[n] ELSE 0

Moves(n, from, to) == pc[n] = from /\ pc' = [pc EXCEPT ![n] = to]

waitFrame == <<now, exceeded, payVars, syncVars, dbVars, faults>>

\* Wait: a user who is flagged is refused before anything else.
Arrive(n) ==
    /\ ~exceeded[n] /\ relayed < MaxRelayed
    /\ Moves(n, "idle", IF tier[n] = "none" THEN "lookup" ELSE "cap")
    /\ seen' = [seen EXCEPT ![n] = tier[n]]
    /\ UNCHANGED <<waitFrame, meterVars, tier, mine, relayed>>

\* userTier asks without the lock
Lookup(n) ==
    /\ Moves(n, "lookup", "store")
    /\ seen' = [seen EXCEPT ![n] = Truth(n)]
    /\ UNCHANGED <<waitFrame, meterVars, tier, mine, relayed>>

\* and stores what it was told.
Store(n) ==
    /\ Moves(n, "store", "cap")
    /\ tier' = [tier EXCEPT ![n] = seen[n]]
    /\ UNCHANGED <<waitFrame, meterVars, seen, mine, relayed>>

\* ExceededMonthly, and the counter to add to.
UnderCap(n) ==
    /\ Counter(n, 0)
    /\ seen' = [seen EXCEPT ![n] = "none"]
    /\ IF seen[n] = "free" /\ Current(n) >= Cap
       THEN Moves(n, "cap", "idle") /\ UNCHANGED mine
       ELSE Moves(n, "cap", "add") /\ mine' = [mine EXCEPT ![n] = now]
    /\ UNCHANGED <<waitFrame, tier, relayed>>

\* What is added to a counter of a month gone by is lost.
Add(n) ==
    /\ Moves(n, "add", "idle")
    /\ relayed' = relayed + 1
    /\ IF month[n] = mine[n]
       THEN count' = [count EXCEPT ![n] = @ + 1] /\ lost' = lost
       ELSE lost' = lost + 1 /\ count' = count
    /\ mine' = [mine EXCEPT ![n] = 0]
    /\ UNCHANGED <<waitFrame, month, tierVars>>
-----------------------------------------------------------------------------
(* Tiers *)

\* A subscription is bought or canceled (org.go, app_handlers.go):
Pay ==
    /\ ~stale /\ changes < MaxChanges
    /\ paid' = ~paid /\ stale' = TRUE /\ changes' = changes + 1
    /\ UNCHANGED <<now, meterVars, tierVars, exceeded, raced, fetched, pc, mine,
                   syncVars, dbVars, faults, relayed>>

\* the database first, then InvalidateUser of login's meter.
InvalidateUser ==
    /\ stale /\ stale' = FALSE
    /\ tier' = [tier EXCEPT ![Login] = "none"]
    /\ raced' = (raced \/ pc[Login] = "store")
    /\ UNCHANGED <<now, meterVars, seen, exceeded, paid, changes, fetched, pc, mine,
                   syncVars, dbVars, faults, relayed>>

\* EntitlementCache.fetch, every minute
Fetch(e) ==
    /\ fetched' = [fetched EXCEPT ![e] = Tier(paid)]
    /\ UNCHANGED <<now, meterVars, tierVars, exceeded, paid, stale, changes, raced, pc,
                   mine, syncVars, dbVars, faults, relayed>>
-----------------------------------------------------------------------------
(* Syncs *)

syncFrame == <<now, payVars, pc, mine, dbVars, relayed>>

\* edgeSync: DrainCounters takes the counts, of whatever month they are.
Drain(e) ==
    /\ sync[e] = "idle"
    /\ sync' = [sync EXCEPT ![e] = "sent"]
    /\ load' = [load EXCEPT ![e] = count[e]]
    /\ count' = [count EXCEPT ![e] = 0]
    /\ UNCHANGED <<syncFrame, month, lost, tierVars, exceeded, answer, doubled, faults>>

\* ExceededUsers, under the lock: counters as they are, the tier cached or
\* looked up.
Banned(t, c) == c >= Cap /\ t = "free"

\* Mutant: who has used nothing is not in the answer.
MutantNoNews(e) ==
    /\ sync[e] = "sent"
    /\ IF load[e] > 0 THEN Counter(Login, load[e]) ELSE UNCHANGED meterVars
    /\ LET t == IF tier[Login] = "none" THEN Tier(paid) ELSE tier[Login] IN
       /\ answer' = [answer EXCEPT ![e] = load[e] > 0 /\ Banned(t, count'[Login])]
       /\ tier' = [tier EXCEPT ![Login] = IF count'[Login] >= Cap THEN t ELSE @]
    /\ sync' = [sync EXCEPT ![e] = "answered"]
    /\ UNCHANGED <<syncFrame, seen, exceeded, load, doubled, faults>>

\* handleWingSync: AddUsage for what came, then ExceededUsers.  Only AddUsage
\* looks at the month.
Absorb(e) ==
    /\ sync[e] = "sent"
    /\ IF load[e] > 0 THEN Counter(Login, load[e]) ELSE UNCHANGED meterVars
    /\ LET t == IF tier[Login] = "none" THEN Tier(paid) ELSE tier[Login] IN
       /\ answer' = [answer EXCEPT ![e] = Banned(t, count'[Login])]
       /\ tier' = [tier EXCEPT ![Login] = IF count'[Login] >= Cap THEN t ELSE @]
    /\ sync' = [sync EXCEPT ![e] = "answered"]
    /\ UNCHANGED <<syncFrame, seen, exceeded, load, doubled, faults>>

SyncOver(e) ==
    /\ sync' = [sync EXCEPT ![e] = "idle"] /\ load' = [load EXCEPT ![e] = 0]
    /\ answer' = [answer EXCEPT ![e] = FALSE]

\* SetExceeded
Answered(e) ==
    /\ sync[e] = "answered"
    /\ exceeded' = [exceeded EXCEPT ![e] = answer[e]]
    /\ SyncOver(e)
    /\ UNCHANGED <<syncFrame, meterVars, tierVars, doubled, faults>>

\* Mutant: a sync that failed is forgotten.
MutantNoRequeue(e) ==
    /\ sync[e] \in {"sent", "answered"} /\ faults < MaxFaults
    /\ faults' = faults + 1
    /\ doubled' = doubled + IF sync[e] = "answered" THEN load[e] ELSE 0
    /\ SyncOver(e)
    /\ UNCHANGED <<syncFrame, meterVars, tierVars, exceeded>>

\* The request does not arrive, or its answer comes too late: requeue takes the
\* counts back.
SyncFails(e) ==
    /\ sync[e] \in {"sent", "answered"} /\ faults < MaxFaults
    /\ faults' = faults + 1
    /\ doubled' = doubled + IF sync[e] = "answered" THEN load[e] ELSE 0
    /\ SyncOver(e)
    /\ IF load[e] > 0 THEN Counter(e, load[e]) ELSE UNCHANGED meterVars
    /\ UNCHANGED <<syncFrame, tierVars, exceeded>>
-----------------------------------------------------------------------------
(* The database, restarts, the calendar *)

\* StartSync: a snapshot under the lock, without a look at the month;
Snapshot ==
    /\ snap = -1 /\ month[Login] # 0
    /\ snap' = count[Login]
    /\ UNCHANGED <<now, meterVars, tierVars, exceeded, payVars, pc, mine, syncVars, db,
                   last, faults, relayed>>

\* Mutant: it is not waited for the snapshot.
MutantNoSnapshot ==
    /\ db' = IF snap = last THEN db ELSE [db EXCEPT ![now] = snap]
    /\ last' = snap /\ snap' = -1
    /\ UNCHANGED <<now, meterVars, tierVars, exceeded, payVars, pc, mine, syncVars,
                   faults, relayed>>

\* then what has changed is written, as a total of the month it is by now.
WriteTotal ==
    /\ snap # -1
    /\ db' = IF snap = last THEN db ELSE [db EXCEPT ![now] = snap]
    /\ last' = snap /\ snap' = -1
    /\ UNCHANGED <<now, meterVars, tierVars, exceeded, payVars, pc, mine, syncVars,
                   faults, relayed>>

Stops(n) ==
    /\ pc' = [pc EXCEPT ![n] = "idle"] /\ seen' = [seen EXCEPT ![n] = "none"]
    /\ mine' = [mine EXCEPT ![n] = 0]

\* Login starts again: SeedFromDB.
RestartLogin ==
    /\ faults < MaxFaults /\ faults' = faults + 1
    /\ count' = [count EXCEPT ![Login] = db[now]]
    /\ month' = [month EXCEPT ![Login] = now]
    /\ lost' = lost + count[Login] - db[now]
    /\ tier' = [tier EXCEPT ![Login] = "none"]
    /\ Stops(Login)
    /\ last' = 0 /\ snap' = -1
    /\ UNCHANGED <<now, exceeded, payVars, syncVars, db, relayed>>

\* An edge starts again, with nothing.
RestartEdge(e) ==
    /\ faults < MaxFaults /\ faults' = faults + 1
    /\ count' = [count EXCEPT ![e] = 0] /\ month' = [month EXCEPT ![e] = 0]
    /\ lost' = lost + count[e] + IF sync[e] = "sent" THEN load[e] ELSE 0
    /\ tier' = [tier EXCEPT ![e] = "none"] /\ exceeded' = [exceeded EXCEPT ![e] = FALSE]
    /\ fetched' = [fetched EXCEPT ![e] = Tier(paid)]
    /\ Stops(e) /\ SyncOver(e)
    /\ UNCHANGED <<now, paid, stale, changes, raced, doubled, dbVars, relayed>>

NewMonth ==
    /\ now < MaxMonth /\ now' = now + 1
    /\ UNCHANGED <<meterVars, tierVars, exceeded, payVars, pc, mine, syncVars, dbVars,
                   faults, relayed>>
-----------------------------------------------------------------------------
Wait(n) == Lookup(n) \/ Store(n) \/ UnderCap(n) \/ Add(n)

Next ==
    \/ \E n \in Nodes : Arrive(n) \/ Wait(n)
    \/ Pay \/ InvalidateUser
    \/ \E e \in Edges : \/ Fetch(e) \/ Drain(e) \/ Absorb(e) \/ Answered(e)
                        \/ SyncFails(e) \/ RestartEdge(e)
    \/ Snapshot \/ WriteTotal \/ RestartLogin \/ NewMonth

\* Every edge syncs every five seconds, and login answers.
Sync(e) == Drain(e) \/ Absorb(e) \/ Answered(e)
Fairness == \A e \in Edges : WF_vars(Sync(e))

Spec == Init /\ [][Next]_vars /\ Fairness
-----------------------------------------------------------------------------
(* Properties *)

Tiers == {"none", "free", "pro"}

TypeOK ==
    /\ now \in Months /\ month \in [Nodes -> 0..MaxMonth]
    /\ count \in [Nodes -> Nat] /\ tier \in [Nodes -> Tiers]
    /\ exceeded \in [Nodes -> BOOLEAN] /\ fetched \in [Edges -> Tiers]
    /\ paid \in BOOLEAN /\ stale \in BOOLEAN /\ raced \in BOOLEAN
    /\ pc \in [Nodes -> {"idle", "lookup", "store", "cap", "add"}]
    /\ seen \in [Nodes -> Tiers] /\ mine \in [Nodes -> 0..MaxMonth]
    /\ sync \in [Edges -> {"idle", "sent", "answered"}] /\ load \in [Edges -> Nat]
    /\ answer \in [Edges -> BOOLEAN]
    /\ db \in [Months -> Nat] /\ last \in Nat /\ snap \in Nat \union {-1}
    /\ changes \in 0..MaxChanges /\ faults \in 0..MaxFaults
    /\ relayed \in Nat /\ lost \in Int /\ doubled \in Nat

\* Whatever is relayed is counted once: in a node's counter, or on its way in a
\* sync.  Only restarts and the month's turn drop counts, and only an edge that
\* missed login's answer counts twice (Wait, DrainCounters, requeue, AddUsage).
Accounted ==
    SumFunction(count)
      + SumFunction([e \in Edges |-> IF sync[e] = "sent" THEN load[e] ELSE 0])
    = relayed - lost + doubled

\* Login's cached tier is the user's, once its meter was told of the change,
\* unless a lookup was under way when it was told (userTier, InvalidateUser).
TierFresh == ~stale /\ ~raced => tier[Login] \in {"none", Tier(paid)}

\* A user who never pays and whose total at login stays at the cap or above it is
\* refused by every edge in the end, and for good, though syncs may fail and
\* nodes restart (ExceededUsers, SetExceeded).
OverCapStops ==
    <>[](changes = 0 /\ month[Login] = now /\ count[Login] >= Cap)
        => <>[](\A e \in Edges : exceeded[e])

\* Login knows what was relayed and at which tier.
MeterSound == Accounted /\ TierFresh
=============================================================================
