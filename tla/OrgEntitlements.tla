-------------------------- MODULE OrgEntitlements --------------------------
(***************************************************************************)
(* One organisation of the relay: its members, invites and seats, the       *)
(* subscriptions, the entitlements they give and the users' tiers           *)
(* (internal/relay/org.go, store.go, app_handlers.go).                      *)
(*                                                                          *)
(* A request is a sequence of store calls, each of them one statement or    *)
(* one transaction of the database: the calls are the steps here, requests  *)
(* interleave, any call may fail, and the process may restart between two.  *)
(***************************************************************************)
EXTENDS Integers, FiniteSets, FiniteSetsExt, Functions

CONSTANTS
    Users,        \* every user has an e-mail address of their own
    Owner,        \* the user who creates the organisation
    None,
    SeatChoices,  \* numbers of seats an upgrade may ask for
    MaxInvites,   \* invites ever written
    MaxSubs,      \* subscriptions ever written
    Procs,        \* requests handled at the same time
    MaxRequests,  \* requests ever made
    MaxRush,      \* the first ones, which may come while another is handled
    MaxFailures   \* store calls that fail

Org == "org"

ASSUME OrgAssumption ==
    /\ IsFiniteSet(Users) /\ Owner \in Users /\ None \notin Users /\ Org \notin Users
    /\ SeatChoices \subseteq Nat \ {0}
    /\ MaxInvites \in Nat /\ Cardinality(Users) <= MaxInvites + 1 /\ MaxSubs \in Nat \ {0}
    /\ MaxRequests \in Nat /\ MaxRush \in 0..MaxRequests /\ MaxFailures \in Nat

Subs == 1..MaxSubs
Invites == 1..MaxInvites
Roles == {"owner", "admin", "member"}

VARIABLES
    org,       \* "live", "deleted"
    maxSeats,  \* orgs.max_seats
    members,   \* org_members: a role per user, or "none"
    invites,   \* org_invites: per token, the address, the role, the state
    subs,      \* subscriptions: whose, status, seats
    ents,      \* entitlements: pairs of a user and a subscription
    userTier,  \* users.tier
    listed,    \* users whose open event streams follow the organisation
    rq,        \* per process, the request it handles
    made,      \* requests made
    failures,  \* store calls that failed
    taken,     \* history: per token, how often it was consumed
    clean      \* history: requests came one after the other, and all went well

orgVars == <<org, maxSeats, members, invites, taken>>
paidVars == <<subs, ents, userTier>>
runVars == <<made, failures, clean>>
accountVars == <<orgVars, paidVars, listed, rq, runVars>>

NoInvite == [to |-> None, role |-> "none", state |-> "none"]
NoSub == [of |-> None, status |-> "none", seats |-> 0]

\* op: the handler; pc: its next store call; who: the user it is about; key: an
\* invite's token or a subscription; n: seats, or seats left; todo: users its
\* loop has still to come to; val: what it has read.
Request(op, pc, who, key, n) == [op |-> op, pc |-> pc, who |-> who, key |-> key, n |-> n,
                               todo |-> {}, val |-> "none"]
Idle == Request("none", "idle", None, 0, 0)

\* An organisation as handleCreateOrg leaves it, with its owner and one seat, or
\* later: with a subscription, members invited and entitled one by one, and
\* users who have not answered yet.
OrgInit ==
    /\ org = "live"
    /\ \E bought \in SeatChoices \union {0}, joined, asked \in SUBSET (Users \ {Owner}) :
         \E token \in Bijection(1..Cardinality(joined \union asked), joined \union asked) :
         LET in == joined \union {Owner} IN
         /\ joined \intersect asked = {}
         /\ IF bought = 0 THEN joined = {} ELSE Cardinality(in) <= bought
         /\ maxSeats = IF bought = 0 THEN 1 ELSE bought
         /\ members = [u \in Users |-> IF u = Owner THEN "owner"
                                       ELSE IF u \in joined THEN "member" ELSE "none"]
         /\ invites = [t \in Invites |->
                IF t \notin DOMAIN token THEN NoInvite
                ELSE [to |-> token[t], role |-> "member",
                      state |-> IF token[t] \in joined THEN "claimed" ELSE "pending"]]
         /\ taken = [t \in Invites |-> IF invites[t].state = "claimed" THEN 1 ELSE 0]
         /\ subs = [s \in Subs |-> IF s = 1 /\ bought > 0
                        THEN [of |-> Org, status |-> "active", seats |-> bought] ELSE NoSub]
         /\ ents = IF bought = 0 THEN {} ELSE in \X {1}
         /\ userTier = [u \in Users |-> IF bought > 0 /\ u \in in THEN "pro" ELSE "free"]
         /\ listed = joined
    /\ rq = [p \in Procs |-> Idle]
    /\ made = 0 /\ failures = 0 /\ clean = TRUE
-----------------------------------------------------------------------------
(* What the store's queries return *)

Fresh(table, none) == {k \in DOMAIN table : table[k] = none}

\* GetActiveOrgSubscription and GetActivePersonalSubscription take the first
\* active row; 0 is none.
ActiveSub(whose) ==
    LET active == {s \in Subs : subs[s].of = whose /\ subs[s].status = "active"}
    IN IF active = {} THEN 0 ELSE Min(active)

IsUserPro(u) == \E s \in Subs : <<u, s>> \in ents /\ subs[s].status = "active"
CountEntitlementsBySub(s) == Cardinality({u \in Users : <<u, s>> \in ents})
MemberSet == {u \in Users : members[u] # "none"}
-----------------------------------------------------------------------------
(* Steps of a request *)

\* A request at another step, with what it has read, found or listed there.
To(r, pc) == [r EXCEPT !.pc = pc]
Reads(r, pc, val) == [r EXCEPT !.pc = pc, !.val = val]
Finds(r, pc, key) == [r EXCEPT !.pc = pc, !.key = key]
Lists(r, pc, todo) == [r EXCEPT !.pc = pc, !.todo = todo]
Counts(r, n) == [r EXCEPT !.n = n]
For(r, who) == [r EXCEPT !.who = who]

Set(p, r) == rq' = [rq EXCEPT ![p] = r]
Busy == {p \in Procs : rq[p].pc # "idle"}

\* A request arrives and passes its first checks.
Begin(p, op, pc, who, key, n) ==
    /\ rq[p].pc = "idle"
    /\ made < IF Busy = {} THEN MaxRequests ELSE MaxRush
    /\ made' = made + 1
    /\ clean' = (clean /\ Busy = {})
    /\ Set(p, Request(op, pc, who, key, n))
    /\ UNCHANGED <<failures, orgVars, paidVars, listed>>

At(p, pc) == rq[p].pc = pc /\ UNCHANGED runVars
Go(p, pc) == Set(p, To(rq[p], pc))
End(p) == Set(p, Idle)

Leads(u) == org = "live" /\ members[u] \in {"owner", "admin"}

\* The requests, with their checks: who may ask, and what must be there.
AskInvite(p) ==
    \E by, u \in Users, admin \in {0, 1} :
        Leads(by) /\ Begin(p, "invite", "invite", u, 0, admin)
AskRevoke(p) ==
    \E by \in Users, t \in Invites :
        Leads(by) /\ Begin(p, "revoke", "revoke", None, t, 0)
AskAccept(p) ==
    \E t \in Invites :
        /\ invites[t].state = "pending"
        /\ Begin(p, "accept", "consume", invites[t].to, t, 0)
AskRemove(p) ==
    \E by \in Users, u \in Users \ {Owner} :
        (Leads(by) \/ (org = "live" /\ by = u)) /\ Begin(p, "remove", "unjoin", u, 0, 0)
AskDelete(p) == org = "live" /\ Begin(p, "delete", "mayDelete", Owner, 0, 0)
AskUpgrade(p) ==
    \E n \in SeatChoices : org = "live" /\ Begin(p, "upgrade", "mayGrow", Owner, 0, n)
AskCancel(p) == org = "live" /\ Begin(p, "cancel", "mayCancel", Owner, 0, 0)
AskPersonal(p) == \E u \in Users : Begin(p, "personal", "mayBuy", u, 0, 1)
AskDowngrade(p) == \E u \in Users : Begin(p, "downgrade", "mayCancel", u, 0, 0)

Ask(p) ==
    \/ AskInvite(p) \/ AskRevoke(p) \/ AskAccept(p) \/ AskRemove(p) \/ AskDelete(p)
    \/ AskUpgrade(p) \/ AskCancel(p) \/ AskPersonal(p) \/ AskDowngrade(p)
-----------------------------------------------------------------------------
(* Invites and members *)

\* CreateOrgInvite: one row per address, used or not; others are skipped.
CreateInvite(p) ==
    /\ At(p, "invite")
    /\ IF \E t \in Invites : invites[t].to = rq[p].who
       THEN invites' = invites
       ELSE /\ Fresh(invites, NoInvite) # {}
            /\ LET t == Min(Fresh(invites, NoInvite)) IN
               invites' = [invites EXCEPT ![t] =
                   [to |-> rq[p].who, state |-> "pending",
                    role |-> IF rq[p].n = 1 THEN "admin" ELSE "member"]]
    /\ End(p)
    /\ UNCHANGED <<org, maxSeats, members, taken, paidVars, listed>>

\* RevokeOrgInvite deletes the row, unless it was used.  Its token is gone for
\* good.
RevokeInvite(p) ==
    /\ At(p, "revoke")
    /\ LET t == rq[p].key IN
       invites' = IF invites[t].state = "pending"
                  THEN [invites EXCEPT ![t] = [NoInvite EXCEPT !.state = "revoked"]]
                  ELSE invites
    /\ End(p)
    /\ UNCHANGED <<org, maxSeats, members, taken, paidVars, listed>>

\* Mutant: the check of handleConsumeInvite is trusted.
MutantConsumeAny(p) ==
    /\ At(p, "consume")
    /\ LET t == rq[p].key IN
       /\ invites' = [invites EXCEPT ![t].state = "claimed"]
       /\ taken' = [taken EXCEPT ![t] = @ + 1]
       /\ Set(p, Reads(rq[p], "join", invites[t].role))
    /\ UNCHANGED <<org, maxSeats, members, paidVars, listed>>

\* ConsumeOrgInvite: looks again and marks it used, in one transaction.
ConsumeInvite(p) ==
    /\ At(p, "consume")
    /\ LET t == rq[p].key IN
       IF invites[t].state = "pending"
       THEN /\ invites' = [invites EXCEPT ![t].state = "claimed"]
            /\ taken' = [taken EXCEPT ![t] = @ + 1]
            /\ Set(p, Reads(rq[p], "join", invites[t].role))
       ELSE End(p) /\ UNCHANGED <<invites, taken>>
    /\ UNCHANGED <<org, maxSeats, members, paidVars, listed>>

\* AddOrgMember: with a free seat of an organisation that is there; a member
\* keeps the role he has.  Its error is not looked at.
AddMember(p) ==
    /\ At(p, "join")
    /\ IF org = "live" /\ Cardinality(MemberSet) < maxSeats /\ members[rq[p].who] = "none"
       THEN members' = [members EXCEPT ![rq[p].who] = rq[p].val]
       ELSE members' = members
    /\ Go(p, "grant")
    /\ UNCHANGED <<org, maxSeats, invites, taken, paidVars, listed>>

RemoveMember(p) ==
    /\ At(p, "unjoin")
    /\ members' = [members EXCEPT ![rq[p].who] = "none"]
    /\ Go(p, "ungrant")
    /\ UNCHANGED <<org, maxSeats, invites, taken, paidVars, listed>>

\* handleDeleteOrg: not while a subscription is active.
MayDelete(p) ==
    /\ At(p, "mayDelete")
    /\ IF ActiveSub(Org) # 0 THEN End(p) ELSE Go(p, "delete")
    /\ UNCHANGED <<orgVars, paidVars, listed>>

\* DeleteOrg: invites, members and organisation in one transaction.  A used
\* token stays used.
DeleteOrg(p) ==
    /\ At(p, "delete")
    /\ org' = "deleted" /\ maxSeats' = maxSeats
    /\ members' = [u \in Users |-> "none"]
    /\ invites' = [t \in Invites |-> IF invites[t] = NoInvite THEN NoInvite
                                     ELSE [NoInvite EXCEPT !.state = "revoked"]]
    /\ End(p)
    /\ UNCHANGED <<taken, paidVars, listed>>

\* refreshUserOrgSubs: read the user's organisations, then set them in the
\* user's open streams.
ReadOrgs(p) ==
    /\ At(p, "readOrgs")
    /\ Set(p, Reads(rq[p], "setOrgs", IF rq[p].who \in MemberSet THEN "in" ELSE "out"))
    /\ UNCHANGED <<orgVars, paidVars, listed>>

SetOrgs(p) ==
    /\ At(p, "setOrgs")
    /\ listed' = IF rq[p].val = "in" THEN listed \union {rq[p].who}
                 ELSE listed \ {rq[p].who}
    /\ End(p)
    /\ UNCHANGED <<orgVars, paidVars>>
-----------------------------------------------------------------------------
(* Subscriptions, entitlements, tiers *)

\* grantOrgEntitlement: without an active subscription there is nothing to give.
GrantSub(p) ==
    /\ At(p, "grant")
    /\ LET s == ActiveSub(Org) IN
       Set(p, IF s = 0 THEN To(rq[p], "readOrgs")
              ELSE Counts(Finds(rq[p], "seat", s), subs[s].seats))
    /\ UNCHANGED <<orgVars, paidVars, listed>>

\* Where a handler goes after one user: its loop, or what follows it.
Next1(r) ==
    CASE r.op = "accept" -> To(r, "readOrgs")
      [] r.op = "remove" -> To(r, "readOrgs")
      [] r.op = "upgrade" -> To(r, IF r.val = "grow" THEN "growPick" ELSE "buyPick")
      [] r.op = "cancel" -> To(r, "retierPick")
      [] OTHER -> Idle

\* CountEntitlementsBySub: the seat must be free.  In an upgrade's loop a full
\* subscription ends it.
Seat(p) ==
    /\ At(p, "seat")
    /\ Set(p, IF CountEntitlementsBySub(rq[p].key) < rq[p].n
              THEN To(rq[p], "entitle")
              ELSE IF rq[p].op = "accept" THEN Next1(rq[p]) ELSE Idle)
    /\ UNCHANGED <<orgVars, paidVars, listed>>

\* CreateEntitlement: once per user and subscription.
Entitle(p) ==
    /\ At(p, "entitle")
    /\ ents' = ents \union {<<rq[p].who, rq[p].key>>}
    /\ Go(p, "pro")
    /\ UNCHANGED <<orgVars, subs, userTier, listed>>

\* A purchase counts the seats it has given.
Given(r) == IF r.val = "buy" THEN Counts(r, r.n - 1) ELSE r

\* UpdateUserTier
SetPro(p) ==
    /\ At(p, "pro")
    /\ userTier' = [userTier EXCEPT ![rq[p].who] = "pro"]
    /\ Set(p, Next1(Given(rq[p])))
    /\ UNCHANGED <<orgVars, subs, ents, listed>>

\* revokeOrgEntitlement
UngrantSub(p) ==
    /\ At(p, "ungrant")
    /\ LET s == ActiveSub(Org) IN
       Set(p, IF s = 0 THEN To(rq[p], "readOrgs") ELSE Finds(rq[p], "disentitle", s))
    /\ UNCHANGED <<orgVars, paidVars, listed>>

\* DeleteEntitlementByUserAndSub
Disentitle(p) ==
    /\ At(p, "disentitle")
    /\ ents' = ents \ {<<rq[p].who, rq[p].key>>}
    /\ Go(p, "retier")
    /\ UNCHANGED <<orgVars, subs, userTier, listed>>

\* Mutant: whoever loses an entitlement is free.
MutantRetier(p) ==
    /\ At(p, "retier")
    /\ Set(p, Reads(rq[p], "setTier", "free"))
    /\ UNCHANGED <<orgVars, paidVars, listed>>

\* IsUserPro, for a user who has lost an entitlement: another may be left.
Retier(p) ==
    /\ At(p, "retier")
    /\ Set(p, Reads(rq[p], "setTier", IF IsUserPro(rq[p].who) THEN "pro" ELSE "free"))
    /\ UNCHANGED <<orgVars, paidVars, listed>>

SetTier(p) ==
    /\ At(p, "setTier")
    /\ userTier' = [userTier EXCEPT ![rq[p].who] = rq[p].val]
    /\ Set(p, Next1(rq[p]))
    /\ UNCHANGED <<orgVars, subs, ents, listed>>

\* handleOrgUpgrade: more seats for the active subscription, or a new one.
MayGrow(p) ==
    /\ At(p, "mayGrow")
    /\ LET s == ActiveSub(Org) IN
       Set(p, IF s = 0 THEN Reads(rq[p], "buy", "buy")
              ELSE IF rq[p].n <= subs[s].seats THEN Idle
              ELSE Finds(Reads(rq[p], "grow", "grow"), "grow", s))
    /\ UNCHANGED <<orgVars, paidVars, listed>>

\* UpdateSubscriptionSeats
Grow(p) ==
    /\ At(p, "grow")
    /\ subs' = [subs EXCEPT ![rq[p].key].seats = rq[p].n]
    /\ Go(p, "maxSeats")
    /\ UNCHANGED <<orgVars, ents, userTier, listed>>

\* CreateSubscription, of the organisation or of a user
Buy(p) ==
    /\ At(p, "buy")
    /\ Fresh(subs, NoSub) # {}
    /\ LET s == Min(Fresh(subs, NoSub))
           whose == IF rq[p].op = "upgrade" THEN Org ELSE rq[p].who
       IN /\ subs' = [subs EXCEPT ![s] = [of |-> whose, status |-> "active", seats |-> rq[p].n]]
          /\ Set(p, Finds(rq[p], IF rq[p].op = "upgrade" THEN "maxSeats" ELSE "entitle", s))
    /\ UNCHANGED <<orgVars, ents, userTier, listed>>

\* SetOrgMaxSeats; of a deleted organisation there is no row.
SetMaxSeats(p) ==
    /\ At(p, "maxSeats")
    /\ maxSeats' = IF org = "live" THEN rq[p].n ELSE maxSeats
    /\ Go(p, "list")
    /\ UNCHANGED <<org, members, invites, taken, paidVars, listed>>

\* ListOrgMembers, in the order of their coming; members of one second come in
\* any order.
ListMembers(p) ==
    /\ At(p, "list")
    /\ Set(p, Lists(rq[p], IF rq[p].val = "grow" THEN "growPick" ELSE "buyPick", MemberSet))
    /\ UNCHANGED <<orgVars, paidVars, listed>>

\* The loop's next user.
Pick(p, pc, to) ==
    /\ At(p, pc)
    /\ IF rq[p].todo = {} THEN End(p)
       ELSE \E u \in rq[p].todo :
              Set(p, For(Lists(rq[p], to, rq[p].todo \ {u}), u))
    /\ UNCHANGED <<orgVars, paidVars, listed>>

GrowPick(p) == Pick(p, "growPick", "seat")

\* Mutant: a purchase gives every member an entitlement.
MutantBuyPick(p) == Pick(p, "buyPick", "entitle")

BuyPick(p) ==
    IF rq[p].n = 0
    THEN At(p, "buyPick") /\ End(p) /\ UNCHANGED <<orgVars, paidVars, listed>>
    ELSE Pick(p, "buyPick", "entitle")

RetierPick(p) == Pick(p, "retierPick", "retier")

\* handleOrgCancel, and handleAppDowngrade for the user's own
MayCancel(p) ==
    /\ At(p, "mayCancel")
    /\ LET s == ActiveSub(IF rq[p].op = "cancel" THEN Org ELSE rq[p].who) IN
       Set(p, IF s = 0 THEN Idle ELSE Finds(rq[p], "cancel", s))
    /\ UNCHANGED <<orgVars, paidVars, listed>>

\* UpdateSubscriptionStatus
CancelSub(p) ==
    /\ At(p, "cancel")
    /\ subs' = [subs EXCEPT ![rq[p].key].status = "canceled"]
    /\ Go(p, IF rq[p].op = "cancel" THEN "readEnts" ELSE "disentitle")
    /\ UNCHANGED <<orgVars, ents, userTier, listed>>

\* DeleteEntitlementsBySub reads the users first and deletes by subscription
\* then: two statements.
ReadEnts(p) ==
    /\ At(p, "readEnts")
    /\ Set(p, Lists(rq[p], "deleteEnts", {u \in Users : <<u, rq[p].key>> \in ents}))
    /\ UNCHANGED <<orgVars, paidVars, listed>>

DeleteEnts(p) ==
    /\ At(p, "deleteEnts")
    /\ ents' = {e \in ents : e[2] # rq[p].key}
    /\ Go(p, "retierPick")
    /\ UNCHANGED <<orgVars, subs, userTier, listed>>

\* handleAppUpgrade
MayBuy(p) ==
    /\ At(p, "mayBuy")
    /\ IF ActiveSub(rq[p].who) # 0 THEN End(p) ELSE Go(p, "buy")
    /\ UNCHANGED <<orgVars, paidVars, listed>>
-----------------------------------------------------------------------------
(* Failures *)

\* What a request does when a store call fails: many errors are not looked at,
\* and a read that failed reads as nothing found.
AfterError(r) ==
    CASE r.pc = "join" -> To(r, "grant")
      [] r.pc \in {"grant", "ungrant"} -> To(r, "readOrgs")
      [] r.pc = "seat" -> To(r, "entitle")
      [] r.pc = "entitle" /\ r.op # "personal" -> Next1(r)
      [] r.pc = "pro" -> Next1(Given(r))
      [] r.pc = "disentitle" -> To(r, "retier")
      [] r.pc = "retier" -> Reads(r, "setTier", "free")
      [] r.pc = "setTier" -> Next1(r)
      [] r.pc = "readOrgs" -> Reads(r, "setOrgs", "out")
      [] r.pc = "mayDelete" -> To(r, "delete")
      [] r.pc = "mayGrow" -> Reads(r, "buy", "buy")
      [] r.pc = "mayBuy" -> To(r, "buy")
      [] r.pc = "grow" -> To(r, "maxSeats")
      [] r.pc = "maxSeats" -> To(r, "list")
      [] r.pc = "cancel" /\ r.op = "cancel" -> To(r, "readEnts")
      [] r.pc = "deleteEnts" -> To(r, "retierPick")
      [] OTHER -> Idle

\* Steps that call no store: the loops' and the streams' update.
NoCall == {"idle", "growPick", "buyPick", "retierPick", "setOrgs"}

Fail(p) ==
    /\ rq[p].pc \notin NoCall /\ failures < MaxFailures
    /\ failures' = failures + 1 /\ clean' = FALSE
    /\ Set(p, AfterError(rq[p]))
    /\ UNCHANGED <<made, orgVars, paidVars, listed>>

\* The process restarts: requests and streams are gone, and BackfillProUsers
\* writes a personal subscription for everyone whose tier says "pro" and who
\* has no entitlement.
Backfilled == {u \in Users : userTier[u] = "pro" /\ ~IsUserPro(u)}

Restart ==
    /\ Cardinality(Backfilled) <= Cardinality(Fresh(subs, NoSub))
    /\ clean' = (clean /\ Busy = {})
    /\ rq' = [p \in Procs |-> Idle]
    /\ listed' = MemberSet
    /\ \E f \in [Backfilled -> Fresh(subs, NoSub)] :
         /\ \A u, v \in Backfilled : f[u] = f[v] => u = v
         /\ subs' = [s \in Subs |-> IF \E u \in Backfilled : f[u] = s
                        THEN [of |-> CHOOSE u \in Backfilled : f[u] = s,
                              status |-> "active", seats |-> 1]
                        ELSE subs[s]]
         /\ ents' = ents \union {<<u, f[u]>> : u \in Backfilled}
    /\ UNCHANGED <<orgVars, userTier, made, failures>>
-----------------------------------------------------------------------------
Step(p) ==
    \/ CreateInvite(p) \/ RevokeInvite(p) \/ ConsumeInvite(p) \/ AddMember(p)
    \/ RemoveMember(p) \/ MayDelete(p) \/ DeleteOrg(p) \/ ReadOrgs(p) \/ SetOrgs(p)
    \/ GrantSub(p) \/ Seat(p) \/ Entitle(p) \/ SetPro(p) \/ UngrantSub(p)
    \/ Disentitle(p) \/ Retier(p) \/ SetTier(p) \/ MayGrow(p) \/ Grow(p) \/ Buy(p)
    \/ SetMaxSeats(p) \/ ListMembers(p) \/ GrowPick(p) \/ BuyPick(p) \/ RetierPick(p)
    \/ MayCancel(p) \/ CancelSub(p) \/ ReadEnts(p) \/ DeleteEnts(p) \/ MayBuy(p)

OrgNext ==
    \/ Restart
    \/ \E p \in Procs : Ask(p) \/ Step(p) \/ Fail(p)

OrgSpec == OrgInit /\ [][OrgNext]_accountVars
-----------------------------------------------------------------------------
(* Properties *)

Ops == {"none", "invite", "revoke", "accept", "remove", "delete", "upgrade", "cancel",
        "personal", "downgrade"}
Pcs == {"idle", "invite", "revoke", "consume", "join", "grant", "seat", "entitle", "pro",
        "readOrgs", "setOrgs", "unjoin", "ungrant", "disentitle", "retier", "setTier",
        "mayDelete", "delete", "mayGrow", "grow", "buy", "maxSeats", "list", "growPick",
        "buyPick", "mayCancel", "cancel", "readEnts", "deleteEnts", "retierPick", "mayBuy"}
Vals == Roles \union {"none", "in", "out", "free", "pro", "grow", "buy"}
Requests == [op : Ops, pc : Pcs, who : Users \union {None}, key : Nat, n : Nat,
             todo : SUBSET Users, val : Vals]

\* The tables hold rows of their columns' types, and a request is at most in
\* one place.
OrgTypeOK ==
    /\ org \in {"live", "deleted"} /\ maxSeats \in Nat
    /\ members \in [Users -> Roles \union {"none"}]
    /\ invites \in [Invites -> [to : Users \union {None}, role : Roles \union {"none"},
                                state : {"none", "pending", "claimed", "revoked"}]]
    /\ taken \in [Invites -> Nat]
    /\ subs \in [Subs -> [of : Users \union {None, Org},
                          status : {"none", "active", "canceled"}, seats : Nat]]
    /\ ents \subseteq Users \X Subs
    /\ userTier \in [Users -> {"free", "pro"}] /\ listed \subseteq Users
    /\ rq \in [Procs -> Requests]
    /\ made \in Nat /\ failures \in Nat /\ clean \in BOOLEAN

\* An invite is used at most once, whatever requests, failures and restarts
\* come in between (ConsumeOrgInvite).
InviteOnce == \A t \in Invites : taken[t] <= 1

\* The owner of a live organisation is its member and owner; every other member
\* was invited in the role he has and has used that invite; an organisation
\* that is gone has no members, whoever was just joining it (CreateOrg,
\* DeleteOrg, AddOrgMember).
MembershipSound ==
    /\ org # "live" => MemberSet = {}
    /\ org = "live" => members[Owner] = "owner"
    /\ \A u \in MemberSet \ {Owner} : \E t \in Invites :
         invites[t] = [to |-> u, role |-> members[u], state |-> "claimed"]

\* As long as requests come one at a time, nothing fails and no restart hits
\* one, then between two requests a user's tier is "pro" exactly when an active
\* subscription entitles him, no subscription is sold beyond its seats, there
\* is one of the organisation at most, and the streams of everyone but its
\* creator follow the organisation exactly if they are members (org.go: grants,
\* revocations, upgrades, cancellation).
QuietConsistent ==
    clean /\ Busy = {} =>
        /\ \A u \in Users : userTier[u] = "pro" <=> IsUserPro(u)
        /\ \A s \in Subs : CountEntitlementsBySub(s) <= subs[s].seats
        /\ Cardinality({s \in Subs : subs[s].of = Org /\ subs[s].status = "active"}) <= 1
        /\ org = "live" => listed \ {Owner} = MemberSet \ {Owner}

\* Nobody is a member but by an invite that was his and was used once.
ByInvitation == InviteOnce /\ MembershipSound
=============================================================================
