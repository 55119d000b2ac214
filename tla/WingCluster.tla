----------------------------- MODULE WingCluster -----------------------------
(***************************************************************************)
(* Where the wings are (internal/relay/workers.go, wing_map.go,             *)
(* internal_api.go): every node has a registry of the wings connected to    *)
(* it, and the login node a map of all wings.  Edge nodes report a new wing *)
(* at once and all of theirs every five seconds; login's map is right when  *)
(* reports, syncs, reconnects and restarts have been applied in whatever    *)
(* order they arrive.                                                       *)
(*                                                                          *)
(* Time is only compared in one place, ReconcileFull.  A sync in flight     *)
(* carries what that comparison will find: the wings registered later than  *)
(* its snapshot, and those registered before it in the same second, as the  *)
(* time is sent in seconds.  The clocks of the nodes are assumed to agree.  *)
(* The usage a sync also carries is not modelled here.                      *)
(***************************************************************************)
EXTENDS Integers, Sequences, FiniteSets, SequencesExt

CONSTANTS
    Wings,
    Edges,        \* machine ids of the edge nodes
    Login,        \* and of the login node
    None,         \* nowhere
    MaxConns,     \* bound: connections wings make
    MaxFaults     \* bound: restarts of nodes, requests between them lost, syncs
                  \* begun while the last one, timed out, is under way, and times
                  \* that login hears nothing of a running edge for 30 s

ASSUME ClusterAssumption ==
    /\ Login \notin Edges /\ None \notin Edges \union {Login} \union Wings
    /\ {MaxConns, MaxFaults} \subseteq Nat /\ Wings # {}

Nodes == Edges \union {Login}
Conns == 1..MaxConns

VARIABLES
    alive,     \* edges that run
    conns,     \* connections made so far
    node,      \* per connection, where it is
    wing,      \* per connection, its wing
    pc,        \* its handler: "none", "online" (in the registry, to be
               \* announced), "calling" (the edge's report to login), "up" (the
               \* read loop), "offline" (login: removed), "dereg", "gone"
    cur,       \* per wing, the connection its client uses
    map,       \* WingMap.wings: per wing, its MachineID; WingMap.edges has
               \* every machine in it, as Register and EdgeIDs change both
    young,     \* wings registered within the current second
    reports,   \* connections whose report is on its way to login
    syncs,     \* per edge, its syncs under way
    known,     \* history: live connections that login has on its map, by a report
               \* or a sync, and whose node it has heard of since, every 30 s
    faults     \* counter for the bound

connVars == <<conns, node, wing, pc, cur>>
mapVars  == <<map, young, syncs>>
vars == <<alive, connVars, mapVars, reports, known, faults>>

Connected(k) == pc[k] \in {"online", "calling", "up"}  \* in its node's registry

Init ==
    /\ alive = Edges /\ conns = 0
    /\ node = [k \in Conns |-> Login] /\ wing \in [Conns -> {CHOOSE w \in Wings : TRUE}]
    /\ pc = [k \in Conns |-> "none"] /\ cur = [w \in Wings |-> 0]
    /\ map = [w \in Wings |-> None]
    /\ young = {} /\ reports = {} /\ syncs = [e \in Edges |-> <<>>]
    /\ known = {} /\ faults = 0
-----------------------------------------------------------------------------
(* The login node's map *)

\* The syncs under way, once w is registered at n: for n's it is newer than
\* the snapshot.
Newer(q, w, n) ==
    [e \in Edges |-> [i \in DOMAIN q[e] |->
        [q[e][i] EXCEPT !.newer = IF e = n THEN @ \union {w} ELSE @ \ {w}]]]

Register(w, n) ==
    /\ map' = [map EXCEPT ![w] = n]
    /\ young' = young \union {w}
    /\ syncs' = Newer(syncs, w, n)

\* Wings leave the map.
Drop(ws) ==
    /\ map' = [w \in Wings |-> IF w \in ws THEN None ELSE map[w]]
    /\ young' = young \ ws

Deregister(w) == Drop({w}) /\ syncs' = syncs

\* EdgeIDs: machines not heard of for 30 s go, with their wings.
EdgeIDs(silent) == Drop({w \in Wings : map[w] \in silent}) /\ syncs' = syncs
-----------------------------------------------------------------------------
(* A wing's connection: handleWingWS and dispatchWingEvent *)

\* A wing connects to any node, its old connection dead or not.
Connect(w, n) ==
    /\ conns < MaxConns /\ n \in alive \union {Login}
    /\ conns' = conns + 1
    /\ node' = [node EXCEPT ![conns'] = n] /\ wing' = [wing EXCEPT ![conns'] = w]
    /\ pc' = [pc EXCEPT ![conns'] = "online"] /\ cur' = [cur EXCEPT ![w] = conns']
    /\ UNCHANGED <<alive, mapVars, reports, known, faults>>

\* wing.config announces the wing again (bound: while no report is late).
Config(k) ==
    /\ pc[k] = "up" /\ cur[wing[k]] = k /\ k \notin reports
    /\ pc' = [pc EXCEPT ![k] = "online"]
    /\ UNCHANGED <<alive, conns, node, wing, cur, mapVars, reports, known, faults>>

Online(k) ==
    /\ pc[k] = "online"
    /\ IF node[k] = Login
       THEN /\ pc' = [pc EXCEPT ![k] = "up"]
            /\ Register(wing[k], Login)
            /\ known' = known \union {k} /\ reports' = reports
       ELSE /\ pc' = [pc EXCEPT ![k] = "calling"]
            /\ reports' = reports \union {k}
            /\ UNCHANGED <<mapVars, known>>
    /\ UNCHANGED <<alive, conns, node, wing, cur, faults>>

\* handleWingRegister.
LoginRegisters(k) ==
    /\ k \in reports
    /\ reports' = reports \ {k}
    /\ Register(wing[k], node[k])
    /\ known' = known \union (IF Connected(k) THEN {k} ELSE {})
    /\ UNCHANGED <<alive, connVars, faults>>

\* The report is answered or times out; the event follows in a goroutine.
Reported(k) ==
    /\ pc[k] = "calling"
    /\ pc' = [pc EXCEPT ![k] = "up"]
    /\ UNCHANGED <<alive, conns, node, wing, cur, mapVars, reports, known, faults>>

\* Mutant: the registry goes by wing, so that the wing's new connection leaves
\* with the old one.
MutantRemoveWing(k) ==
    /\ pc[k] = "up"
    /\ cur' = [cur EXCEPT ![wing[k]] = IF @ = k THEN 0 ELSE @]
    /\ pc' = [j \in Conns |->
                 IF j = k /\ node[k] = Login THEN "offline"
                 ELSE IF Connected(j) /\ <<wing[j], node[j]>> = <<wing[k], node[k]>> THEN "gone"
                 ELSE pc[j]]
    /\ known' = known \ {k}
    /\ UNCHANGED <<alive, conns, node, wing, map, young, syncs, reports, faults>>

\* The read loop ends: the wing is gone, or the node finds out at last.
Disconnect(k) ==
    /\ pc[k] = "up"
    /\ cur' = [cur EXCEPT ![wing[k]] = IF @ = k THEN 0 ELSE @]
    /\ pc' = [pc EXCEPT ![k] = IF node[k] = Login THEN "offline" ELSE "gone"]
    /\ known' = known \ {k}
    /\ UNCHANGED <<alive, conns, node, wing, mapVars, reports, faults>>

\* Login: offline deregisters unless the wing has another connection here.
CheckOffline(k) ==
    /\ pc[k] = "offline"
    /\ LET here == \E j \in Conns : Connected(j) /\ node[j] = Login /\ wing[j] = wing[k]
       IN  pc' = [pc EXCEPT ![k] = IF here THEN "gone" ELSE "dereg"]
    /\ UNCHANGED <<alive, conns, node, wing, cur, mapVars, reports, known, faults>>

DeregisterOffline(k) ==
    /\ pc[k] = "dereg"
    /\ Deregister(wing[k])
    /\ pc' = [pc EXCEPT ![k] = "gone"]
    /\ UNCHANGED <<alive, conns, node, wing, cur, reports, known, faults>>
-----------------------------------------------------------------------------
(* The sync: edgeSync and handleWingSync *)

\* The one sync of e that is not sent yet, if any, is its last.
Begun(e) == syncs[e] # <<>> /\ Last(syncs[e]).stage = "begun"

\* snapshotAt is taken before the registry is read.
Snapshot(e) ==
    /\ e \in alive
    /\ IF syncs[e] = <<>> THEN faults' = faults
       ELSE ~Begun(e) /\ faults < MaxFaults /\ faults' = faults + 1
    /\ syncs' = [syncs EXCEPT ![e] = Append(@, [stage |-> "begun", wings |-> {},
                     todo |-> {}, newer |-> {w \in young : map[w] = e}])]
    /\ UNCHANGED <<alive, connVars, map, young, reports, known>>

Collect(e) ==
    /\ Begun(e)
    /\ LET here == {wing[k] : k \in {j \in Conns : Connected(j) /\ node[j] = e}} IN
        syncs' = [syncs EXCEPT ![e][Len(syncs[e])] =
                     [@ EXCEPT !.stage = "sent", !.wings = here, !.todo = here]]
    /\ UNCHANGED <<alive, connVars, map, young, reports, known, faults>>

Sent(e, i) == syncs[e][i].stage = "sent"

\* Mutant: a sync only confirms and removes, registering is left to reports.
MutantConfirm(e, i) ==
    /\ Sent(e, i) /\ syncs[e][i].todo # {}
    /\ syncs' = [syncs EXCEPT ![e][i].todo = {}]
    /\ UNCHANGED <<alive, connVars, map, young, reports, known, faults>>

\* handleWingSync registers the wings one by one,
Absorb(e, i) ==
    /\ Sent(e, i)
    /\ \E w \in syncs[e][i].todo :
        /\ map' = [map EXCEPT ![w] = e]
        /\ young' = young \union {w}
        /\ syncs' = [Newer(syncs, w, e) EXCEPT ![e][i].todo = @ \ {w}]
        /\ known' = known \union {k \in Conns : Connected(k) /\ wing[k] = w /\ node[k] = e}
    /\ UNCHANGED <<alive, connVars, reports, faults>>

\* Mutant: what the snapshot does not list is removed, however new.
MutantReplace(e, i) ==
    /\ Sent(e, i) /\ syncs[e][i].todo = {}
    /\ Drop({w \in Wings : map[w] = e /\ w \notin syncs[e][i].wings})
    /\ syncs' = [syncs EXCEPT ![e] = RemoveAt(@, i)]
    /\ UNCHANGED <<alive, connVars, reports, known, faults>>

\* and removes what is not among them (ReconcileFull).
Reconcile(e, i) ==
    /\ Sent(e, i) /\ syncs[e][i].todo = {}
    /\ LET m == syncs[e][i] IN
        Drop({w \in Wings : map[w] = e /\ w \notin m.wings \union m.newer})
    /\ syncs' = [syncs EXCEPT ![e] = RemoveAt(@, i)]
    /\ UNCHANGED <<alive, connVars, reports, known, faults>>

\* The second ends.
Tick ==
    /\ young # {} /\ young' = {}
    /\ UNCHANGED <<alive, connVars, map, syncs, reports, known, faults>>

\* broadcastToEdges asks for the edges, for an event of these wings or of any.
\* Not heard of for 30 s, and so not within this second, may be an edge that is
\* dead, one whose syncs are lost or late, and login itself, which is in `edges`
\* for the wings connected to it and never syncs.
Broadcast ==
    \E silent \in SUBSET Nodes :
        /\ \A w \in young : map[w] \notin silent
        /\ silent \intersect alive = {} \/ faults < MaxFaults
        /\ faults' = IF silent \intersect alive = {} THEN faults ELSE faults + 1
        /\ EdgeIDs(silent)
        /\ known' = {k \in known : node[k] \notin silent}
        /\ UNCHANGED <<alive, connVars, reports>>
-----------------------------------------------------------------------------
(* Failures *)

LoseReport(k) ==
    /\ k \in reports /\ faults < MaxFaults
    /\ reports' = reports \ {k} /\ faults' = faults + 1
    /\ UNCHANGED <<alive, connVars, mapVars, known>>

LoseSync(e, i) ==
    /\ Sent(e, i) /\ syncs[e][i].todo = syncs[e][i].wings /\ faults < MaxFaults
    /\ syncs' = [syncs EXCEPT ![e] = RemoveAt(@, i)] /\ faults' = faults + 1
    /\ UNCHANGED <<alive, connVars, map, young, reports, known>>

\* A node dies with its connections.
Dies(n) ==
    /\ faults < MaxFaults /\ faults' = faults + 1
    /\ LET dead == {k \in Conns : node[k] = n /\ pc[k] # "none"} IN
        /\ pc' = [k \in Conns |-> IF k \in dead THEN "gone" ELSE pc[k]]
        /\ cur' = [w \in Wings |-> IF cur[w] \in dead THEN 0 ELSE cur[w]]
    /\ UNCHANGED <<conns, node, wing>>

EdgeDies(e) ==
    /\ e \in alive /\ alive' = alive \ {e}
    /\ Dies(e) /\ known' = {k \in known : node[k] # e}
    /\ syncs' = [syncs EXCEPT ![e] = IF Begun(e) THEN Front(@) ELSE @]
    /\ UNCHANGED <<map, young, reports>>

EdgeReturns(e) ==
    /\ e \in Edges \ alive /\ alive' = alive \union {e}
    /\ UNCHANGED <<connVars, mapVars, reports, known, faults>>

\* Login restarts with an empty map; what was on its way to it is lost.
LoginRestarts ==
    /\ Dies(Login)
    /\ map' = [w \in Wings |-> None]
    /\ young' = {} /\ reports' = {} /\ known' = {}
    /\ syncs' = [e \in Edges |-> IF Begun(e) THEN <<Last(syncs[e])>> ELSE <<>>]
    /\ alive' = alive
-----------------------------------------------------------------------------
Handles(k) ==
    Online(k) \/ LoginRegisters(k) \/ Reported(k) \/ CheckOffline(k) \/ DeregisterOffline(k)

SyncStep(e) == Snapshot(e) \/ Collect(e)
LoginSyncs(e) == \E i \in DOMAIN syncs[e] : Absorb(e, i) \/ Reconcile(e, i)

Next ==
    \/ \E w \in Wings, n \in Nodes : Connect(w, n)
    \/ \E k \in Conns : Config(k) \/ Handles(k) \/ Disconnect(k) \/ LoseReport(k)
    \/ \E e \in Edges :
        \/ SyncStep(e) \/ LoginSyncs(e)
        \/ \E i \in DOMAIN syncs[e] : LoseSync(e, i)
        \/ EdgeDies(e) \/ EdgeReturns(e)
    \/ Tick \/ Broadcast \/ LoginRestarts

\* Handlers run, edges sync, and a node finds out that a connection is dead
\* which its wing has left (TCP keep-alive).  Nothing makes an event happen.
Spec ==
    /\ Init /\ [][Next]_vars
    /\ \A k \in Conns : WF_vars(Handles(k)) /\ WF_vars(cur[wing[k]] # k /\ Disconnect(k))
    /\ \A e \in Edges : WF_vars(SyncStep(e)) /\ WF_vars(LoginSyncs(e))
    /\ WF_vars(Tick)
-----------------------------------------------------------------------------
(* Properties *)

Sync == [stage : {"begun", "sent"}, wings : SUBSET Wings, todo : SUBSET Wings,
         newer : SUBSET Wings]

\* The state has its type, and a wing's connection is in its node's registry,
\* whatever becomes of older connections (Remove goes by connection).
TypeOK ==
    /\ alive \subseteq Edges /\ conns \in 0..MaxConns
    /\ node \in [Conns -> Nodes] /\ wing \in [Conns -> Wings]
    /\ pc \in [Conns -> {"none", "online", "calling", "up", "offline", "dereg", "gone"}]
    /\ \A w \in Wings : cur[w] # 0 => Connected(cur[w]) /\ wing[cur[w]] = w
    /\ map \in [Wings -> Nodes \union {None}]
    /\ young \subseteq Wings /\ reports \subseteq Conns /\ known \subseteq Conns
    /\ \A e \in Edges : syncs[e] \in Seq(Sync) /\ Len(syncs[e]) <= MaxFaults + 1
    /\ faults \in 0..MaxFaults

\* A wing that stays with one edge, reconnecting or not, is on the map from its
\* registration on, by its report or by a sync, for as long as login hears of
\* the edge every 30 s: neither the edge's syncs, however late, nor those of
\* others, nor the expiry of other machines remove it (wing_map.go:60: "Wings
\* registered AFTER snapshotAt are preserved").  An edge that is not heard of
\* expires with its wings, and the sync after that brings them back.
RegisteredStays ==
    \A k \in known :
        /\ Connected(k) /\ node[k] # Login
        /\ \A j \in 1..conns : wing[j] = wing[k] => node[j] = node[k]
        => map[wing[k]] = node[k]

\* Where node n looks for wing w: at home, at login's connections, in the map.
Locate(n, w) ==
    LET has(m) == \E k \in Conns : Connected(k) /\ node[k] = m /\ wing[k] = w
    IN  IF has(n) THEN n ELSE IF has(Login) THEN Login ELSE map[w]

\* Once wings stop moving and nodes stop failing, every node finds every
\* connected wing where it is.
Converges ==
    \A w \in Wings :
        <>[](cur[w] # 0 /\ pc[cur[w]] = "up"
                => \A n \in alive \union {Login} : Locate(n, w) = node[cur[w]])

\* And a wing that left is on no map, unless its edge died with it.
GoneForgotten ==
    \A w \in Wings : <>[](cur[w] = 0 => map[w] = None \/ map[w] \in Edges \ alive)

\* The maps settle on where the wings are.
MapSettles == Converges /\ GoneForgotten
=============================================================================
