-------------------------- MODULE WingCluster_proofs --------------------------
(***************************************************************************)
(* WingCluster's type invariant and RegisteredStays: a wing that stays with *)
(* an edge login hears of stays on login's map, for any wings, edges and    *)
(* faults.                                                                  *)
(***************************************************************************)
EXTENDS WingCluster, SequenceTheorems, TLAPS

(* The inductive invariant *)

Stages == {"none", "online", "calling", "up", "offline", "dereg", "gone"}

Types ==
    /\ TypeOK
    /\ cur \in [Wings -> Conns \union {0}]
    /\ syncs \in [Edges -> Seq(Sync)]
    /\ \A e \in Edges : Len(syncs[e]) <= faults + 1
    /\ \A k \in Conns : pc[k] # "none" <=> k <= conns
    /\ \A k \in reports : k <= conns
    /\ \A k \in known : Connected(k)

\* A connection ends with its node, and only login has wings to deregister.
Placed ==
    \A k \in Conns :
        /\ Connected(k) => node[k] \in alive \union {Login}
        /\ pc[k] \in {"offline", "dereg"} => node[k] = Login

\* The wing of connection k has been with one edge since it exists.
Settled(k) == node[k] # Login /\ \A j \in 1..conns : wing[j] = wing[k] => node[j] = node[k]

Elems(q) == {q[i] : i \in 1..Len(q)}

\* A wing has been with an edge that lists it.
Listed ==
    \A e \in Edges : \A m \in Elems(syncs[e]) :
        \A w \in m.wings \union m.todo : \E j \in 1..conns : wing[j] = w /\ node[j] = e

\* A settled wing that login knows is in every sync that is under way, or is
\* newer than it.
Covered ==
    \A k \in known : Settled(k) =>
        \A m \in Elems(syncs[node[k]]) : m.stage = "sent" => wing[k] \in m.wings \union m.newer

IInv == Types /\ Placed /\ Listed /\ Covered /\ RegisteredStays

\* What the type invariant says of cur.
CurUp == \A w \in Wings : cur[w] # 0 => Connected(cur[w]) /\ wing[cur[w]] = w

LEMMA ConnsAre == Conns = 1..MaxConns /\ MaxConns \in Nat /\ \A n \in 0..MaxConns : 1..n \subseteq Conns
  BY ClusterAssumption DEF Conns

\* What the variables are, for use without the rest.
LEMMA Known ==
    ASSUME IInv
    PROVE  /\ alive \subseteq Edges /\ conns \in 0..MaxConns /\ 1..conns \subseteq Conns
           /\ node \in [Conns -> Nodes] /\ wing \in [Conns -> Wings] /\ pc \in [Conns -> Stages]
           /\ map \in [Wings -> Nodes \union {None}] /\ cur \in [Wings -> Conns \union {0}]
           /\ young \subseteq Wings /\ reports \subseteq 1..conns
           /\ known \subseteq Conns /\ \A k \in known : Connected(k)
           /\ \A k \in Conns : Connected(k) => k <= conns
           /\ CurUp
  BY ConnsAre DEF IInv, Types, TypeOK, Stages, Connected, CurUp

LEMMA InitInv == Init => IInv
<1> SUFFICES ASSUME Init PROVE IInv
  OBVIOUS
<1>1. wing \in [Conns -> Wings]
  <2>1. (CHOOSE w \in Wings : TRUE) \in Wings
    BY ClusterAssumption
  <2> QED  BY <2>1 DEF Init
<1>2. syncs \in [Edges -> Seq(Sync)] /\ \A e \in Edges : Len(syncs[e]) = 0 /\ Elems(syncs[e]) = {}
  BY EmptySeq DEF Init, Elems
<1>3. TypeOK
  BY <1>1, <1>2, ClusterAssumption DEF Init, TypeOK, Nodes, Connected
<1>4. Types
  BY <1>2, <1>3, ClusterAssumption DEF Init, Types, Conns
<1>5. Placed /\ Listed /\ Covered /\ RegisteredStays
  BY <1>2 DEF Init, Placed, Listed, Covered, RegisteredStays, Connected
<1> QED  BY <1>4, <1>5 DEF IInv

(* Sequences of syncs *)

LEMMA FunSeq ==
    ASSUME NEW S, NEW n \in Nat, NEW f \in [1..n -> S]
    PROVE  f \in Seq(S) /\ Len(f) = n
<1>1. f \in Seq(S)
  BY SeqDef
<1>2. 1..Len(f) = 1..n /\ Len(f) \in Nat
  BY <1>1, LenProperties
<1> QED  BY <1>1, <1>2

\* One sync of an edge, or all but its last, or all but one, are gone.
LEMMA Fewer ==
    ASSUME NEW S, NEW q \in Seq(S), q # <<>>
    PROVE  /\ Front(q) \in Seq(S) /\ Len(Front(q)) <= Len(q) /\ Elems(Front(q)) \subseteq Elems(q)
           /\ <<Last(q)>> \in Seq(S) /\ Len(<<Last(q)>>) <= Len(q)
           /\ Elems(<<Last(q)>>) \subseteq Elems(q)
<1>1. Len(q) \in Nat \ {0} /\ \A i \in 1..Len(q) : q[i] \in S
  BY EmptySeq, ElementOfSeq
<1>2. /\ Front(q) \in Seq(S) /\ Len(Front(q)) = Len(q) - 1
      /\ \A i \in 1..Len(q) - 1 : Front(q)[i] = q[i]
  <2> DEFINE n == Len(q) - 1
             f == SubSeq(q, 1, n)
  <2>1. 1 \in Int /\ n \in Nat /\ \A i \in 1..n : q[i] \in S
    BY <1>1
  <2>2. Front(q) = f
    BY DEF Front
  <2> HIDE DEF n
  <2>3. /\ f \in Seq(S) /\ Len(f) = IF 1 <= n THEN n - 1 + 1 ELSE 0
        /\ \A i \in 1..n - 1 + 1 : f[i] = q[1 + i - 1]
    BY <2>1, SubSeqProperties
  <2> HIDE DEF f
  <2>4. f \in Seq(S) /\ Len(f) = n /\ \A i \in 1..n : f[i] = q[i]
    BY <2>1, <2>3
  <2> QED  BY <2>2, <2>4 DEF n
<1>3. Last(q) = q[Len(q)] /\ Last(q) \in S
  BY <1>1 DEF Last
<1>4. <<Last(q)>> \in Seq(S) /\ Len(<<Last(q)>>) = 1 /\ <<Last(q)>>[1] = Last(q)
  BY <1>3
<1>5. Elems(Front(q)) \subseteq Elems(q)
  BY <1>1, <1>2 DEF Elems
<1>6. Elems(<<Last(q)>>) \subseteq Elems(q)
  BY <1>1, <1>3, <1>4 DEF Elems
<1> QED  BY <1>1, <1>2, <1>4, <1>5, <1>6

LEMMA OneLess ==
    ASSUME NEW S, NEW q \in Seq(S), NEW i \in 1..Len(q)
    PROVE  /\ RemoveAt(q, i) \in Seq(S) /\ Len(RemoveAt(q, i)) <= Len(q)
           /\ Elems(RemoveAt(q, i)) \subseteq Elems(q)
<1> DEFINE a == SubSeq(q, 1, i - 1)
           b == SubSeq(q, i + 1, Len(q))
<1>1. Len(q) \in Nat /\ i \in Nat /\ \A j \in 1..Len(q) : q[j] \in S
  BY LenProperties, ElementOfSeq
<1>2. a \in Seq(S) /\ Len(a) = i - 1 /\ \A j \in 1..i - 1 : a[j] = q[j]
  <2>1. 1 \in Int /\ i - 1 \in Int /\ \A j \in 1..i - 1 : q[j] \in S
    BY <1>1
  <2>2. /\ a \in Seq(S) /\ Len(a) = IF 1 <= i - 1 THEN i - 1 - 1 + 1 ELSE 0
        /\ \A j \in 1..i - 1 - 1 + 1 : a[j] = q[1 + j - 1]
    BY <2>1, SubSeqProperties
  <2> QED  BY <1>1, <2>2
<1>3. b \in Seq(S) /\ Len(b) = Len(q) - i /\ \A j \in 1..Len(q) - i : b[j] = q[i + j]
  <2>1. i + 1 \in Int /\ Len(q) \in Int /\ \A j \in i + 1..Len(q) : q[j] \in S
    BY <1>1
  <2>2. /\ b \in Seq(S) /\ Len(b) = IF i + 1 <= Len(q) THEN Len(q) - (i + 1) + 1 ELSE 0
        /\ \A j \in 1..Len(q) - (i + 1) + 1 : b[j] = q[(i + 1) + j - 1]
    BY <2>1, SubSeqProperties
  <2> QED  BY <1>1, <2>2
<1>4. RemoveAt(q, i) = a \o b
  BY DEF RemoveAt
<1> HIDE DEF a, b
<1>5. /\ a \o b \in Seq(S) /\ Len(a \o b) = Len(q) - 1
      /\ \A j \in 1..Len(q) - 1 : (a \o b)[j] = IF j <= i - 1 THEN a[j] ELSE b[j - (i - 1)]
  <2>1. /\ a \o b \in Seq(S) /\ Len(a \o b) = Len(a) + Len(b)
        /\ \A j \in 1..Len(a) + Len(b) : (a \o b)[j] = IF j <= Len(a) THEN a[j] ELSE b[j - Len(a)]
    BY <1>2, <1>3, ConcatProperties
  <2> QED  BY <1>1, <1>2, <1>3, <2>1
<1>6. ASSUME NEW j \in 1..Len(q) - 1 PROVE \E k \in 1..Len(q) : (a \o b)[j] = q[k]
  <2>1. CASE j <= i - 1
    BY <1>1, <1>2, <1>5, <2>1
  <2>2. CASE ~(j <= i - 1)
    <3>1. (a \o b)[j] = b[j - (i - 1)] /\ j - (i - 1) \in 1..Len(q) - i
      BY <1>1, <1>5, <2>2
    <3>2. (a \o b)[j] = q[i + (j - (i - 1))] /\ i + (j - (i - 1)) \in 1..Len(q)
      BY <1>1, <1>3, <3>1
    <3> QED  BY <3>2
  <2> QED  BY <2>1, <2>2
<1> QED  BY <1>1, <1>4, <1>5, <1>6 DEF Elems

\* One sync of an edge is replaced, or one is added.
LEMMA OneOther ==
    ASSUME NEW S, NEW q \in Seq(S), NEW i \in 1..Len(q), NEW x \in S
    PROVE  /\ [q EXCEPT ![i] = x] \in Seq(S) /\ Len([q EXCEPT ![i] = x]) = Len(q)
           /\ Elems([q EXCEPT ![i] = x]) \subseteq Elems(q) \union {x}
<1>1. /\ [q EXCEPT ![i] = x] \in Seq(S) /\ Len([q EXCEPT ![i] = x]) = Len(q)
      /\ \A j \in 1..Len(q) : [q EXCEPT ![i] = x][j] = IF j = i THEN x ELSE q[j]
  BY ExceptSeq
<1> QED  BY <1>1 DEF Elems

LEMMA OneMore ==
    ASSUME NEW S, NEW q \in Seq(S), NEW x \in S
    PROVE  /\ Append(q, x) \in Seq(S) /\ Len(Append(q, x)) = Len(q) + 1
           /\ Elems(Append(q, x)) \subseteq Elems(q) \union {x}
<1>1. /\ Append(q, x) \in Seq(S) /\ Len(Append(q, x)) = Len(q) + 1 /\ Len(q) \in Nat
      /\ \A j \in 1..Len(q) : Append(q, x)[j] = q[j]
      /\ Append(q, x)[Len(q) + 1] = x
  BY AppendProperties, LenProperties
<1> QED  BY <1>1 DEF Elems
(* Connections *)

\* A connection's handler goes on or ends; the maps do not change.
LEMMA ConnStep ==
    ASSUME IInv, NEW k \in Conns, NEW x \in Stages \ {"none"}, pc[k] # "none",
           pc' = [pc EXCEPT ![k] = x],
           Connected(k)' => Connected(k), x \in {"offline", "dereg"} => node[k] = Login,
           UNCHANGED <<alive, conns, node, wing, map, young, syncs>>,
           cur' \in [Wings -> Conns \union {0}],
           CurUp',
           reports' \subseteq reports \union {k},
           known' \subseteq known, \A j \in known' : Connected(j)',
           faults' \in faults..MaxFaults
    PROVE  IInv'
<1>1. /\ pc' \in [Conns -> Stages] /\ pc'[k] = x /\ pc[k] # "none" /\ k <= conns
      /\ \A j \in Conns : j # k => pc'[j] = pc[j]
  BY Known DEF IInv, Types
<1>2. \A j \in Conns : Connected(j)' => Connected(j)
  BY <1>1 DEF Connected
<1>3. faults \in 0..MaxFaults /\ faults' \in 0..MaxFaults /\ MaxFaults \in Nat
  BY ClusterAssumption DEF IInv, Types, TypeOK
<1>4. \A e \in Edges : Len(syncs[e]) <= faults + 1 /\ Len(syncs[e]) \in Nat
  BY LenProperties DEF IInv, Types
<1>5. \A e \in Edges : Len(syncs[e]) <= faults' + 1 /\ Len(syncs[e]) <= MaxFaults + 1
  BY <1>3, <1>4
<1>6. reports' \subseteq Conns /\ \A j \in reports' : j <= conns
  BY <1>1, Known DEF IInv, Types
<1>7. known' \subseteq Conns
  BY Known
<1>8. Types'
  <2>1. TypeOK'
    BY <1>1, <1>3, <1>5, <1>6, <1>7 DEF IInv, Types, TypeOK, Stages, CurUp
  <2>2. \A j \in Conns : pc'[j] # "none" <=> j <= conns
    BY <1>1 DEF IInv, Types
  <2> QED  BY <1>5, <1>6, <2>1, <2>2 DEF IInv, Types
<1>9. Placed'
  BY <1>1, <1>2 DEF IInv, Placed
<1>10. Listed' /\ Covered'
  BY DEF IInv, Listed, Covered, Settled
<1>11. RegisteredStays'
  BY <1>2, <1>7 DEF IInv, RegisteredStays
<1> QED  BY <1>8, <1>9, <1>10, <1>11 DEF IInv

\* As above, for a connection that stays in the registry.
LEMMA StaysUp ==
    ASSUME IInv, NEW k \in Conns, NEW x \in {"online", "calling", "up"}, Connected(k),
           pc' = [pc EXCEPT ![k] = x],
           UNCHANGED <<alive, conns, node, wing, map, young, syncs, cur, known, faults>>,
           reports' \subseteq reports \union {k}
    PROVE  IInv'
<1>1. \A j \in Conns : Connected(j)' <=> Connected(j)
  BY Known DEF Connected
<1>2. CurUp'
  BY <1>1, Known DEF CurUp, Connected
<1>3. \A j \in known' : Connected(j)'
  BY <1>1, Known
<1>4. faults' \in faults..MaxFaults /\ cur' \in [Wings -> Conns \union {0}] /\ known' \subseteq known
  BY Known, ClusterAssumption DEF IInv, Types, TypeOK
<1>5. pc[k] # "none" /\ x \in Stages \ {"none"} /\ x \notin {"offline", "dereg"}
  BY DEF Connected, Stages
<1> QED  BY <1>2, <1>3, <1>4, <1>5, ConnStep

LEMMA ConfigReportedInv ==
    ASSUME IInv, NEW k \in Conns, Config(k) \/ Reported(k) PROVE IInv'
<1>1. /\ Connected(k) /\ \E x \in {"online", "up"} : pc' = [pc EXCEPT ![k] = x]
      /\ UNCHANGED <<alive, conns, node, wing, map, young, syncs, cur, known, faults>>
      /\ reports' \subseteq reports \union {k}
  BY DEF Config, Reported, mapVars, Connected
<1> QED  BY <1>1, StaysUp

LEMMA LeavesUp ==
    ASSUME IInv, NEW k \in Conns, NEW x \in {"offline", "dereg", "gone"}, pc[k] # "none",
           pc' = [pc EXCEPT ![k] = x], x \in {"offline", "dereg"} => node[k] = Login,
           Connected(k) => cur' = [cur EXCEPT ![wing[k]] = IF @ = k THEN 0 ELSE @],
           ~Connected(k) => cur' = cur, known' = known \ {k},
           UNCHANGED <<alive, conns, node, wing, map, young, syncs, reports, faults>>
    PROVE  IInv'
<1>1. /\ pc' \in [Conns -> Stages] /\ ~Connected(k)' /\ wing[k] \in Wings
      /\ \A j \in Conns : j # k => (Connected(j)' <=> Connected(j))
  BY Known DEF Connected, Stages
<1>2. /\ cur' \in [Wings -> Conns \union {0}]
      /\ \A w \in Wings : cur'[w] \in {0, cur[w]} /\ cur'[w] # k
  <2>1. /\ cur \in [Wings -> Conns \union {0}]
        /\ \A w \in Wings : cur[w] = k => wing[k] = w /\ Connected(k)
    BY Known, ConnsAre DEF CurUp
  <2>2. k # 0
    BY ConnsAre
  <2>3. CASE Connected(k)
    BY <1>1, <2>1, <2>2, <2>3
  <2>4. CASE ~Connected(k)
    BY <2>1, <2>4
  <2> QED  BY <2>3, <2>4
<1>3. CurUp'
  BY <1>1, <1>2, Known DEF CurUp, Connected
<1>4. \A j \in known' : Connected(j)'
  BY <1>1, Known
<1>5. faults' \in faults..MaxFaults /\ x \in Stages \ {"none"}
  BY ClusterAssumption DEF IInv, Types, TypeOK, Stages
<1> QED  BY <1>1, <1>2, <1>3, <1>4, <1>5, ConnStep

LEMMA DisconnectInv == ASSUME IInv, NEW k \in Conns, Disconnect(k) PROVE IInv'
<1>1. /\ pc[k] = "up" /\ Connected(k)
      /\ cur' = [cur EXCEPT ![wing[k]] = IF @ = k THEN 0 ELSE @]
      /\ pc' = [pc EXCEPT ![k] = IF node[k] = Login THEN "offline" ELSE "gone"]
      /\ known' = known \ {k}
      /\ UNCHANGED <<alive, conns, node, wing, map, young, syncs, reports, faults>>
  BY DEF Disconnect, mapVars, Connected
<1>2. PICK x \in {"offline", "gone"} :
          x = (IF node[k] = Login THEN "offline" ELSE "gone")
  OBVIOUS
<1> QED  BY <1>1, <1>2, LeavesUp

LEMMA CheckOfflineInv == ASSUME IInv, NEW k \in Conns, CheckOffline(k) PROVE IInv'
<1>1. /\ pc[k] = "offline" /\ ~Connected(k)
      /\ \E x \in {"gone", "dereg"} : pc' = [pc EXCEPT ![k] = x]
      /\ UNCHANGED <<alive, conns, node, wing, cur, map, young, syncs, reports, known, faults>>
  BY DEF CheckOffline, mapVars, Connected
<1>2. node[k] = Login /\ known' = known \ {k}
  BY <1>1, Known DEF IInv, Placed
<1> QED  BY <1>1, <1>2, LeavesUp

LEMMA LoseReportInv == ASSUME IInv, NEW k \in Conns, LoseReport(k) PROVE IInv'
<1>1. /\ k \in reports /\ faults < MaxFaults /\ faults' = faults + 1 /\ reports' = reports \ {k}
      /\ UNCHANGED <<alive, conns, node, wing, pc, cur, map, young, syncs, known>>
  BY DEF LoseReport, connVars, mapVars
<1>2. pc[k] # "none" /\ pc[k] \in Stages /\ pc' = [pc EXCEPT ![k] = pc[k]]
  BY <1>1, Known DEF IInv, Types
<1>3. \A j \in Conns : Connected(j)' <=> Connected(j)
  BY <1>1 DEF Connected
<1>4. CurUp'
  BY <1>1, Known DEF CurUp, Connected
<1>5. \A j \in known' : Connected(j)'
  BY <1>1, <1>3, Known
<1>6. faults' \in faults..MaxFaults
  BY <1>1, ClusterAssumption DEF IInv, Types, TypeOK
<1>7. pc[k] \in {"offline", "dereg"} => node[k] = Login
  BY DEF IInv, Placed
<1>8. cur' \in [Wings -> Conns \union {0}] /\ known' \subseteq known
      /\ reports' \subseteq reports \union {k}
  BY <1>1, Known
<1> QED  BY <1>1, <1>2, <1>3, <1>4, <1>5, <1>6, <1>7, <1>8, ConnStep
LEMMA ConnectInv ==
    ASSUME IInv, NEW w \in Wings, NEW n \in Nodes, Connect(w, n) PROVE IInv'
<1> DEFINE k == conns + 1
<1>1. /\ conns < MaxConns /\ n \in alive \union {Login} /\ conns' = k
      /\ node' = [node EXCEPT ![k] = n] /\ wing' = [wing EXCEPT ![k] = w]
      /\ pc' = [pc EXCEPT ![k] = "online"] /\ cur' = [cur EXCEPT ![w] = k]
      /\ UNCHANGED <<alive, map, young, syncs, reports, known, faults>>
  BY DEF Connect, mapVars
<1>2. k \in Conns /\ conns \in Nat /\ k \in 0..MaxConns /\ \A j \in 1..conns : j \in Conns /\ j # k
  BY <1>1, Known, ConnsAre
<1> HIDE DEF k
<1>3. /\ node' \in [Conns -> Nodes] /\ wing' \in [Conns -> Wings] /\ pc' \in [Conns -> Stages]
      /\ cur' \in [Wings -> Conns \union {0}]
      /\ node'[k] = n /\ wing'[k] = w /\ pc'[k] = "online" /\ cur'[w] = k
      /\ \A j \in Conns : j # k =>
            node'[j] = node[j] /\ wing'[j] = wing[j] /\ pc'[j] = pc[j]
      /\ \A v \in Wings : v # w => cur'[v] = cur[v]
  BY <1>1, <1>2, Known DEF Stages
<1>4. pc[k] = "none" /\ ~Connected(k)
  <2>1. ~(k <= conns)
    BY <1>2 DEF k
  <2> QED  BY <1>2, <2>1 DEF IInv, Types, Connected
<1>5. \A j \in 1..conns : node'[j] = node[j] /\ wing'[j] = wing[j] /\ pc'[j] = pc[j]
  BY <1>2, <1>3
<1>6. \A j \in known : j \in 1..conns /\ j \in 1..k
  BY <1>2, Known, ConnsAre DEF k
<1>7. CurUp'
  BY <1>3, <1>4, Known DEF CurUp, Connected
<1>8. Types'
  <2>1. TypeOK'
    BY <1>1, <1>2, <1>3, <1>7 DEF IInv, Types, TypeOK, CurUp, Stages
  <2>2. \A j \in Conns : pc'[j] # "none" <=> j <= k
    <3>1. \A j \in Conns : pc[j] # "none" <=> j <= conns
      BY DEF IInv, Types
    <3>2. \A j \in Conns : j # k => (j <= k <=> j <= conns)
      BY <1>2, ConnsAre DEF k
    <3>3. k <= k
      BY <1>2
    <3> QED  BY <1>3, <3>1, <3>2, <3>3
  <2>3. \A j \in reports : j <= k
    BY <1>2, Known DEF k
  <2>4. \A j \in known : Connected(j)'
    BY <1>5, <1>6, Known DEF Connected
  <2> QED  BY <1>1, <1>3, <2>1, <2>2, <2>3, <2>4 DEF IInv, Types
<1>9. Placed'
  BY <1>1, <1>3 DEF IInv, Placed, Connected
<1>10. 1..conns \subseteq 1..k
  BY <1>2 DEF k
<1>11. Listed'
  <2> SUFFICES ASSUME NEW e \in Edges, NEW m \in Elems(syncs[e]), NEW v \in m.wings \union m.todo
               PROVE  \E j \in 1..k : wing'[j] = v /\ node'[j] = e
    BY <1>1 DEF Listed
  <2>1. PICK j \in 1..conns : wing[j] = v /\ node[j] = e
    BY DEF IInv, Listed
  <2> QED  BY <1>5, <1>10, <2>1
<1>12. \A j \in known : Settled(j)' => Settled(j)
  BY <1>1, <1>5, <1>6, <1>10 DEF Settled
<1>13. Covered'
  BY <1>1, <1>5, <1>6, <1>12 DEF IInv, Covered
<1>14. RegisteredStays'
  <2> SUFFICES ASSUME NEW j \in known, Connected(j)', node'[j] # Login,
                      \A i \in 1..k : wing'[i] = wing'[j] => node'[i] = node'[j]
               PROVE  map'[wing'[j]] = node'[j]
    BY <1>1 DEF RegisteredStays
  <2>1. Connected(j) /\ node'[j] = node[j] /\ wing'[j] = wing[j]
    BY <1>5, <1>6, Known
  <2>2. \A i \in 1..conns : wing[i] = wing[j] => node[i] = node[j]
    BY <1>5, <1>10, <2>1
  <2> QED  BY <1>1, <2>1, <2>2 DEF IInv, RegisteredStays
<1> QED  BY <1>8, <1>9, <1>11, <1>13, <1>14 DEF IInv

(* Login's map *)

\* What a sync was before wing w was registered at n.
Was(e, w, n, m1, m) ==
    /\ m1.stage = m.stage /\ m1.wings = m.wings /\ m1.todo \subseteq m.todo
    /\ m1.newer = IF e = n THEN m.newer \union {w} ELSE m.newer \ {w}

LEMMA NewerSyncs ==
    ASSUME IInv, NEW w \in Wings, NEW n \in Nodes, NEW q, q = Newer(syncs, w, n)
    PROVE  /\ q \in [Edges -> Seq(Sync)]
           /\ \A e \in Edges : Len(q[e]) = Len(syncs[e])
           /\ \A e \in Edges : \A m1 \in Elems(q[e]) :
                \E m \in Elems(syncs[e]) : m1 \in Sync /\ Was(e, w, n, m1, m)
<1> DEFINE Add(e, m) == [m EXCEPT !.newer = IF e = n THEN @ \union {w} ELSE @ \ {w}]
<1>1. ASSUME NEW e \in Edges, NEW m \in Sync
      PROVE  Add(e, m) \in Sync /\ Was(e, w, n, Add(e, m), m)
  BY DEF Sync, Was
<1>2. q = [e \in Edges |-> [i \in DOMAIN syncs[e] |-> Add(e, syncs[e][i])]]
  BY DEF Newer
<1> HIDE DEF Add
<1>3. ASSUME NEW e \in Edges
      PROVE  /\ q[e] \in Seq(Sync) /\ Len(q[e]) = Len(syncs[e])
             /\ \A i \in 1..Len(syncs[e]) : q[e][i] = Add(e, syncs[e][i])
  <2>1. /\ syncs[e] \in Seq(Sync) /\ DOMAIN syncs[e] = 1..Len(syncs[e]) /\ Len(syncs[e]) \in Nat
        /\ \A i \in 1..Len(syncs[e]) : syncs[e][i] \in Sync
    BY LenProperties, ElementOfSeq DEF IInv, Types
  <2>2. q[e] = [i \in 1..Len(syncs[e]) |-> Add(e, syncs[e][i])]
    BY <1>2, <2>1
  <2>3. \A i \in 1..Len(syncs[e]) : Add(e, syncs[e][i]) \in Sync
    BY <1>1, <2>1
  <2>4. q[e] \in [1..Len(syncs[e]) -> Sync]
    BY <2>2, <2>3
  <2> QED  BY <2>1, <2>2, <2>4, FunSeq
<1>4. ASSUME NEW e \in Edges, NEW m1 \in Elems(q[e])
      PROVE  \E m \in Elems(syncs[e]) : m1 \in Sync /\ Was(e, w, n, m1, m)
  <2>1. PICK i \in 1..Len(syncs[e]) : m1 = q[e][i]
    BY <1>3 DEF Elems
  <2>2. syncs[e][i] \in Sync /\ syncs[e][i] \in Elems(syncs[e])
    BY ElementOfSeq DEF IInv, Types, Elems
  <2>3. m1 = Add(e, syncs[e][i])
    BY <1>3, <2>1
  <2> QED  BY <1>1, <2>2, <2>3
<1>5. q = [e \in Edges |-> q[e]]
  BY <1>2
<1>6. q \in [Edges -> Seq(Sync)]
  BY <1>3, <1>5
<1> QED  BY <1>3, <1>4, <1>6

\* A wing is registered at a node where it has been; those that become known
\* are this wing's at this node.
LEMMA RegisterStep ==
    ASSUME IInv, NEW w \in Wings, NEW n \in Nodes,
           map' = [map EXCEPT ![w] = n], young' = young \union {w},
           \A e \in Edges : \A m1 \in Elems(syncs'[e]) :
               \E m \in Elems(syncs[e]) : Was(e, w, n, m1, m),
           UNCHANGED <<conns, node, wing>>, known' \subseteq 1..conns,
           \A k \in known' : k \in known \/ (wing[k] = w /\ node[k] = n),
           \E j \in 1..conns : wing[j] = w /\ node[j] = n
    PROVE  /\ map' \in [Wings -> Nodes \union {None}] /\ young' \subseteq Wings
           /\ Listed' /\ Covered' /\ RegisteredStays'
<1>1. PICK j \in 1..conns : wing[j] = w /\ node[j] = n
  OBVIOUS
<1>2. /\ map' \in [Wings -> Nodes \union {None}] /\ young' \subseteq Wings
      /\ map'[w] = n /\ \A v \in Wings : v # w => map'[v] = map[v]
  BY Known
<1>3. Listed'
  <2> SUFFICES ASSUME NEW e \in Edges, NEW m1 \in Elems(syncs'[e]), NEW v \in m1.wings \union m1.todo
               PROVE  \E i \in 1..conns : wing[i] = v /\ node[i] = e
    BY DEF Listed
  <2>1. PICK m \in Elems(syncs[e]) : Was(e, w, n, m1, m)
    OBVIOUS
  <2>2. v \in m.wings \union m.todo
    BY <2>1 DEF Was
  <2> QED  BY <2>2 DEF IInv, Listed
<1>4. Covered'
  <2> SUFFICES ASSUME NEW k \in known', Settled(k), NEW m1 \in Elems(syncs'[node[k]]),
                      m1.stage = "sent"
               PROVE  wing[k] \in m1.wings \union m1.newer
    BY DEF Covered, Settled
  <2>1. k \in Conns /\ node[k] \in Edges /\ wing[k] \in Wings
    BY Known DEF Settled, Nodes
  <2>2. PICK m \in Elems(syncs[node[k]]) : Was(node[k], w, n, m1, m)
    BY <2>1
  <2>3. /\ m1.stage = m.stage /\ m1.wings = m.wings
        /\ m1.newer = IF node[k] = n THEN m.newer \union {w} ELSE m.newer \ {w}
    BY <2>2 DEF Was
  <2>4. CASE wing[k] = w
    <3>1. node[k] = n
      BY <1>1, <2>4 DEF Settled
    <3> QED  BY <2>3, <2>4, <3>1
  <2>5. CASE wing[k] # w
    <3>1. wing[k] \in m.wings \union m.newer
      BY <2>2, <2>3, <2>5 DEF IInv, Covered
    <3> QED  BY <2>3, <2>5, <3>1
  <2> QED  BY <2>4, <2>5
<1>5. RegisteredStays'
  <2> SUFFICES ASSUME NEW k \in known', Settled(k)
               PROVE  map'[wing[k]] = node[k]
    BY DEF RegisteredStays, Settled
  <2>1. k \in Conns /\ wing[k] \in Wings
    BY Known
  <2>2. CASE wing[k] = w
    BY <1>1, <1>2, <2>2 DEF Settled
  <2>3. CASE wing[k] # w
    <3>1. k \in known /\ Connected(k)
      BY <2>3, Known
    <3> QED  BY <1>2, <2>1, <2>3, <3>1 DEF IInv, RegisteredStays, Settled
  <2> QED  BY <2>2, <2>3
<1> QED  BY <1>2, <1>3, <1>4, <1>5

\* The same, for Register.
LEMMA Registers ==
    ASSUME IInv, NEW w \in Wings, NEW n \in Nodes, Register(w, n),
           UNCHANGED <<conns, node, wing>>, known' \subseteq 1..conns,
           \A k \in known' : k \in known \/ (wing[k] = w /\ node[k] = n),
           \E j \in 1..conns : wing[j] = w /\ node[j] = n
    PROVE  /\ map' \in [Wings -> Nodes \union {None}] /\ young' \subseteq Wings
           /\ syncs' \in [Edges -> Seq(Sync)]
           /\ \A e \in Edges : Len(syncs'[e]) = Len(syncs[e])
           /\ Listed' /\ Covered' /\ RegisteredStays'
<1>1. /\ map' = [map EXCEPT ![w] = n] /\ young' = young \union {w} /\ syncs' = Newer(syncs, w, n)
  BY DEF Register
<1>2. /\ syncs' \in [Edges -> Seq(Sync)]
      /\ \A e \in Edges : Len(syncs'[e]) = Len(syncs[e])
      /\ \A e \in Edges : \A m1 \in Elems(syncs'[e]) :
            \E m \in Elems(syncs[e]) : m1 \in Sync /\ Was(e, w, n, m1, m)
  BY <1>1, NewerSyncs
<1>3. \A e \in Edges : \A m1 \in Elems(syncs'[e]) :
          \E m \in Elems(syncs[e]) : Was(e, w, n, m1, m)
  BY <1>2
<1> QED  BY <1>1, <1>2, <1>3, RegisterStep

\* The maps and syncs change, connections do not.
LEMMA MapTypes ==
    ASSUME IInv, UNCHANGED <<alive, conns, node, wing, pc, cur>>,
           map' \in [Wings -> Nodes \union {None}], young' \subseteq Wings,
           syncs' \in [Edges -> Seq(Sync)], \A e \in Edges : Len(syncs'[e]) <= faults' + 1,
           reports' \subseteq reports, known' \subseteq Conns,
           \A k \in known' : Connected(k), faults' \in 0..MaxFaults
    PROVE  Types' /\ Placed'
<1>1. \A e \in Edges : Len(syncs'[e]) <= MaxFaults + 1 /\ syncs'[e] \in Seq(Sync)
  <2>1. \A e \in Edges : Len(syncs'[e]) \in Nat
    BY LenProperties
  <2>2. faults' \in Nat /\ faults' <= MaxFaults /\ MaxFaults \in Nat
    BY ClusterAssumption
  <2> QED  BY <2>1, <2>2
<1>2. \A k \in Conns : Connected(k)' <=> Connected(k)
  BY DEF Connected
<1>3. CurUp'
  BY <1>2, Known DEF CurUp, Connected
<1>4. reports' \subseteq Conns /\ \A k \in reports' : k <= conns
  BY Known DEF IInv, Types
<1>5. TypeOK'
  BY <1>1, <1>3, <1>4 DEF IInv, Types, TypeOK, CurUp
<1>6. Types'
  BY <1>2, <1>4, <1>5 DEF IInv, Types
<1>7. Placed'
  BY <1>2 DEF IInv, Placed
<1> QED  BY <1>6, <1>7

LEMMA Bounds ==
    ASSUME IInv
    PROVE  /\ faults \in 0..MaxFaults /\ MaxFaults \in Nat
           /\ \A e \in Edges : /\ syncs[e] \in Seq(Sync) /\ Len(syncs[e]) \in Nat
                               /\ Len(syncs[e]) <= faults + 1
  BY ClusterAssumption, LenProperties DEF IInv, Types, TypeOK

LEMMA OnlineInv == ASSUME IInv, NEW k \in Conns, Online(k) PROVE IInv'
<1>1. /\ pc[k] = "online" /\ Connected(k)
      /\ UNCHANGED <<alive, conns, node, wing, cur, faults>>
  BY DEF Online, Connected
<1>2. CASE node[k] # Login
  <2>1. /\ pc' = [pc EXCEPT ![k] = "calling"] /\ reports' = reports \union {k}
        /\ UNCHANGED <<map, young, syncs, known>>
    BY <1>2 DEF Online, mapVars
  <2> QED  BY <1>1, <2>1, StaysUp
<1>3. CASE node[k] = Login
  <2>1. /\ pc' = [pc EXCEPT ![k] = "up"] /\ Register(wing[k], Login)
        /\ known' = known \union {k} /\ reports' = reports
    BY <1>3 DEF Online
  <2>2. wing[k] \in Wings /\ Login \in Nodes /\ k \in 1..conns
    BY <1>1, Known, ConnsAre DEF Nodes
  <2>3. /\ known' \subseteq 1..conns
        /\ \A j \in known' : j \in known \/ (wing[j] = wing[k] /\ node[j] = Login)
    <3>1. known \subseteq 1..conns
      BY Known, ConnsAre
    <3> QED  BY <1>3, <2>1, <2>2, <3>1
  <2>4. /\ map' \in [Wings -> Nodes \union {None}] /\ young' \subseteq Wings
        /\ syncs' \in [Edges -> Seq(Sync)]
        /\ \A e \in Edges : Len(syncs'[e]) = Len(syncs[e])
        /\ Listed' /\ Covered' /\ RegisteredStays'
    <3>1. UNCHANGED <<conns, node, wing>>
      BY <1>1
    <3> QED  BY <1>3, <2>1, <2>2, <2>3, <3>1, Registers
  <2>5. \A j \in Conns : Connected(j)' <=> Connected(j)
    BY <1>1, <2>1, Known DEF Connected
  <2>6. CurUp'
    BY <1>1, <2>5, Known DEF CurUp, Connected
  <2>7. \A e \in Edges : /\ Len(syncs'[e]) <= faults + 1 /\ Len(syncs'[e]) <= MaxFaults + 1
                         /\ syncs'[e] \in Seq(Sync)
    BY <2>4, Bounds
  <2>8. Types'
    <3>1. pc' \in [Conns -> Stages] /\ \A j \in Conns : pc'[j] = "none" <=> pc[j] = "none"
      BY <1>1, <2>1, Known DEF Stages
    <3>2. known' \subseteq Conns /\ \A j \in known' : Connected(j)'
      BY <1>1, <2>1, <2>5, Known
    <3>3. TypeOK'
      BY <1>1, <2>1, <2>4, <2>6, <2>7, <3>1, <3>2 DEF IInv, Types, TypeOK, CurUp, Stages
    <3> QED  BY <1>1, <2>1, <2>4, <2>7, <3>1, <3>2, <3>3 DEF IInv, Types
  <2>9. Placed'
    BY <1>1, <2>1, <2>5, Known DEF IInv, Placed
  <2> QED  BY <2>4, <2>8, <2>9 DEF IInv
<1> QED  BY <1>2, <1>3

LEMMA LoginRegistersInv == ASSUME IInv, NEW k \in Conns, LoginRegisters(k) PROVE IInv'
<1>1. /\ k \in reports /\ reports' = reports \ {k} /\ Register(wing[k], node[k])
      /\ known' = known \union (IF Connected(k) THEN {k} ELSE {})
      /\ UNCHANGED <<alive, conns, node, wing, pc, cur, faults>>
  BY DEF LoginRegisters, connVars
<1>2. wing[k] \in Wings /\ node[k] \in Nodes /\ k \in 1..conns /\ known \subseteq 1..conns
  BY <1>1, Known, ConnsAre
<1>3. /\ known' \subseteq 1..conns /\ known' \subseteq Conns /\ \A j \in known' : Connected(j)
      /\ \A j \in known' : j \in known \/ (wing[j] = wing[k] /\ node[j] = node[k])
  BY <1>1, <1>2, Known
<1>4. /\ map' \in [Wings -> Nodes \union {None}] /\ young' \subseteq Wings
      /\ syncs' \in [Edges -> Seq(Sync)]
      /\ \A e \in Edges : Len(syncs'[e]) = Len(syncs[e])
      /\ Listed' /\ Covered' /\ RegisteredStays'
  <2>1. UNCHANGED <<conns, node, wing>>
    BY <1>1
  <2> QED  BY <1>1, <1>2, <1>3, <2>1, Registers
<1>5. faults' \in 0..MaxFaults /\ \A e \in Edges : Len(syncs'[e]) <= faults' + 1
  BY <1>1, <1>4, Bounds
<1> QED  BY <1>1, <1>3, <1>4, <1>5, MapTypes DEF IInv

\* Wings leave the map, none of them one that is known to have stayed.
LEMMA DropStep ==
    ASSUME IInv, NEW ws \in SUBSET Wings, Drop(ws), UNCHANGED <<conns, node, wing>>,
           known' \subseteq known, \A k \in known' : Connected(k)' => Connected(k),
           \A k \in known' : Settled(k) /\ map[wing[k]] = node[k] => wing[k] \notin ws
    PROVE  /\ map' \in [Wings -> Nodes \union {None}] /\ young' \subseteq Wings
           /\ RegisteredStays'
<1>1. map' = [w \in Wings |-> IF w \in ws THEN None ELSE map[w]] /\ young' = young \ ws
  BY DEF Drop
<1>2. map' \in [Wings -> Nodes \union {None}] /\ young' \subseteq Wings
  BY <1>1, Known
<1>3. RegisteredStays'
  <2> SUFFICES ASSUME NEW k \in known', Connected(k), Settled(k) PROVE map'[wing[k]] = node[k]
    BY DEF RegisteredStays, Settled
  <2>1. map[wing[k]] = node[k] /\ wing[k] \in Wings
    BY Known DEF IInv, RegisteredStays, Settled
  <2> QED  BY <1>1, <2>1
<1> QED  BY <1>2, <1>3

LEMMA DeregisterOfflineInv == ASSUME IInv, NEW k \in Conns, DeregisterOffline(k) PROVE IInv'
<1>1. /\ pc[k] = "dereg" /\ Drop({wing[k]}) /\ syncs' = syncs
      /\ pc' = [pc EXCEPT ![k] = "gone"]
      /\ UNCHANGED <<alive, conns, node, wing, cur, reports, known, faults>>
  BY DEF DeregisterOffline, Deregister
<1>2. /\ node[k] = Login /\ wing[k] \in Wings /\ k \in 1..conns
  BY <1>1, Known, ConnsAre DEF IInv, Types, Placed
<1>3. \A j \in Conns : Connected(j)' <=> Connected(j)
  BY <1>1, Known DEF Connected
<1>4. /\ map' \in [Wings -> Nodes \union {None}] /\ young' \subseteq Wings
      /\ RegisteredStays'
  <2>1. \A j \in known : Settled(j) => wing[j] \notin {wing[k]}
    BY <1>2 DEF Settled
  <2>2. known' \subseteq known /\ \A j \in known' : Connected(j)' => Connected(j)
    BY <1>1, <1>3, Known
  <2>3. UNCHANGED <<conns, node, wing>> /\ {wing[k]} \in SUBSET Wings
    BY <1>1, <1>2
  <2> QED  BY <1>1, <2>1, <2>2, <2>3, DropStep
<1>5. CurUp'
  BY <1>1, <1>3, Known DEF CurUp, Connected
<1>6. Types'
  <2>1. pc' \in [Conns -> Stages] /\ \A j \in Conns : pc'[j] = "none" <=> pc[j] = "none"
    BY <1>1, Known DEF Stages
  <2>2. TypeOK'
    BY <1>1, <1>4, <1>5, <2>1 DEF IInv, Types, TypeOK, CurUp, Stages
  <2> QED  BY <1>1, <1>3, <2>1, <2>2, Known DEF IInv, Types
<1>7. Placed'
  BY <1>1, <1>3, Known DEF IInv, Placed
<1>8. Listed' /\ Covered'
  BY <1>1 DEF IInv, Listed, Covered, Settled
<1> QED  BY <1>4, <1>6, <1>7, <1>8 DEF IInv
(* Syncs *)

\* Only syncs change, and each was there or lists nothing yet.
LEMMA SyncsStep ==
    ASSUME IInv, UNCHANGED <<conns, node, wing>>, known' \subseteq known,
           \A e \in Edges : \A m \in Elems(syncs'[e]) :
               m \in Elems(syncs[e]) \/ (m.stage = "begun" /\ m.wings = {} /\ m.todo = {})
    PROVE  Listed' /\ Covered'
<1>1. Listed'
  BY DEF IInv, Listed
<1>2. Covered'
  <2> SUFFICES ASSUME NEW k \in known', Settled(k), NEW m \in Elems(syncs'[node[k]]),
                      m.stage = "sent"
               PROVE  wing[k] \in m.wings \union m.newer
    BY DEF Covered, Settled
  <2>1. node[k] \in Edges
    BY Known DEF Settled, Nodes
  <2>2. m \in Elems(syncs[node[k]])
    BY <2>1
  <2> QED  BY <2>2 DEF IInv, Covered
<1> QED  BY <1>1, <1>2

\* The map does not change either.
LEMMA MapStays ==
    ASSUME IInv, UNCHANGED <<conns, node, wing, map>>, known' \subseteq known
    PROVE  RegisteredStays'
  BY Known DEF IInv, RegisteredStays

LEMMA SnapshotInv == ASSUME IInv, NEW e \in Edges, Snapshot(e) PROVE IInv'
<1> DEFINE x == [stage |-> "begun", wings |-> {}, todo |-> {}, newer |-> {w \in young : map[w] = e}]
<1>1. /\ syncs' = [syncs EXCEPT ![e] = Append(@, x)]
      /\ UNCHANGED <<alive, conns, node, wing, pc, cur, map, young, reports, known>>
      /\ \/ syncs[e] = <<>> /\ faults' = faults
         \/ faults < MaxFaults /\ faults' = faults + 1
  BY DEF Snapshot, connVars
<1>2. x \in Sync /\ x.stage = "begun" /\ x.wings = {} /\ x.todo = {}
  BY Known DEF Sync
<1> HIDE DEF x
<1>3. /\ Append(syncs[e], x) \in Seq(Sync) /\ Len(Append(syncs[e], x)) = Len(syncs[e]) + 1
      /\ Elems(Append(syncs[e], x)) \subseteq Elems(syncs[e]) \union {x}
  BY <1>2, Bounds, OneMore
<1>4. /\ syncs' \in [Edges -> Seq(Sync)] /\ Len(syncs'[e]) = Len(syncs[e]) + 1
      /\ Elems(syncs'[e]) \subseteq Elems(syncs[e]) \union {x}
      /\ \A d \in Edges : d # e => syncs'[d] = syncs[d]
  BY <1>1, <1>3 DEF IInv, Types
<1>5. faults' \in 0..MaxFaults /\ \A d \in Edges : Len(syncs'[d]) <= faults' + 1
  <2>1. CASE syncs[e] = <<>> /\ faults' = faults
    <3>1. Len(syncs'[e]) = 1
      BY <1>4, <2>1, EmptySeq
    <3>2. /\ faults \in 0..MaxFaults /\ faults \in Nat
          /\ \A d \in Edges : Len(syncs[d]) <= faults + 1
      BY Bounds
    <3>3. ASSUME NEW d \in Edges PROVE Len(syncs'[d]) <= faults + 1
      <4>1. CASE d = e
        <5>1. 1 <= faults + 1
          BY <3>2
        <5> QED  BY <3>1, <4>1, <5>1
      <4>2. CASE d # e
        BY <1>4, <3>2, <4>2
      <4> QED  BY <4>1, <4>2
    <3> QED  BY <2>1, <3>2, <3>3
  <2>2. CASE faults < MaxFaults /\ faults' = faults + 1
    BY <1>4, <2>2, Bounds
  <2> QED  BY <1>1, <2>1, <2>2
<1>6. Types' /\ Placed'
  <2>1. /\ map' \in [Wings -> Nodes \union {None}] /\ young' \subseteq Wings
        /\ known' \subseteq Conns /\ \A k \in known' : Connected(k)
    BY <1>1, Known
  <2> QED  BY <1>1, <1>4, <1>5, <2>1, MapTypes
<1>7. Listed' /\ Covered'
  BY <1>1, <1>2, <1>4, SyncsStep
<1> QED  BY <1>1, <1>6, <1>7, MapStays DEF IInv

LEMMA CollectInv == ASSUME IInv, NEW e \in Edges, Collect(e) PROVE IInv'
<1> DEFINE here == {wing[k] : k \in {j \in Conns : Connected(j) /\ node[j] = e}}
           q == syncs[e]
           y == [q[Len(q)] EXCEPT !.stage = "sent"]
           z == [y EXCEPT !.wings = here]
           x == [z EXCEPT !.todo = here]
<1>1. /\ q # <<>> /\ syncs' = [syncs EXCEPT ![e] = [q EXCEPT ![Len(q)] = x]]
      /\ UNCHANGED <<alive, conns, node, wing, pc, cur, map, young, reports, known, faults>>
  BY DEF Collect, Begun, connVars
<1>2. Len(q) \in 1..Len(q) /\ q[Len(q)] \in Sync /\ q \in Seq(Sync)
  BY <1>1, Bounds, EmptySeq, ElementOfSeq
<1>3. here \subseteq Wings
  BY Known
<1> HIDE DEF here
<1>4. y \in Sync
  BY <1>2 DEF Sync
<1> HIDE DEF y
<1>5. z \in Sync /\ z.wings = here
  BY <1>3, <1>4 DEF Sync
<1> HIDE DEF z
<1>6. x \in Sync /\ x.wings = here /\ x.todo = here
  BY <1>3, <1>5 DEF Sync
<1> HIDE DEF x
<1>7. /\ [q EXCEPT ![Len(q)] = x] \in Seq(Sync) /\ Len([q EXCEPT ![Len(q)] = x]) = Len(q)
      /\ Elems([q EXCEPT ![Len(q)] = x]) \subseteq Elems(q) \union {x}
  BY <1>2, <1>6, OneOther
<1>8. /\ syncs' \in [Edges -> Seq(Sync)] /\ Len(syncs'[e]) = Len(syncs[e])
      /\ Elems(syncs'[e]) \subseteq Elems(syncs[e]) \union {x}
      /\ \A d \in Edges : d # e => syncs'[d] = syncs[d]
  BY <1>1, <1>7 DEF IInv, Types
<1>9. Types' /\ Placed'
  <2>1. /\ map' \in [Wings -> Nodes \union {None}] /\ young' \subseteq Wings
        /\ known' \subseteq Conns /\ \A k \in known' : Connected(k)
    BY <1>1, Known
  <2>2. faults' \in 0..MaxFaults /\ \A d \in Edges : Len(syncs'[d]) <= faults' + 1
    BY <1>1, <1>8, Bounds
  <2> QED  BY <1>1, <1>8, <2>1, <2>2, MapTypes
<1>10. Listed'
  <2> SUFFICES ASSUME NEW d \in Edges, NEW m \in Elems(syncs'[d]), NEW v \in m.wings \union m.todo
               PROVE  \E j \in 1..conns : wing[j] = v /\ node[j] = d
    BY <1>1 DEF Listed
  <2>1. CASE m \in Elems(syncs[d])
    BY <2>1 DEF IInv, Listed
  <2>2. CASE m \notin Elems(syncs[d])
    <3>1. m = x /\ d = e
      BY <1>8, <2>2
    <3>2. PICK k \in Conns : Connected(k) /\ node[k] = e /\ wing[k] = v
      BY <1>6, <3>1 DEF here
    <3>3. k \in 1..conns
      BY <3>2, Known, ConnsAre
    <3> QED  BY <3>1, <3>2, <3>3
  <2> QED  BY <2>1, <2>2
<1>11. Covered'
  <2> SUFFICES ASSUME NEW k \in known, Settled(k), NEW m \in Elems(syncs'[node[k]]),
                      m.stage = "sent"
               PROVE  wing[k] \in m.wings \union m.newer
    BY <1>1 DEF Covered, Settled
  <2>1. node[k] \in Edges /\ Connected(k) /\ k \in Conns
    BY Known DEF Settled, Nodes
  <2>2. CASE m \in Elems(syncs[node[k]])
    BY <2>2 DEF IInv, Covered
  <2>3. CASE m \notin Elems(syncs[node[k]])
    <3>1. m = x /\ node[k] = e
      BY <1>8, <2>1, <2>3
    <3>2. wing[k] \in here
      BY <2>1, <3>1 DEF here
    <3> QED  BY <1>6, <3>1, <3>2
  <2> QED  BY <2>2, <2>3
<1> QED  BY <1>1, <1>9, <1>10, <1>11, MapStays DEF IInv

LEMMA AbsorbInv ==
    ASSUME IInv, NEW e \in Edges, NEW i \in DOMAIN syncs[e], Absorb(e, i) PROVE IInv'
<1> DEFINE n(w) == Newer(syncs, w, e)
<1> DEFINE here(w) == {k \in Conns : Connected(k) /\ wing[k] = w /\ node[k] = e}
<1>1. PICK w \in syncs[e][i].todo :
        /\ map' = [map EXCEPT ![w] = e] /\ young' = young \union {w}
        /\ syncs' = [n(w) EXCEPT ![e][i].todo = @ \ {w}]
        /\ known' = known \union here(w)
  BY DEF Absorb
<1>2. UNCHANGED <<alive, conns, node, wing, pc, cur, reports, faults>>
  BY DEF Absorb, connVars
<1> DEFINE q == n(w)
           x == [q[e][i] EXCEPT !.todo = @ \ {w}]
<1>3. /\ i \in 1..Len(syncs[e]) /\ syncs[e][i] \in Sync /\ syncs[e][i] \in Elems(syncs[e])
      /\ w \in Wings /\ e \in Nodes
  <2>1. i \in 1..Len(syncs[e])
    BY Bounds, LenProperties
  <2>2. syncs[e][i] \in Sync
    BY <2>1, Bounds, ElementOfSeq
  <2>3. w \in Wings
    BY <2>2 DEF Sync
  <2> QED  BY <2>1, <2>2, <2>3 DEF Elems, Nodes
<1>4. \E j \in 1..conns : wing[j] = w /\ node[j] = e
  BY <1>3 DEF IInv, Listed
<1>5. /\ q \in [Edges -> Seq(Sync)]
      /\ \A d \in Edges : Len(q[d]) = Len(syncs[d])
      /\ \A d \in Edges : \A m1 \in Elems(q[d]) :
            \E m \in Elems(syncs[d]) : m1 \in Sync /\ Was(d, w, e, m1, m)
  BY <1>3, NewerSyncs
<1> HIDE DEF n, q
<1>6. q[e] \in Seq(Sync) /\ i \in 1..Len(q[e]) /\ q[e][i] \in Sync /\ q[e][i] \in Elems(q[e])
  <2>1. i \in 1..Len(q[e]) /\ q[e] \in Seq(Sync)
    BY <1>3, <1>5
  <2> QED  BY <2>1, ElementOfSeq DEF Elems
<1>7. syncs' = [q EXCEPT ![e] = [q[e] EXCEPT ![i] = x]]
  BY <1>1 DEF q
<1>8. /\ x \in Sync /\ x.stage = q[e][i].stage /\ x.wings = q[e][i].wings
      /\ x.newer = q[e][i].newer /\ x.todo \subseteq q[e][i].todo
  BY <1>6 DEF Sync
<1> HIDE DEF x
<1>9. /\ [q[e] EXCEPT ![i] = x] \in Seq(Sync) /\ Len([q[e] EXCEPT ![i] = x]) = Len(q[e])
      /\ Elems([q[e] EXCEPT ![i] = x]) \subseteq Elems(q[e]) \union {x}
  BY <1>6, <1>8, OneOther
<1>10. /\ syncs' \in [Edges -> Seq(Sync)] /\ \A d \in Edges : Len(syncs'[d]) = Len(syncs[d])
       /\ Elems(syncs'[e]) \subseteq Elems(q[e]) \union {x}
       /\ \A d \in Edges : d # e => syncs'[d] = q[d]
  BY <1>5, <1>7, <1>9
<1>11. \A d \in Edges : \A m1 \in Elems(syncs'[d]) :
          \E m \in Elems(syncs[d]) : Was(d, w, e, m1, m)
  <2> SUFFICES ASSUME NEW d \in Edges, NEW m1 \in Elems(syncs'[d])
               PROVE  \E m \in Elems(syncs[d]) : Was(d, w, e, m1, m)
    OBVIOUS
  <2>1. CASE m1 \in Elems(q[d])
    BY <1>5, <2>1
  <2>2. CASE m1 \notin Elems(q[d])
    <3>1. d = e /\ m1 = x
      BY <1>10, <2>2
    <3>2. PICK m \in Elems(syncs[e]) : Was(e, w, e, q[e][i], m)
      BY <1>5, <1>6
    <3>3. Was(e, w, e, x, m)
      BY <1>8, <3>2 DEF Was
    <3> QED  BY <3>1, <3>3
  <2> QED  BY <2>1, <2>2
<1>12. /\ known' \subseteq 1..conns /\ known' \subseteq Conns /\ \A k \in known' : Connected(k)
       /\ \A k \in known' : k \in known \/ (wing[k] = w /\ node[k] = e)
  <2>1. known \subseteq 1..conns /\ here(w) \subseteq 1..conns
    BY Known, ConnsAre
  <2> QED  BY <1>1, <2>1, Known
<1>13. /\ map' \in [Wings -> Nodes \union {None}] /\ young' \subseteq Wings
       /\ Listed' /\ Covered' /\ RegisteredStays'
  <2>1. /\ map' = [map EXCEPT ![w] = e] /\ young' = young \union {w}
        /\ UNCHANGED <<conns, node, wing>>
    BY <1>1, <1>2
  <2> HIDE DEF here
  <2> QED  BY <1>3, <1>4, <1>11, <1>12, <2>1, RegisterStep
<1>14. Types' /\ Placed'
  <2>1. faults' \in 0..MaxFaults /\ \A d \in Edges : Len(syncs'[d]) <= faults' + 1
    BY <1>2, <1>10, Bounds
  <2> QED  BY <1>2, <1>10, <1>12, <1>13, <2>1, MapTypes
<1> QED  BY <1>13, <1>14 DEF IInv

\* A sync ends: reconciled, or lost.
LEMMA SyncEnds ==
    ASSUME IInv, NEW e \in Edges, NEW i \in DOMAIN syncs[e],
           syncs' = [syncs EXCEPT ![e] = RemoveAt(@, i)],
           UNCHANGED <<alive, conns, node, wing, pc, cur, reports, known>>,
           map' \in [Wings -> Nodes \union {None}], young' \subseteq Wings,
           faults' \in faults..MaxFaults, RegisteredStays'
    PROVE  IInv'
<1>1. i \in 1..Len(syncs[e]) /\ syncs[e] \in Seq(Sync)
  BY Bounds, LenProperties
<1>2. /\ RemoveAt(syncs[e], i) \in Seq(Sync) /\ Len(RemoveAt(syncs[e], i)) <= Len(syncs[e])
      /\ Elems(RemoveAt(syncs[e], i)) \subseteq Elems(syncs[e])
  BY <1>1, OneLess
<1>3. /\ syncs' \in [Edges -> Seq(Sync)] /\ Len(syncs'[e]) <= Len(syncs[e])
      /\ \A d \in Edges : Elems(syncs'[d]) \subseteq Elems(syncs[d])
      /\ \A d \in Edges : d # e => syncs'[d] = syncs[d]
  BY <1>2 DEF IInv, Types
<1>4. faults' \in 0..MaxFaults /\ \A d \in Edges : Len(syncs'[d]) <= faults' + 1
  <2>1. \A d \in Edges : Len(syncs'[d]) \in Nat
    BY <1>3, LenProperties
  <2> QED  BY <1>3, <2>1, Bounds
<1>5. Types' /\ Placed'
  <2>1. known' \subseteq Conns /\ \A k \in known' : Connected(k)
    BY Known
  <2> QED  BY <1>3, <1>4, <2>1, MapTypes
<1>6. Listed' /\ Covered'
  <2>1. \A d \in Edges : \A m \in Elems(syncs'[d]) : m \in Elems(syncs[d])
    BY <1>3
  <2> QED  BY <2>1, SyncsStep
<1> QED  BY <1>5, <1>6 DEF IInv

LEMMA ReconcileInv ==
    ASSUME IInv, NEW e \in Edges, NEW i \in DOMAIN syncs[e], Reconcile(e, i) PROVE IInv'
<1> DEFINE m == syncs[e][i]
           ws == {w \in Wings : map[w] = e /\ w \notin m.wings \union m.newer}
<1>1. /\ m.stage = "sent" /\ Drop(ws) /\ syncs' = [syncs EXCEPT ![e] = RemoveAt(@, i)]
      /\ UNCHANGED <<alive, conns, node, wing, pc, cur, reports, known, faults>>
  BY DEF Reconcile, Sent, connVars
<1>2. m \in Elems(syncs[e])
  <2>1. i \in 1..Len(syncs[e])
    BY Bounds, LenProperties
  <2> QED  BY <2>1 DEF Elems
<1>3. \A k \in known : Settled(k) /\ map[wing[k]] = node[k] => wing[k] \notin ws
  <2> SUFFICES ASSUME NEW k \in known, Settled(k), map[wing[k]] = node[k], wing[k] \in ws
               PROVE  FALSE
    OBVIOUS
  <2>1. node[k] = e
    OBVIOUS
  <2> QED  BY <1>1, <1>2, <2>1 DEF IInv, Covered
<1> HIDE DEF m
<1>4. /\ map' \in [Wings -> Nodes \union {None}] /\ young' \subseteq Wings /\ RegisteredStays'
  <2>1. \A k \in known' : Connected(k)' => Connected(k)
    BY <1>1, Known
  <2>2. ws \in SUBSET Wings
    OBVIOUS
  <2> HIDE DEF ws
  <2> QED  BY <1>1, <1>3, <2>1, <2>2, DropStep
<1>5. faults' \in faults..MaxFaults
  BY <1>1, Bounds
<1> QED  BY <1>1, <1>4, <1>5, SyncEnds

LEMMA LoseSyncInv ==
    ASSUME IInv, NEW e \in Edges, NEW i \in DOMAIN syncs[e], LoseSync(e, i) PROVE IInv'
<1>1. /\ faults < MaxFaults /\ faults' = faults + 1 /\ syncs' = [syncs EXCEPT ![e] = RemoveAt(@, i)]
      /\ UNCHANGED <<alive, conns, node, wing, pc, cur, map, young, reports, known>>
  BY DEF LoseSync, connVars
<1>2. /\ map' \in [Wings -> Nodes \union {None}] /\ young' \subseteq Wings
      /\ faults' \in faults..MaxFaults /\ RegisteredStays'
  BY <1>1, Known, Bounds, MapStays
<1> QED  BY <1>1, <1>2, SyncEnds
LEMMA TickInv == ASSUME IInv, Tick PROVE IInv'
<1>1. /\ young' = {} /\ UNCHANGED <<alive, conns, node, wing, pc, cur, map, syncs, reports, known, faults>>
  BY DEF Tick, connVars
<1>2. Types' /\ Placed'
  <2>1. /\ map' \in [Wings -> Nodes \union {None}] /\ young' \subseteq Wings
        /\ known' \subseteq Conns /\ \A k \in known' : Connected(k)
    BY <1>1, Known
  <2>2. syncs' \in [Edges -> Seq(Sync)]
    BY <1>1 DEF IInv, Types
  <2>3. faults' \in 0..MaxFaults /\ \A d \in Edges : Len(syncs'[d]) <= faults' + 1
    BY <1>1, Bounds
  <2> QED  BY <1>1, <2>1, <2>2, <2>3, MapTypes
<1>3. Listed' /\ Covered'
  BY <1>1, SyncsStep
<1> QED  BY <1>1, <1>2, <1>3, MapStays DEF IInv

LEMMA BroadcastInv == ASSUME IInv, Broadcast PROVE IInv'
<1>1. PICK silent \in SUBSET Nodes :
        /\ EdgeIDs(silent) /\ known' = {k \in known : node[k] \notin silent}
        /\ silent \intersect alive = {} \/ faults < MaxFaults
        /\ faults' = IF silent \intersect alive = {} THEN faults ELSE faults + 1
  BY DEF Broadcast
<1>2. UNCHANGED <<alive, conns, node, wing, pc, cur, reports>>
  BY DEF Broadcast, connVars
<1> DEFINE ws == {w \in Wings : map[w] \in silent}
<1>3. Drop(ws) /\ syncs' = syncs
  BY <1>1 DEF EdgeIDs
<1>4. \A k \in known' : Settled(k) /\ map[wing[k]] = node[k] => wing[k] \notin ws
  BY <1>1
<1>5. ws \in SUBSET Wings /\ known' \subseteq known
  BY <1>1
<1>6. faults \in 0..MaxFaults /\ faults' \in faults..MaxFaults
  BY <1>1, Bounds
<1> HIDE DEF ws
<1>7. /\ map' \in [Wings -> Nodes \union {None}] /\ young' \subseteq Wings
      /\ RegisteredStays'
  <2>1. \A k \in known' : Connected(k)' => Connected(k)
    BY <1>2 DEF Connected
  <2> QED  BY <1>2, <1>3, <1>4, <1>5, <2>1, DropStep
<1>8. Types' /\ Placed'
  <2>1. known' \subseteq Conns /\ \A k \in known' : Connected(k)
    BY <1>5, Known
  <2>2. syncs' \in [Edges -> Seq(Sync)]
    BY <1>3 DEF IInv, Types
  <2>3. faults' \in 0..MaxFaults /\ \A d \in Edges : Len(syncs'[d]) <= faults' + 1
    <3>1. faults' \in 0..MaxFaults
      BY <1>6, Bounds
    <3>2. \A d \in Edges : Len(syncs[d]) <= faults' + 1
      BY <1>6, Bounds
    <3> QED  BY <1>3, <3>1, <3>2
  <2> QED  BY <1>2, <1>7, <2>1, <2>2, <2>3, MapTypes
<1>9. Listed' /\ Covered'
  BY <1>2, <1>3, <1>5, SyncsStep
<1> QED  BY <1>7, <1>8, <1>9 DEF IInv

(* Failures *)

\* A node is gone with its connections; what login is told is no more than before.
LEMMA DiesStep ==
    ASSUME IInv, NEW n \in Nodes, Dies(n), alive \ {n} \subseteq alive', alive' \subseteq Edges,
           map' \in [Wings -> Nodes \union {None}], young' \subseteq Wings,
           reports' \subseteq reports, known' \subseteq {k \in known : node[k] # n},
           syncs' \in [Edges -> Seq(Sync)],
           \A e \in Edges : Len(syncs'[e]) <= Len(syncs[e]) /\ Elems(syncs'[e]) \subseteq Elems(syncs[e])
    PROVE  Types' /\ Placed' /\ Listed' /\ Covered'
<1> DEFINE dead == {k \in Conns : node[k] = n /\ pc[k] # "none"}
<1>1. /\ faults < MaxFaults /\ faults' = faults + 1 /\ UNCHANGED <<conns, node, wing>>
      /\ pc' = [k \in Conns |-> IF k \in dead THEN "gone" ELSE pc[k]]
      /\ cur' = [w \in Wings |-> IF cur[w] \in dead THEN 0 ELSE cur[w]]
  BY DEF Dies
<1>2. /\ pc' \in [Conns -> Stages] /\ \A k \in Conns : pc'[k] = "none" <=> pc[k] = "none"
      /\ \A k \in Conns : Connected(k)' <=> (Connected(k) /\ k \notin dead)
      /\ \A k \in Conns : pc'[k] \in {"offline", "dereg"} => pc'[k] = pc[k]
  BY <1>1, Known DEF Stages, Connected
<1>3. /\ cur' \in [Wings -> Conns \union {0}]
      /\ \A w \in Wings : cur'[w] # 0 => cur'[w] = cur[w] /\ cur[w] \notin dead
  BY <1>1, Known
<1>4. \A k \in Conns : node[k] = n /\ Connected(k) => k \in dead
  BY DEF Connected
<1> HIDE DEF dead
<1>5. CurUp'
  <2> SUFFICES ASSUME NEW w \in Wings, cur'[w] # 0
               PROVE  Connected(cur[w])' /\ wing[cur[w]] = w /\ cur'[w] = cur[w]
    BY <1>1 DEF CurUp, Connected
  <2>1. cur'[w] = cur[w] /\ cur[w] \notin dead /\ cur[w] \in Conns
    BY <1>3, Known
  <2>2. Connected(cur[w]) /\ wing[cur[w]] = w
    BY <2>1, Known, ConnsAre DEF CurUp
  <2>3. \A k \in Conns : Connected(k) /\ k \notin dead => Connected(k)'
    BY <1>2
  <2>4. \A k \in Conns : cur[w] = k => Connected(cur[w])'
    <3> SUFFICES ASSUME NEW k \in Conns, cur[w] = k PROVE Connected(cur[w])'
      OBVIOUS
    <3>1. Connected(k)'
      BY <2>1, <2>2, <2>3
    <3> QED  BY <2>1, <3>1 DEF Connected
  <2> QED  BY <2>1, <2>2, <2>4
<1>6. known' \subseteq Conns /\ \A k \in known' : Connected(k)'
  <2>1. \A k \in known' : k \in Conns /\ Connected(k) /\ node[k] # n
    BY Known
  <2>2. \A k \in known' : k \notin dead
    BY <2>1 DEF dead
  <2> QED  BY <1>2, <2>1, <2>2
<1>7. faults' \in 0..MaxFaults /\ MaxFaults \in Nat
      /\ \A e \in Edges : Len(syncs'[e]) <= faults' + 1 /\ Len(syncs'[e]) <= MaxFaults + 1
  <2>1. \A e \in Edges : Len(syncs'[e]) \in Nat
    BY LenProperties
  <2>2. faults \in Nat /\ MaxFaults \in Nat
    BY Bounds
  <2>3. ASSUME NEW e \in Edges
        PROVE  Len(syncs'[e]) <= faults' + 1 /\ Len(syncs'[e]) <= MaxFaults + 1
    <3>1. Len(syncs'[e]) \in Nat /\ Len(syncs[e]) \in Nat /\ Len(syncs'[e]) <= Len(syncs[e])
          /\ Len(syncs[e]) <= faults + 1
      BY <2>1, Bounds
    <3> QED  BY <1>1, <2>2, <3>1
  <2>4. faults' \in 0..MaxFaults
    BY <1>1, <2>2
  <2> QED  BY <2>2, <2>3, <2>4
<1>8. Types'
  <2>1. reports' \subseteq Conns /\ \A k \in reports' : k <= conns
    BY Known DEF IInv, Types
  <2>2. TypeOK'
    BY <1>1, <1>2, <1>5, <1>6, <1>7, <2>1 DEF IInv, Types, TypeOK, CurUp, Stages
  <2> QED  BY <1>1, <1>2, <1>3, <1>6, <1>7, <2>1, <2>2 DEF IInv, Types
<1>9. Placed'
  <2> SUFFICES ASSUME NEW k \in Conns
               PROVE  /\ Connected(k)' => node'[k] \in alive' \union {Login}
                      /\ pc'[k] \in {"offline", "dereg"} => node'[k] = Login
    BY DEF Placed
  <2>1. Connected(k)' => node'[k] \in alive' \union {Login}
    BY <1>1, <1>2, <1>4 DEF IInv, Placed
  <2>2. pc'[k] \in {"offline", "dereg"} => node'[k] = Login
    BY <1>1, <1>2 DEF IInv, Placed
  <2> QED  BY <2>1, <2>2
<1>10. Listed' /\ Covered'
  <2>1. known' \subseteq known
    OBVIOUS
  <2> QED  BY <1>1, <2>1, SyncsStep
<1> QED  BY <1>8, <1>9, <1>10

LEMMA EdgeDiesInv == ASSUME IInv, NEW e \in Edges, EdgeDies(e) PROVE IInv'
<1>1. /\ Dies(e) /\ alive' = alive \ {e} /\ known' = {k \in known : node[k] # e}
      /\ UNCHANGED <<map, young, reports, conns, node, wing>>
      /\ syncs' = [syncs EXCEPT ![e] = IF Begun(e) THEN Front(@) ELSE @]
  BY DEF EdgeDies, Dies
<1>2. syncs \in [Edges -> Seq(Sync)] /\ \A d \in Edges : Len(syncs[d]) \in Nat
  BY LenProperties DEF IInv, Types
<1>3. /\ syncs' \in [Edges -> Seq(Sync)]
      /\ \A d \in Edges : Len(syncs'[d]) <= Len(syncs[d]) /\ Elems(syncs'[d]) \subseteq Elems(syncs[d])
  <2>1. CASE Begun(e)
    <3>1. syncs[e] # <<>>
      BY <2>1 DEF Begun
    <3>2. /\ Front(syncs[e]) \in Seq(Sync) /\ Len(Front(syncs[e])) <= Len(syncs[e])
          /\ Elems(Front(syncs[e])) \subseteq Elems(syncs[e])
      BY <1>2, <3>1, Fewer
    <3>3. syncs' = [syncs EXCEPT ![e] = Front(syncs[e])]
      BY <1>1, <2>1
    <3> QED  BY <1>2, <3>2, <3>3
  <2>2. CASE ~Begun(e)
    <3>1. syncs' = syncs
      BY <1>1, <1>2, <2>2
    <3> QED  BY <1>2, <3>1
  <2> QED  BY <2>1, <2>2
<1>4. /\ alive \ {e} \subseteq alive' /\ alive' \subseteq Edges /\ young' \subseteq Wings
      /\ map' \in [Wings -> Nodes \union {None}] /\ e \in Nodes /\ reports' \subseteq reports
      /\ known' \subseteq {k \in known : node[k] # e} /\ known' \subseteq known
  BY <1>1, Known DEF Nodes
<1>5. Types' /\ Placed' /\ Listed' /\ Covered'
  BY <1>1, <1>3, <1>4, DiesStep
<1>6. RegisteredStays'
  BY <1>1, <1>4, MapStays
<1> QED  BY <1>5, <1>6 DEF IInv

LEMMA EdgeReturnsInv == ASSUME IInv, NEW e \in Edges, EdgeReturns(e) PROVE IInv'
<1>1. /\ alive' = alive \union {e} /\ alive' \subseteq Edges
      /\ UNCHANGED <<conns, node, wing, pc, cur, map, young, syncs, reports, known, faults>>
  BY Known DEF EdgeReturns, connVars, mapVars
<1>2. \A k \in Conns : Connected(k)' <=> Connected(k)
  BY <1>1 DEF Connected
<1>3. CurUp'
  BY <1>1, Known DEF CurUp, Connected
<1>4. Types'
  BY <1>1, <1>2, <1>3, Known DEF IInv, Types, TypeOK, CurUp
<1>5. Placed'
  BY <1>1, <1>2 DEF IInv, Placed
<1>6. Listed' /\ Covered'
  BY <1>1, SyncsStep
<1> QED  BY <1>1, <1>4, <1>5, <1>6, MapStays DEF IInv

LEMMA LoginRestartsInv == ASSUME IInv, LoginRestarts PROVE IInv'
<1>1. /\ Dies(Login) /\ map' = [w \in Wings |-> None]
      /\ young' = {} /\ reports' = {} /\ known' = {} /\ alive' = alive
      /\ syncs' = [e \in Edges |-> IF Begun(e) THEN <<Last(syncs[e])>> ELSE <<>>]
  BY DEF LoginRestarts
<1>2. ASSUME NEW e \in Edges
      PROVE  /\ syncs'[e] \in Seq(Sync) /\ Len(syncs'[e]) <= Len(syncs[e])
             /\ Elems(syncs'[e]) \subseteq Elems(syncs[e])
  <2>1. syncs[e] \in Seq(Sync) /\ Len(syncs[e]) \in Nat
    BY Bounds
  <2>2. CASE Begun(e)
    <3>1. syncs[e] # <<>> /\ syncs'[e] = <<Last(syncs[e])>>
      BY <1>1, <2>2 DEF Begun
    <3> QED  BY <2>1, <3>1, Fewer
  <2>3. CASE ~Begun(e)
    <3>1. syncs'[e] = <<>>
      BY <1>1, <2>3
    <3>2. <<>> \in Seq(Sync) /\ Len(<<>>) = 0 /\ Elems(<<>>) = {}
      BY EmptySeq DEF Elems
    <3> QED  BY <2>1, <3>1, <3>2
  <2> QED  BY <2>2, <2>3
<1>3. syncs' \in [Edges -> Seq(Sync)]
  <2>1. DOMAIN syncs' = Edges /\ syncs' = [e \in Edges |-> syncs'[e]]
    BY <1>1
  <2> QED  BY <1>2, <2>1
<1>4. /\ alive \ {Login} \subseteq alive' /\ alive' \subseteq Edges /\ young' \subseteq Wings
      /\ map' \in [Wings -> Nodes \union {None}] /\ Login \in Nodes /\ reports' \subseteq reports
      /\ known' \subseteq {k \in known : node[k] # Login}
  BY <1>1, Known DEF Nodes
<1>5. Types' /\ Placed' /\ Listed' /\ Covered'
  BY <1>1, <1>2, <1>3, <1>4, DiesStep
<1>6. RegisteredStays'
  BY <1>1 DEF RegisteredStays
<1> QED  BY <1>5, <1>6 DEF IInv

LEMMA StutterInv == ASSUME IInv, UNCHANGED vars PROVE IInv'
<1>1. UNCHANGED <<alive, conns, node, wing, pc, cur, map, young, syncs, reports, known, faults>>
  BY DEF vars, connVars, mapVars
<1>2. \A k \in Conns : Connected(k)' <=> Connected(k)
  BY <1>1 DEF Connected
<1>3. CurUp'
  BY <1>1, Known DEF CurUp, Connected
<1>4. Types' /\ Placed'
  BY <1>1, <1>2, <1>3 DEF IInv, Types, TypeOK, CurUp, Placed
<1>5. Listed' /\ Covered'
  BY <1>1, SyncsStep
<1> QED  BY <1>1, <1>4, <1>5, MapStays DEF IInv

LEMMA StepInv == IInv /\ [Next]_vars => IInv'
<1> SUFFICES ASSUME IInv, [Next]_vars PROVE IInv'
  OBVIOUS
<1>1. ASSUME NEW w \in Wings, NEW n \in Nodes, Connect(w, n) PROVE IInv'
  BY <1>1, ConnectInv
<1>2. ASSUME NEW k \in Conns, Config(k) \/ Handles(k) \/ Disconnect(k) \/ LoseReport(k) PROVE IInv'
  <2>1. CASE Config(k) \/ Reported(k)  BY <2>1, ConfigReportedInv
  <2>2. CASE Online(k)                 BY <2>2, OnlineInv
  <2>3. CASE LoginRegisters(k)         BY <2>3, LoginRegistersInv
  <2>4. CASE CheckOffline(k)           BY <2>4, CheckOfflineInv
  <2>5. CASE DeregisterOffline(k)      BY <2>5, DeregisterOfflineInv
  <2>6. CASE Disconnect(k)             BY <2>6, DisconnectInv
  <2>7. CASE LoseReport(k)             BY <2>7, LoseReportInv
  <2> QED  BY <1>2, <2>1, <2>2, <2>3, <2>4, <2>5, <2>6, <2>7 DEF Handles
<1>3. ASSUME NEW e \in Edges, SyncStep(e) \/ EdgeDies(e) \/ EdgeReturns(e) PROVE IInv'
  <2>1. CASE Snapshot(e)     BY <2>1, SnapshotInv
  <2>2. CASE Collect(e)      BY <2>2, CollectInv
  <2>3. CASE EdgeDies(e)     BY <2>3, EdgeDiesInv
  <2>4. CASE EdgeReturns(e)  BY <2>4, EdgeReturnsInv
  <2> QED  BY <1>3, <2>1, <2>2, <2>3, <2>4 DEF SyncStep
<1>4. ASSUME NEW e \in Edges, NEW i \in DOMAIN syncs[e],
             Absorb(e, i) \/ Reconcile(e, i) \/ LoseSync(e, i)
      PROVE  IInv'
  <2>1. CASE Absorb(e, i)     BY <2>1, AbsorbInv
  <2>2. CASE Reconcile(e, i)  BY <2>2, ReconcileInv
  <2>3. CASE LoseSync(e, i)   BY <2>3, LoseSyncInv
  <2> QED  BY <1>4, <2>1, <2>2, <2>3
<1>5. CASE Tick            BY <1>5, TickInv
<1>6. CASE Broadcast       BY <1>6, BroadcastInv
<1>7. CASE LoginRestarts   BY <1>7, LoginRestartsInv
<1>8. CASE UNCHANGED vars  BY <1>8, StutterInv
<1> QED  BY <1>1, <1>2, <1>3, <1>4, <1>5, <1>6, <1>7, <1>8 DEF Next, LoginSyncs

LEMMA Invariant == Spec => []IInv
<1>1. IInv /\ [Next]_vars => IInv'
  BY StepInv
<1> QED  BY <1>1, InitInv, PTL DEF Spec

\* The registries, login's map and the syncs under way keep their types, and the
\* connection a wing uses is in its node's registry (workers.go).
THEOREM TypeCorrect == Spec => []TypeOK
<1>1. IInv => TypeOK
  BY DEF IInv, Types
<1> QED  BY <1>1, Invariant, PTL

\* Login's map keeps a registered wing for as long as it stays with one edge that
\* login hears of every 30 s, whatever syncs, reports and expiries of others are
\* applied in the meantime (wing_map.go).
THEOREM RegisteredStay == Spec => []RegisteredStays
<1>1. IInv => RegisteredStays
  BY DEF IInv
<1> QED  BY <1>1, Invariant, PTL
=============================================================================
