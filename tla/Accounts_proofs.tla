--------------------------- MODULE Accounts_proofs ---------------------------
(***************************************************************************)
(* What the relay keeps of its users.  Bandwidth: that traffic is counted   *)
(* once over all nodes and syncs, and login's cached tier is not stale, for *)
(* any number of edges.  OrgEntitlements: that nobody is a member uninvited *)
(* and that members, entitlements and tiers agree, for any users, seats,    *)
(* requests, failures and restarts.  Logins: that an identity, a link, a    *)
(* code and a session are used as they are meant to be, for any people,     *)
(* requests, caches and losses.                                             *)
(***************************************************************************)
EXTENDS Bandwidth, OrgEntitlements, Logins, FiniteSetTheorems, NaturalsInduction, TLAPS

(* Sums over finite sets *)

\* SumFunction takes the elements of its domain in the order CHOOSE gives.
Elem(T) == CHOOSE x \in T : TRUE
SumStep(f, g, T) == IF T = {} THEN 0 ELSE f[Elem(T)] + g[T \ {Elem(T)}]
Sums(f) == CHOOSE g : g = [T \in SUBSET DOMAIN f |-> SumStep(f, g, T)]

LEMMA SumIs == ASSUME NEW f PROVE SumFunction(f) = Sums(f)[DOMAIN f]
  BY DEF SumFunction, SumFunctionOnSet, FoldFunctionOnSet, MapThenFoldSet, Sums, SumStep, Elem

\* A smallest set of a collection of subsets of a finite set, and a smallest
\* number of a set of natural numbers.
LEMMA LeastSet ==
    ASSUME NEW S, IsFiniteSet(S), NEW C \in SUBSET SUBSET S, C # {}
    PROVE  \E T \in C : \A U \in C : U \subseteq T => U = T
<1>1. IsWellFoundedOn(StrictSubsetOrdering(S), SUBSET S)
  BY FS_StrictSubsetOrderingWellFounded, FS_FiniteSubsetsOfFinite
<1>2. PICK T \in C : \A U \in C : <<U, T>> \notin StrictSubsetOrdering(S)
  BY <1>1, WFMin
<1>3. ASSUME NEW U \in C, U \subseteq T PROVE U = T
  BY <1>2, <1>3 DEF StrictSubsetOrdering
<1> QED  BY <1>3

LEMMA LeastNat ==
    ASSUME NEW C \in SUBSET Nat, C # {}
    PROVE  \E n \in C : \A m \in C : n <= m
<1>1. \E R : IsWellFoundedOn(R, Nat) /\ \A m, n \in Nat : m < n => <<m, n>> \in R
  <2>1. \A m, n \in Nat : m < n => <<m, n>> \in OpToRel(<, Nat)
    BY DEF OpToRel
  <2>2. IsWellFoundedOn(OpToRel(<, Nat), Nat)
    BY NatLessThanWellFounded
  <2> QED  BY <2>1, <2>2, Zenon
<1>2. PICK R : IsWellFoundedOn(R, Nat) /\ \A m, n \in Nat : m < n => <<m, n>> \in R
  BY <1>1
<1>3. PICK n \in C : \A m \in C : ~ (<<m, n>> \in R)
  <2>1. C \subseteq Nat /\ IsWellFoundedOn(R, Nat)
    BY <1>2
  <2> QED  BY <2>1, WFMin
<1>4. ASSUME NEW m \in C PROVE n <= m
  <2>1. m \in Nat /\ n \in Nat
    OBVIOUS
  <2>2. ~ (m < n)
    BY <1>2, <1>3, <2>1
  <2> QED  BY <2>1, <2>2
<1> QED  BY <1>4

LEMMA Smaller ==
    ASSUME NEW S, IsFiniteSet(S), NEW T \in SUBSET S, T # {}
    PROVE  /\ Elem(T) \in T /\ T \ {Elem(T)} \in SUBSET S
           /\ Cardinality(T) \in Nat \ {0} /\ Cardinality(T \ {Elem(T)}) = Cardinality(T) - 1
<1>1. Elem(T) \in T
  BY DEF Elem
<1>2. IsFiniteSet(T)
  BY FS_Subset
<1> QED  BY <1>1, <1>2, FS_RemoveElement, FS_CardinalityType, FS_EmptySet

\* The recursion has a solution: a function that is right for sets of up to n
\* elements gives one that is right for sets of n + 1.
LEMMA SumsExist ==
    ASSUME NEW S, IsFiniteSet(S), NEW f \in [S -> Int]
    PROVE  \E g \in [SUBSET S -> Int] : \A T \in SUBSET S : g[T] = SumStep(f, g, T)
<1> DEFINE Right(g, n) ==
             \A T \in SUBSET S : Cardinality(T) <= n => g[T] = SumStep(f, g, T)
           Bad == {n \in Nat : ~ \E g \in [SUBSET S -> Int] : Right(g, n)}
<1>1. \A T \in SUBSET S : Cardinality(T) \in Nat /\ Cardinality(T) <= Cardinality(S)
  BY FS_Subset, FS_CardinalityType
<1>2. 0 \notin Bad
  <2> DEFINE g == [T \in SUBSET S |-> 0]
  <2>1. ASSUME NEW T \in SUBSET S, Cardinality(T) <= 0 PROVE g[T] = SumStep(f, g, T)
    <3>1. T = {}
      BY <1>1, <2>1, FS_EmptySet, FS_Subset
    <3> QED  BY <3>1 DEF SumStep
  <2>2. g \in [SUBSET S -> Int]
    OBVIOUS
  <2> QED  BY <2>1, <2>2
<1>3. ASSUME NEW n \in Nat, n \notin Bad PROVE n + 1 \notin Bad
  <2>1. PICK g \in [SUBSET S -> Int] : Right(g, n)
    BY <1>3
  <2> DEFINE h == [T \in SUBSET S |->
                      IF Cardinality(T) = n + 1 THEN SumStep(f, g, T) ELSE g[T]]
  <2>2. ASSUME NEW T \in SUBSET S, T # {}
        PROVE  /\ f[Elem(T)] \in Int /\ g[T \ {Elem(T)}] \in Int
               /\ Cardinality(T) <= n + 1 => h[T \ {Elem(T)}] = g[T \ {Elem(T)}]
    <3>1. /\ Elem(T) \in T /\ T \ {Elem(T)} \in SUBSET S /\ Cardinality(T) \in Nat
          /\ Cardinality(T \ {Elem(T)}) = Cardinality(T) - 1
      BY <2>2, Smaller
    <3>2. Cardinality(T) <= n + 1 => Cardinality(T \ {Elem(T)}) # n + 1
      BY <3>1
    <3> QED  BY <3>1, <3>2
  <2>3. h \in [SUBSET S -> Int]
    <3>1. \A T \in SUBSET S : SumStep(f, g, T) \in Int
      <4> SUFFICES ASSUME NEW T \in SUBSET S PROVE SumStep(f, g, T) \in Int
        OBVIOUS
      <4>1. T # {} => f[Elem(T)] \in Int /\ g[T \ {Elem(T)}] \in Int
        BY <2>2
      <4> HIDE DEF Right, Bad, h
      <4> QED  BY <4>1 DEF SumStep
    <3> QED  BY <3>1
  <2>4. ASSUME NEW T \in SUBSET S, Cardinality(T) <= n + 1 PROVE h[T] = SumStep(f, h, T)
    <3>1. SumStep(f, h, T) = SumStep(f, g, T)
      BY <2>2, <2>4 DEF SumStep
    <3>2. Cardinality(T) = n + 1 \/ Cardinality(T) <= n
      BY <1>1, <2>4
    <3>3. Cardinality(T) <= n => Cardinality(T) # n + 1 /\ g[T] = SumStep(f, g, T)
      BY <1>1, <2>1
    <3> QED  BY <3>1, <3>2, <3>3
  <2> QED  BY <2>3, <2>4
<1>4. Bad = {}
  <2> SUFFICES ASSUME Bad # {} PROVE FALSE
    OBVIOUS
  <2>1. Bad \in SUBSET Nat
    OBVIOUS
  <2> HIDE DEF Bad
  <2>2. PICK n \in Bad : \A m \in Bad : n <= m
    BY <2>1, LeastNat
  <2>3. n \in Nat /\ n # 0 /\ n - 1 \in Nat /\ n - 1 \notin Bad /\ (n - 1) + 1 = n
    BY <1>2, <2>1, <2>2
  <2> QED  BY <1>3, <2>2, <2>3
<1>5. PICK g \in [SUBSET S -> Int] : Right(g, Cardinality(S))
  BY <1>1, <1>4
<1> QED  BY <1>1, <1>5

LEMMA SumsAre ==
    ASSUME NEW S, IsFiniteSet(S), NEW f \in [S -> Int]
    PROVE  /\ Sums(f) \in [SUBSET S -> Int]
           /\ \A T \in SUBSET S : Sums(f)[T] = SumStep(f, Sums(f), T)
<1>1. PICK g \in [SUBSET S -> Int] : \A T \in SUBSET S : g[T] = SumStep(f, g, T)
  BY SumsExist
<1>2. g = [T \in SUBSET S |-> SumStep(f, g, T)]
  BY <1>1
<1>3. DOMAIN f = S
  OBVIOUS
<1>4. Sums(f) = [T \in SUBSET S |-> SumStep(f, Sums(f), T)]
  BY <1>2, <1>3 DEF Sums
<1> DEFINE s == Sums(f)
           Bad == {T \in SUBSET S : s[T] \notin Int}
<1> HIDE DEF s
<1>5. Bad = {}
  <2> SUFFICES ASSUME Bad # {} PROVE FALSE
    OBVIOUS
  <2>0. Bad \in SUBSET SUBSET S
    OBVIOUS
  <2> HIDE DEF Bad
  <2>1. PICK T \in Bad : \A U \in Bad : U \subseteq T => U = T
    BY <2>0, LeastSet
  <2> USE DEF Bad
  <2>2. T \in SUBSET S /\ s[T] = SumStep(f, s, T)
    BY <1>4 DEF s
  <2>3. T # {}
    BY <2>1, <2>2 DEF SumStep
  <2>4. s[T \ {Elem(T)}] \in Int /\ f[Elem(T)] \in Int
    <3>1. Elem(T) \in T /\ T \ {Elem(T)} \in SUBSET S
      BY <2>2, <2>3, Smaller
    <3>2. T \ {Elem(T)} \notin Bad
      BY <2>1, <3>1
    <3> QED  BY <2>2, <3>1, <3>2
  <2> QED  BY <2>1, <2>2, <2>3, <2>4 DEF SumStep
<1> QED  BY <1>4, <1>5 DEF s

\* Any element may be taken first.
LEMMA SumAny ==
    ASSUME NEW S, IsFiniteSet(S), NEW f \in [S -> Int], NEW T \in SUBSET S, NEW x \in T
    PROVE  Sums(f)[T] = f[x] + Sums(f)[T \ {x}]
<1> DEFINE s == Sums(f)
           Ok(U) == \A y \in U : s[U] = f[y] + s[U \ {y}]
           Bad == {U \in SUBSET S : ~Ok(U)}
<1>1. s \in [SUBSET S -> Int] /\ \A U \in SUBSET S : s[U] = SumStep(f, s, U)
  BY SumsAre
<1> HIDE DEF s
<1>2. Bad = {}
  <2> SUFFICES ASSUME Bad # {} PROVE FALSE
    OBVIOUS
  <2>0. Bad \in SUBSET SUBSET S
    OBVIOUS
  <2> HIDE DEF Bad
  <2>1. PICK U \in Bad : \A V \in Bad : V \subseteq U => V = U
    BY <2>0, LeastSet
  <2> USE DEF Bad
  <2>2. PICK y \in U : s[U] # f[y] + s[U \ {y}]
    BY <2>1
  <2> DEFINE c == Elem(U)
  <2>3. U \in SUBSET S /\ c \in U /\ s[U] = f[c] + s[U \ {c}]
    BY <1>1, <2>1, <2>2, Smaller DEF SumStep
  <2> HIDE DEF c
  <2>4. y # c
    BY <2>2, <2>3
  <2>5. Ok(U \ {c}) /\ Ok(U \ {y})
    <3>1. U \ {c} \in SUBSET S /\ U \ {c} # U /\ U \ {y} \in SUBSET S /\ U \ {y} # U
      BY <2>2, <2>3
    <3>2. U \ {c} \notin Bad /\ U \ {y} \notin Bad
      BY <2>1, <3>1
    <3> QED  BY <3>1, <3>2
  <2>6. /\ s[U \ {c}] = f[y] + s[(U \ {c}) \ {y}]
        /\ s[U \ {y}] = f[c] + s[(U \ {y}) \ {c}]
    BY <2>2, <2>3, <2>4, <2>5
  <2>7. (U \ {c}) \ {y} = (U \ {y}) \ {c}
    OBVIOUS
  <2>8. /\ f[c] \in Int /\ f[y] \in Int /\ s[(U \ {y}) \ {c}] \in Int
        /\ s[U \ {y}] \in Int /\ s[U \ {c}] \in Int
    <3>1. /\ (U \ {y}) \ {c} \in SUBSET S /\ U \ {y} \in SUBSET S /\ U \ {c} \in SUBSET S
          /\ c \in S /\ y \in S
      BY <2>2, <2>3
    <3> QED  BY <1>1, <3>1
  <2>9. f[c] + s[U \ {c}] = f[y] + s[U \ {y}]
    <3> DEFINE r == s[(U \ {y}) \ {c}]
    <3>1. s[U \ {c}] = f[y] + r /\ s[U \ {y}] = f[c] + r /\ r \in Int
      BY <2>6, <2>7, <2>8
    <3> HIDE DEF r
    <3> QED  BY <2>8, <3>1
  <2> QED  BY <2>2, <2>3, <2>9
<1>3. Ok(T)
  BY <1>2
<1> QED  BY <1>3 DEF s

\* Functions that agree on a set have the same sum there.
LEMMA SumSame ==
    ASSUME NEW S, IsFiniteSet(S), NEW f \in [S -> Int], NEW g \in [S -> Int],
           NEW T \in SUBSET S, \A x \in T : f[x] = g[x]
    PROVE  Sums(f)[T] = Sums(g)[T]
<1> DEFINE s == Sums(f)
           t == Sums(g)
           Bad == {U \in SUBSET T : s[U] # t[U]}
<1>1. /\ s \in [SUBSET S -> Int] /\ \A U \in SUBSET S : s[U] = SumStep(f, s, U)
      /\ t \in [SUBSET S -> Int] /\ \A U \in SUBSET S : t[U] = SumStep(g, t, U)
  <2>1. s \in [SUBSET S -> Int] /\ \A U \in SUBSET S : s[U] = SumStep(f, s, U)
    BY SumsAre
  <2>2. t \in [SUBSET S -> Int] /\ \A U \in SUBSET S : t[U] = SumStep(g, t, U)
    BY SumsAre
  <2> QED  BY <2>1, <2>2
<1> HIDE DEF s, t
<1>2. Bad = {}
  <2> SUFFICES ASSUME Bad # {} PROVE FALSE
    OBVIOUS
  <2>0. Bad \in SUBSET SUBSET S
    OBVIOUS
  <2> HIDE DEF Bad
  <2>1. PICK U \in Bad : \A V \in Bad : V \subseteq U => V = U
    BY <2>0, LeastSet
  <2> USE DEF Bad
  <2>2. U \in SUBSET S /\ U \subseteq T /\ s[U] # t[U]
    OBVIOUS
  <2>3. s[U] = SumStep(f, s, U) /\ t[U] = SumStep(g, t, U)
    BY <1>1, <2>2
  <2>4. U # {}
    BY <2>2, <2>3 DEF SumStep
  <2>5. /\ Elem(U) \in U /\ U \ {Elem(U)} \in SUBSET T /\ U \ {Elem(U)} # U
        /\ f[Elem(U)] = g[Elem(U)]
    BY <2>2, <2>4, Smaller
  <2>6. s[U \ {Elem(U)}] = t[U \ {Elem(U)}]
    BY <2>1, <2>5
  <2> QED  BY <2>2, <2>3, <2>4, <2>5, <2>6 DEF SumStep
<1>3. T \notin Bad
  BY <1>2
<1> QED  BY <1>3 DEF s, t

\* A sum is a number, it moves with the one value that does, and that of zeros
\* is zero.
LEMMA SumInt ==
    ASSUME NEW S, IsFiniteSet(S), NEW f \in [S -> Int] PROVE SumFunction(f) \in Int
<1>1. DOMAIN f = S /\ S \in SUBSET S
  OBVIOUS
<1>2. Sums(f) \in [SUBSET S -> Int]
  BY SumsAre
<1> QED  BY <1>1, <1>2, SumIs

LEMMA SumChange ==
    ASSUME NEW S, IsFiniteSet(S), NEW f \in [S -> Int], NEW g \in [S -> Int], NEW x \in S,
           \A y \in S : y # x => g[y] = f[y]
    PROVE  SumFunction(g) = SumFunction(f) - f[x] + g[x]
<1>1. DOMAIN f = S /\ DOMAIN g = S /\ S \ {x} \in SUBSET S
  OBVIOUS
<1>2. Sums(f)[S \ {x}] = Sums(g)[S \ {x}]
  BY <1>1, SumSame
<1>3. Sums(f)[S] = f[x] + Sums(f)[S \ {x}] /\ Sums(g)[S] = g[x] + Sums(g)[S \ {x}]
  <2>1. S \in SUBSET S
    OBVIOUS
  <2>2. Sums(f)[S] = f[x] + Sums(f)[S \ {x}]
    BY <2>1, SumAny
  <2>3. Sums(g)[S] = g[x] + Sums(g)[S \ {x}]
    BY <2>1, SumAny
  <2> QED  BY <2>2, <2>3
<1>4. Sums(f)[S \ {x}] \in Int /\ f[x] \in Int /\ g[x] \in Int
  <2>1. Sums(f) \in [SUBSET S -> Int]
    BY SumsAre
  <2> QED  BY <1>1, <2>1
<1> QED  BY <1>1, <1>2, <1>3, <1>4, SumIs

LEMMA SumZero ==
    ASSUME NEW S, IsFiniteSet(S), NEW f, f = [x \in S |-> 0] PROVE SumFunction(f) = 0
<1> DEFINE s == Sums(f)
           Bad == {T \in SUBSET S : s[T] # 0}
<1>1. s \in [SUBSET S -> Int] /\ \A T \in SUBSET S : s[T] = SumStep(f, s, T)
  BY SumsAre
<1> HIDE DEF s
<1>2. Bad = {}
  <2> SUFFICES ASSUME Bad # {} PROVE FALSE
    OBVIOUS
  <2>0. Bad \in SUBSET SUBSET S
    OBVIOUS
  <2> HIDE DEF Bad
  <2>1. PICK T \in Bad : \A U \in Bad : U \subseteq T => U = T
    BY <2>0, LeastSet
  <2> USE DEF Bad
  <2>2. T \in SUBSET S /\ s[T] = SumStep(f, s, T) /\ T # {}
    BY <1>1, <2>1 DEF SumStep
  <2>3. Elem(T) \in S /\ T \ {Elem(T)} \in SUBSET S /\ s[T \ {Elem(T)}] = 0
    <3>1. Elem(T) \in T /\ T \ {Elem(T)} \in SUBSET S
      BY <2>2, Smaller
    <3>2. T \ {Elem(T)} \notin Bad
      BY <2>1, <3>1
    <3> QED  BY <2>2, <3>1, <3>2
  <2> QED  BY <2>1, <2>2, <2>3 DEF SumStep
<1>3. S \notin Bad /\ DOMAIN f = S
  BY <1>2
<1> QED  BY <1>3, SumIs DEF s
(* The inductive invariant *)

\* What the user's tier was when login's goroutine asked is still so, unless
\* the meter was told of a change in the meantime.
Asked == pc[Login] = "store" /\ ~stale /\ ~raced => seen[Login] = Tier(paid)

IInv == TypeOK /\ Accounted /\ TierFresh /\ Asked

\* What each edge has on its way to login.
InFlight == [e \in Edges |-> IF sync[e] = "sent" THEN load[e] ELSE 0]

counts == <<count, sync, load, relayed, lost, doubled>>
tiers == <<tier, paid, stale, raced, pc, seen>>

LEMMA NodesAre == IsFiniteSet(Nodes) /\ IsFiniteSet(Edges) /\ Edges \subseteq Nodes /\ Login \in Nodes \ Edges
  BY BandwidthAssumption, FS_AddElement DEF Nodes

LEMMA Bounds == Months \subseteq 0..MaxMonth /\ 0 \in 0..MaxMonth /\ Cap \in Nat
                /\ MaxMonth \in Nat \ {0} /\ MaxRelayed \in Nat /\ MaxChanges \in Nat /\ MaxFaults \in Nat
  BY BandwidthAssumption DEF Months

LEMMA TierIs == \A b \in BOOLEAN : Tier(b) \in {"free", "pro"}
  BY DEF Tier

LEMMA Numbers ==
    ASSUME TypeOK
    PROVE  /\ SumFunction(count) \in Int /\ SumFunction(InFlight) \in Int
           /\ lost \in Int /\ relayed \in Nat /\ doubled \in Nat
           /\ count \in [Nodes -> Int] /\ InFlight \in [Edges -> Int]
<1>1. count \in [Nodes -> Int] /\ InFlight \in [Edges -> Int]
  BY DEF TypeOK, InFlight
<1>2. SumFunction(count) \in Int
  BY <1>1, NodesAre, SumInt
<1>3. SumFunction(InFlight) \in Int
  BY <1>1, NodesAre, SumInt
<1> QED  BY <1>1, <1>2, <1>3 DEF TypeOK

LEMMA AccountedIs ==
    Accounted <=> SumFunction(count) + SumFunction(InFlight) = relayed - lost + doubled
  BY DEF Accounted, InFlight

\* What is counted, in flight and lost grows as what is relayed and counted twice.
LEMMA AccountedStep ==
    ASSUME IInv, SumFunction(count') \in Int, SumFunction(InFlight)' \in Int,
           lost' \in Int, relayed' \in Int, doubled' \in Int,
           SumFunction(count') + lost' + SumFunction(InFlight)' + relayed + doubled
             = SumFunction(count) + lost + SumFunction(InFlight) + relayed' + doubled'
    PROVE  Accounted'
<1>1. Accounted' <=> SumFunction(count') + SumFunction(InFlight)' = relayed' - lost' + doubled'
  BY DEF Accounted, InFlight
<1>2. SumFunction(count) + SumFunction(InFlight) = relayed - lost + doubled
  BY AccountedIs DEF IInv
<1>3. /\ SumFunction(count) \in Int /\ SumFunction(InFlight) \in Int
      /\ lost \in Int /\ relayed \in Int /\ doubled \in Int
  BY Numbers DEF IInv
<1>4. PICK a \in Int, b \in Int, c \in Int, d \in Int :
         /\ a = SumFunction(count) /\ b = SumFunction(count')
         /\ c = SumFunction(InFlight) /\ d = SumFunction(InFlight)'
  BY <1>3
<1>5. PICK l1 \in Int, l2 \in Int, r1 \in Int, r2 \in Int, d1 \in Int, d2 \in Int :
         /\ l1 = lost /\ l2 = lost' /\ r1 = relayed /\ r2 = relayed'
         /\ d1 = doubled /\ d2 = doubled'
  BY <1>3
<1>6. a + c = r1 - l1 + d1 /\ b + l2 + d + r1 + d1 = a + l1 + c + r2 + d2
  BY <1>2, <1>4, <1>5, Zenon
<1>7. b + d = r2 - l2 + d2
  BY <1>6
<1> QED  BY <1>1, <1>4, <1>5, <1>7, Zenon

LEMMA CountsStay == ASSUME Accounted, UNCHANGED counts PROVE Accounted'
  BY DEF Accounted, counts

LEMMA TiersStay == ASSUME TierFresh, Asked, UNCHANGED tiers PROVE TierFresh' /\ Asked'
  BY DEF TierFresh, Asked, tiers

\* The tiers are login's: what an edge does to its own does not matter.
LEMMA EdgeTiers ==
    ASSUME TypeOK, TierFresh, Asked, NEW e \in Edges, UNCHANGED <<paid, stale, raced>>,
           tier'[Login] = tier[Login], pc'[Login] = pc[Login], seen'[Login] = seen[Login]
    PROVE  TierFresh' /\ Asked'
  BY DEF TierFresh, Asked

\* The counter of one node changes to v.
LEMMA CountStep ==
    ASSUME TypeOK, NEW n \in Nodes, NEW v \in Nat, count' = [count EXCEPT ![n] = v]
    PROVE  /\ count' \in [Nodes -> Nat] /\ SumFunction(count') \in Int
           /\ SumFunction(count') = SumFunction(count) - count[n] + v
<1> DEFINE f == count
           g == count'
<1>1. /\ f \in [Nodes -> Int] /\ g \in [Nodes -> Int] /\ count' \in [Nodes -> Nat]
      /\ f[n] = count[n] /\ g[n] = v /\ \A m \in Nodes : m # n => g[m] = f[m]
  BY DEF TypeOK
<1>2. SumFunction(count') = SumFunction(g) /\ SumFunction(count) = SumFunction(f)
  OBVIOUS
<1> HIDE DEF f, g
<1>3. SumFunction(g) = SumFunction(f) - f[n] + g[n]
  BY <1>1, NodesAre, SumChange
<1>4. SumFunction(g) \in Int
  BY <1>1, NodesAre, SumInt
<1> QED  BY <1>1, <1>2, <1>3, <1>4

\* The sync of one edge changes.
LEMMA FlightStep ==
    ASSUME TypeOK, NEW e \in Edges, load' \in [Edges -> Nat], sync' \in [Edges -> {"idle", "sent", "answered"}],
           \A d \in Edges : d # e => sync'[d] = sync[d] /\ load'[d] = load[d]
    PROVE  /\ SumFunction(InFlight)' \in Int
           /\ SumFunction(InFlight)' = SumFunction(InFlight)
                - (IF sync[e] = "sent" THEN load[e] ELSE 0)
                + (IF sync'[e] = "sent" THEN load'[e] ELSE 0)
<1> DEFINE f == InFlight
           g == InFlight'
<1>1. /\ f \in [Edges -> Int] /\ g \in [Edges -> Int]
      /\ f[e] = (IF sync[e] = "sent" THEN load[e] ELSE 0)
      /\ g[e] = (IF sync'[e] = "sent" THEN load'[e] ELSE 0)
      /\ \A d \in Edges : d # e => g[d] = f[d]
  BY DEF TypeOK, InFlight
<1>2. SumFunction(InFlight)' = SumFunction(g)
  OBVIOUS
<1> HIDE DEF f, g
<1>3. SumFunction(g) = SumFunction(f) - f[e] + g[e]
  BY <1>1, NodesAre, SumChange
<1>4. SumFunction(g) \in Int
  BY <1>1, NodesAre, SumInt
<1>5. SumFunction(f) = SumFunction(InFlight)
  BY DEF f
<1> QED  BY <1>1, <1>2, <1>3, <1>4, <1>5

\* A node counts k more: what the month's turn drops is lost.
LEMMA CounterStep ==
    ASSUME TypeOK, NEW n \in Nodes, NEW k \in Nat, Counter(n, k)
    PROVE  /\ month' \in [Nodes -> 0..MaxMonth] /\ count' \in [Nodes -> Nat] /\ lost' \in Int
           /\ SumFunction(count') \in Int
           /\ SumFunction(count') + lost' = SumFunction(count) + lost + k
<1> DEFINE v == (IF month[n] = now THEN count[n] ELSE 0) + k
           d == IF month[n] = now THEN 0 ELSE count[n]
<1>1. /\ month' = [month EXCEPT ![n] = now] /\ lost' = lost + d
      /\ count' = [count EXCEPT ![n] = v]
  BY DEF Counter
<1>2. count[n] \in Nat /\ v \in Nat /\ d \in Nat /\ v + d = count[n] + k /\ lost \in Int
  BY DEF TypeOK
<1>3. month' \in [Nodes -> 0..MaxMonth]
  BY <1>1, Bounds DEF TypeOK
<1> HIDE DEF v, d
<1>4. /\ count' \in [Nodes -> Nat] /\ SumFunction(count') \in Int
      /\ SumFunction(count') = SumFunction(count) - count[n] + v
  BY <1>1, <1>2, CountStep
<1>5. SumFunction(count) \in Int
  BY Numbers
<1> QED  BY <1>1, <1>2, <1>3, <1>4, <1>5

LEMMA InitInv == Init => IInv
<1> SUFFICES ASSUME Init PROVE IInv
  OBVIOUS
<1>1. TypeOK
  <2>1. now \in Months
    BY Bounds DEF Init, Months
  <2>2. /\ month \in [Nodes -> 0..MaxMonth] /\ mine \in [Nodes -> 0..MaxMonth]
        /\ count \in [Nodes -> Nat] /\ db \in [Months -> Nat]
        /\ changes \in 0..MaxChanges /\ faults \in 0..MaxFaults
    BY Bounds DEF Init
  <2>3. /\ tier \in [Nodes -> Tiers] /\ seen \in [Nodes -> Tiers] /\ fetched \in [Edges -> Tiers]
        /\ exceeded \in [Nodes -> BOOLEAN] /\ answer \in [Edges -> BOOLEAN]
        /\ pc \in [Nodes -> {"idle", "lookup", "store", "cap", "add"}]
    BY DEF Init, Tiers
  <2>4. sync \in [Edges -> {"idle", "sent", "answered"}] /\ load \in [Edges -> Nat]
    BY DEF Init
  <2>5. last \in Nat /\ relayed \in Nat /\ lost \in Int /\ doubled \in Nat
    BY DEF Init
  <2>6. snap \in Nat \union {-1}
    BY DEF Init
  <2>7. paid \in BOOLEAN /\ stale \in BOOLEAN /\ raced \in BOOLEAN
    BY DEF Init
  <2> QED  BY <2>1, <2>2, <2>3, <2>4, <2>5, <2>6, <2>7 DEF TypeOK
<1>2. SumFunction(count) = 0
  <2>1. count = [n \in Nodes |-> 0]
    BY DEF Init
  <2> QED  BY <2>1, NodesAre, SumZero
<1>3. SumFunction(InFlight) = 0
  <2>1. InFlight = [e \in Edges |-> 0]
    BY DEF Init, InFlight
  <2> QED  BY <2>1, NodesAre, SumZero
<1>4. Accounted
  BY <1>2, <1>3, AccountedIs DEF Init
<1>5. TierFresh /\ Asked
  BY NodesAre DEF Init, TierFresh, Asked
<1> QED  BY <1>1, <1>4, <1>5 DEF IInv
(* Relaying *)

LEMMA ArriveInv == ASSUME IInv, NEW n \in Nodes, Arrive(n) PROVE IInv'
<1>1. /\ pc' = [pc EXCEPT ![n] = IF tier[n] = "none" THEN "lookup" ELSE "cap"]
      /\ seen' = [seen EXCEPT ![n] = tier[n]]
      /\ UNCHANGED <<waitFrame, meterVars, tier, mine, relayed>>
  BY DEF Arrive, Moves
<1>2. UNCHANGED <<now, exceeded, paid, stale, changes, raced, fetched, sync, load, answer, doubled,
                  db, last, snap, faults, month, count, lost, tier, mine, relayed>>
  BY <1>1 DEF waitFrame, payVars, syncVars, dbVars, meterVars
<1>3. TypeOK'
  BY <1>1, <1>2 DEF IInv, TypeOK
<1>4. Accounted'
  BY <1>2, CountsStay DEF IInv, counts
<1>5. TierFresh' /\ Asked'
  BY <1>1, <1>2, NodesAre DEF IInv, TypeOK, TierFresh, Asked
<1> QED  BY <1>3, <1>4, <1>5 DEF IInv

LEMMA LookupInv == ASSUME IInv, NEW n \in Nodes, Lookup(n) PROVE IInv'
<1>1. /\ pc' = [pc EXCEPT ![n] = "store"] /\ seen' = [seen EXCEPT ![n] = Truth(n)]
      /\ UNCHANGED <<waitFrame, meterVars, tier, mine, relayed>>
  BY DEF Lookup, Moves
<1>2. UNCHANGED <<now, exceeded, paid, stale, changes, raced, fetched, sync, load, answer, doubled,
                  db, last, snap, faults, month, count, lost, tier, mine, relayed>>
  BY <1>1 DEF waitFrame, payVars, syncVars, dbVars, meterVars
<1>3. Truth(n) \in Tiers
  BY TierIs DEF IInv, TypeOK, Truth, Tiers, Nodes
<1>4. TypeOK'
  BY <1>1, <1>2, <1>3 DEF IInv, TypeOK
<1>5. Accounted'
  BY <1>2, CountsStay DEF IInv, counts
<1>6. TierFresh' /\ Asked'
  BY <1>1, <1>2, NodesAre DEF IInv, TypeOK, TierFresh, Asked, Truth
<1> QED  BY <1>4, <1>5, <1>6 DEF IInv

LEMMA StoreInv == ASSUME IInv, NEW n \in Nodes, Store(n) PROVE IInv'
<1>1. /\ pc[n] = "store" /\ pc' = [pc EXCEPT ![n] = "cap"] /\ tier' = [tier EXCEPT ![n] = seen[n]]
      /\ UNCHANGED <<waitFrame, meterVars, seen, mine, relayed>>
  BY DEF Store, Moves
<1>2. UNCHANGED <<now, exceeded, paid, stale, changes, raced, fetched, sync, load, answer, doubled,
                  db, last, snap, faults, month, count, lost, seen, mine, relayed>>
  BY <1>1 DEF waitFrame, payVars, syncVars, dbVars, meterVars
<1>3. TypeOK'
  BY <1>1, <1>2 DEF IInv, TypeOK
<1>4. Accounted'
  BY <1>2, CountsStay DEF IInv, counts
<1>5. TierFresh' /\ Asked'
  BY <1>1, <1>2, NodesAre DEF IInv, TypeOK, TierFresh, Asked
<1> QED  BY <1>3, <1>4, <1>5 DEF IInv

LEMMA UnderCapInv == ASSUME IInv, NEW n \in Nodes, UnderCap(n) PROVE IInv'
<1>1. /\ Counter(n, 0) /\ seen' = [seen EXCEPT ![n] = "none"]
      /\ \E x \in {"idle", "add"} : pc' = [pc EXCEPT ![n] = x]
      /\ mine' = mine \/ mine' = [mine EXCEPT ![n] = now]
      /\ UNCHANGED <<waitFrame, tier, relayed>>
  BY DEF UnderCap, Moves
<1>2. UNCHANGED <<now, exceeded, paid, stale, changes, raced, fetched, sync, load, answer, doubled,
                  db, last, snap, faults, tier, relayed>>
  BY <1>1 DEF waitFrame, payVars, syncVars, dbVars
<1>3. /\ month' \in [Nodes -> 0..MaxMonth] /\ count' \in [Nodes -> Nat] /\ lost' \in Int
      /\ SumFunction(count') \in Int
      /\ SumFunction(count') + lost' = SumFunction(count) + lost + 0
  BY <1>1, CounterStep DEF IInv
<1>4. TypeOK'
  <2>1. mine' \in [Nodes -> 0..MaxMonth]
    BY <1>1, Bounds DEF IInv, TypeOK
  <2>2. /\ seen' \in [Nodes -> Tiers]
        /\ pc' \in [Nodes -> {"idle", "lookup", "store", "cap", "add"}]
    BY <1>1 DEF IInv, TypeOK, Tiers
  <2> QED  BY <1>2, <1>3, <2>1, <2>2 DEF IInv, TypeOK
<1>5. Accounted'
  <2>1. SumFunction(InFlight)' = SumFunction(InFlight)
    BY <1>2 DEF InFlight
  <2>2. relayed' \in Int /\ doubled' \in Int /\ SumFunction(InFlight) \in Int
    BY <1>2, Numbers DEF IInv
  <2> QED  BY <1>2, <1>3, <2>1, <2>2, Numbers, AccountedStep DEF IInv
<1>6. TierFresh' /\ Asked'
  BY <1>1, <1>2, NodesAre DEF IInv, TypeOK, TierFresh, Asked
<1> QED  BY <1>4, <1>5, <1>6 DEF IInv

LEMMA AddInv == ASSUME IInv, NEW n \in Nodes, Add(n) PROVE IInv'
<1>1. /\ pc' = [pc EXCEPT ![n] = "idle"] /\ relayed' = relayed + 1
      /\ mine' = [mine EXCEPT ![n] = 0]
      /\ \/ count' = [count EXCEPT ![n] = count[n] + 1] /\ lost' = lost
         \/ lost' = lost + 1 /\ count' = count
      /\ UNCHANGED <<waitFrame, month, tierVars>>
  BY DEF Add, Moves
<1>2. UNCHANGED <<now, exceeded, paid, stale, changes, raced, fetched, sync, load, answer, doubled,
                  db, last, snap, faults, month, tier, seen>>
  BY <1>1 DEF waitFrame, payVars, syncVars, dbVars, tierVars
<1>3. /\ count' \in [Nodes -> Nat] /\ lost' \in Int /\ SumFunction(count') \in Int
      /\ SumFunction(count') + lost' = SumFunction(count) + lost + 1
  <2>1. /\ count \in [Nodes -> Nat] /\ lost \in Int /\ SumFunction(count) \in Int
        /\ count[n] \in Nat /\ count[n] + 1 \in Nat
    BY Numbers DEF IInv, TypeOK
  <2>2. CASE count' = [count EXCEPT ![n] = count[n] + 1] /\ lost' = lost
    <3>1. /\ count' \in [Nodes -> Nat] /\ SumFunction(count') \in Int
          /\ SumFunction(count') = SumFunction(count) - count[n] + (count[n] + 1)
      BY <2>1, <2>2, CountStep DEF IInv
    <3> QED  BY <2>1, <2>2, <3>1
  <2>3. CASE lost' = lost + 1 /\ count' = count
    <3>1. SumFunction(count') = SumFunction(count)
      BY <2>3
    <3> QED  BY <2>1, <2>3, <3>1
  <2> QED  BY <1>1, <2>2, <2>3
<1>4. TypeOK'
  <2>1. /\ mine' \in [Nodes -> 0..MaxMonth] /\ relayed' \in Nat
        /\ pc' \in [Nodes -> {"idle", "lookup", "store", "cap", "add"}]
    BY <1>1, Bounds DEF IInv, TypeOK
  <2> QED  BY <1>2, <1>3, <2>1 DEF IInv, TypeOK
<1>5. Accounted'
  <2>1. SumFunction(InFlight)' = SumFunction(InFlight)
    BY <1>2 DEF InFlight
  <2>2. relayed' \in Int /\ doubled' \in Int /\ SumFunction(InFlight) \in Int
    BY <1>1, <1>2, Numbers DEF IInv
  <2> QED  BY <1>1, <1>2, <1>3, <2>1, <2>2, Numbers, AccountedStep DEF IInv
<1>6. TierFresh' /\ Asked'
  BY <1>1, <1>2, NodesAre DEF IInv, TypeOK, TierFresh, Asked
<1> QED  BY <1>4, <1>5, <1>6 DEF IInv

(* Tiers *)

LEMMA PayInv == ASSUME IInv, Pay PROVE IInv'
<1>1. /\ changes < MaxChanges /\ paid' = ~paid /\ stale' = TRUE /\ changes' = changes + 1
      /\ UNCHANGED <<now, meterVars, tierVars, exceeded, raced, fetched, pc, mine,
                     syncVars, dbVars, faults, relayed>>
  BY DEF Pay
<1>2. UNCHANGED <<now, month, count, lost, tier, seen, exceeded, raced, fetched, pc, mine, sync, load,
                  answer, doubled, db, last, snap, faults, relayed>>
  BY <1>1 DEF meterVars, tierVars, syncVars, dbVars
<1>3. TypeOK'
  <2>1. paid' \in BOOLEAN /\ stale' \in BOOLEAN
    BY <1>1
  <2>2. changes' \in 0..MaxChanges
    BY <1>1, Bounds DEF IInv, TypeOK
  <2> QED  BY <1>2, <2>1, <2>2 DEF IInv, TypeOK
<1>4. Accounted'
  BY <1>2, CountsStay DEF IInv, counts
<1>5. TierFresh' /\ Asked'
  BY <1>1 DEF TierFresh, Asked
<1> QED  BY <1>3, <1>4, <1>5 DEF IInv

LEMMA InvalidateUserInv == ASSUME IInv, InvalidateUser PROVE IInv'
<1>1. /\ stale' = FALSE /\ tier' = [tier EXCEPT ![Login] = "none"]
      /\ raced' = (raced \/ pc[Login] = "store")
      /\ UNCHANGED <<now, meterVars, seen, exceeded, paid, changes, fetched, pc, mine,
                     syncVars, dbVars, faults, relayed>>
  BY DEF InvalidateUser
<1>2. UNCHANGED <<now, month, count, lost, seen, exceeded, paid, changes, fetched, pc, mine, sync, load,
                  answer, doubled, db, last, snap, faults, relayed>>
  BY <1>1 DEF meterVars, syncVars, dbVars
<1>3. TypeOK'
  <2>1. raced' \in BOOLEAN /\ stale' \in BOOLEAN
    BY <1>1
  <2>2. tier' \in [Nodes -> Tiers]
    BY <1>1 DEF IInv, TypeOK, Tiers
  <2> QED  BY <1>2, <2>1, <2>2 DEF IInv, TypeOK
<1>4. Accounted'
  BY <1>2, CountsStay DEF IInv, counts
<1>5. TierFresh'
  <2>1. tier'[Login] = "none"
    BY <1>1, NodesAre DEF IInv, TypeOK
  <2> QED  BY <2>1 DEF TierFresh
<1>6. Asked'
  BY <1>1, <1>2 DEF Asked
<1> QED  BY <1>3, <1>4, <1>5, <1>6 DEF IInv

LEMMA FetchInv == ASSUME IInv, NEW e \in Edges, Fetch(e) PROVE IInv'
<1>1. /\ fetched' = [fetched EXCEPT ![e] = Tier(paid)]
      /\ UNCHANGED <<now, meterVars, tierVars, exceeded, paid, stale, changes, raced, pc,
                     mine, syncVars, dbVars, faults, relayed>>
  BY DEF Fetch
<1>2. UNCHANGED <<now, month, count, lost, tier, seen, exceeded, paid, stale, changes, raced, pc, mine,
                  sync, load, answer, doubled, db, last, snap, faults, relayed>>
  BY <1>1 DEF meterVars, tierVars, syncVars, dbVars
<1>3. Tier(paid) \in Tiers
  BY TierIs DEF IInv, TypeOK, Tiers
<1>4. TypeOK'
  BY <1>1, <1>2, <1>3 DEF IInv, TypeOK
<1>5. Accounted'
  BY <1>2, CountsStay DEF IInv, counts
<1>6. TierFresh' /\ Asked'
  BY <1>2, TiersStay DEF IInv, tiers
<1> QED  BY <1>4, <1>5, <1>6 DEF IInv
(* Syncs *)

\* A sync step: k more are counted or lost, y instead of x are in flight, and z
\* are counted twice.
LEMMA SyncAccounted ==
    ASSUME IInv, NEW k \in Int, NEW x \in Int, NEW y \in Int, NEW z \in Int,
           SumFunction(count') \in Int, SumFunction(InFlight)' \in Int, lost' \in Int,
           relayed' = relayed, doubled' = doubled + z,
           SumFunction(count') + lost' = SumFunction(count) + lost + k,
           SumFunction(InFlight)' = SumFunction(InFlight) - x + y, k + y = x + z
    PROVE  Accounted'
<1>1. /\ SumFunction(count) \in Int /\ SumFunction(InFlight) \in Int
      /\ lost \in Int /\ relayed \in Int /\ doubled \in Int
  BY Numbers DEF IInv
<1>2. PICK a \in Int, b \in Int, c \in Int, d \in Int :
         /\ a = SumFunction(count) /\ b = SumFunction(count')
         /\ c = SumFunction(InFlight) /\ d = SumFunction(InFlight)'
  BY <1>1
<1>3. PICK l1 \in Int, l2 \in Int, r1 \in Int, d1 \in Int, d2 \in Int :
         l1 = lost /\ l2 = lost' /\ r1 = relayed /\ d1 = doubled /\ d2 = doubled + z
  BY <1>1
<1>4. b + l2 = a + l1 + k /\ d = c - x + y
  BY <1>2, <1>3, Zenon
<1>5. d2 = d1 + z
  BY <1>3, Zenon
<1>6. b + l2 + d + r1 + d1 = a + l1 + c + r1 + d2
  BY <1>4, <1>5
<1>7. relayed' \in Int /\ doubled' \in Int
  BY <1>1
<1>8. r1 = relayed' /\ d2 = doubled'
  BY <1>3, Zenon
<1>9. SumFunction(count') + lost' + SumFunction(InFlight)' + relayed + doubled
        = SumFunction(count) + lost + SumFunction(InFlight) + relayed' + doubled'
  BY <1>2, <1>3, <1>6, <1>8, Zenon
<1> QED  BY <1>7, <1>9, AccountedStep

LEMMA DrainInv == ASSUME IInv, NEW e \in Edges, Drain(e) PROVE IInv'
<1>1. /\ sync[e] = "idle" /\ sync' = [sync EXCEPT ![e] = "sent"]
      /\ load' = [load EXCEPT ![e] = count[e]] /\ count' = [count EXCEPT ![e] = 0]
      /\ UNCHANGED <<syncFrame, month, lost, tierVars, exceeded, answer, doubled, faults>>
  BY DEF Drain
<1>2. UNCHANGED <<now, paid, stale, changes, raced, fetched, pc, mine, db, last, snap, relayed,
                  month, lost, tier, seen, exceeded, answer, doubled, faults>>
  BY <1>1 DEF syncFrame, payVars, dbVars, tierVars
<1>3. count[e] \in Nat /\ e \in Nodes /\ count[e] \in Int /\ lost \in Int
  BY NodesAre DEF IInv, TypeOK
<1>4. /\ sync' \in [Edges -> {"idle", "sent", "answered"}] /\ load' \in [Edges -> Nat]
      /\ sync'[e] = "sent" /\ load'[e] = count[e]
      /\ \A d \in Edges : d # e => sync'[d] = sync[d] /\ load'[d] = load[d]
  BY <1>1, <1>3 DEF IInv, TypeOK
<1>5. /\ count' \in [Nodes -> Nat] /\ SumFunction(count') \in Int
      /\ SumFunction(count') = SumFunction(count) - count[e] + 0
  BY <1>1, <1>3, CountStep DEF IInv
<1>6. /\ SumFunction(InFlight)' \in Int
      /\ SumFunction(InFlight)' = SumFunction(InFlight) - 0 + count[e]
  BY <1>1, <1>4, FlightStep DEF IInv
<1>7. TypeOK'
  BY <1>2, <1>4, <1>5 DEF IInv, TypeOK
<1>8. Accounted'
  <2>1. PICK k \in Int : k = 0 - count[e]
    BY <1>3
  <2>2. SumFunction(count') + lost' = SumFunction(count) + lost + k
    BY <1>2, <1>3, <1>5, <2>1, Numbers DEF IInv
  <2>3. k + count[e] = 0 + 0
    BY <1>3, <2>1
  <2>4. doubled' = doubled + 0 /\ relayed' = relayed /\ lost' \in Int
    BY <1>2, <1>3, Numbers DEF IInv
  <2>5. PICK y \in Int : y = count[e]
    BY <1>3
  <2>6. SumFunction(InFlight)' = SumFunction(InFlight) - 0 + y /\ k + y = 0 + 0
    BY <1>6, <2>3, <2>5
  <2> QED  BY <1>5, <1>6, <2>2, <2>4, <2>6, SyncAccounted
<1>9. TierFresh' /\ Asked'
  BY <1>2, TiersStay DEF IInv, tiers
<1> QED  BY <1>7, <1>8, <1>9 DEF IInv

\* A node counts what has come, if anything has.
LEMMA MaybeCounted ==
    ASSUME IInv, NEW n \in Nodes, NEW k \in Nat,
           IF k > 0 THEN Counter(n, k) ELSE UNCHANGED meterVars
    PROVE  /\ month' \in [Nodes -> 0..MaxMonth] /\ count' \in [Nodes -> Nat] /\ lost' \in Int
           /\ SumFunction(count') \in Int
           /\ SumFunction(count') + lost' = SumFunction(count) + lost + k
<1>1. CASE k > 0
  BY <1>1, CounterStep DEF IInv
<1>2. CASE ~(k > 0)
  <2>1. k = 0 /\ UNCHANGED <<month, count, lost>>
    BY <1>2 DEF meterVars
  <2>2. SumFunction(count') = SumFunction(count)
    BY <2>1
  <2> QED  BY <2>1, <2>2, Numbers DEF IInv, TypeOK
<1> QED  BY <1>1, <1>2

LEMMA AbsorbInv == ASSUME IInv, NEW e \in Edges, Absorb(e) PROVE IInv'
<1> DEFINE t == IF tier[Login] = "none" THEN Tier(paid) ELSE tier[Login]
<1>1. /\ sync[e] = "sent" /\ sync' = [sync EXCEPT ![e] = "answered"]
      /\ IF load[e] > 0 THEN Counter(Login, load[e]) ELSE UNCHANGED meterVars
      /\ answer' = [answer EXCEPT ![e] = Banned(t, count'[Login])]
      /\ tier' = [tier EXCEPT ![Login] = IF count'[Login] >= Cap THEN t ELSE @]
      /\ UNCHANGED <<syncFrame, seen, exceeded, load, doubled, faults>>
  BY DEF Absorb
<1>2. UNCHANGED <<now, paid, stale, changes, raced, fetched, pc, mine, db, last, snap, relayed,
                  seen, exceeded, load, doubled, faults>>
  BY <1>1 DEF syncFrame, payVars, dbVars
<1>3. load[e] \in Nat /\ load[e] \in Int /\ Login \in Nodes
  BY NodesAre DEF IInv, TypeOK
<1>4. /\ month' \in [Nodes -> 0..MaxMonth] /\ count' \in [Nodes -> Nat] /\ lost' \in Int
      /\ SumFunction(count') \in Int
      /\ SumFunction(count') + lost' = SumFunction(count) + lost + load[e]
  BY <1>1, <1>3, MaybeCounted
<1>5. /\ sync' \in [Edges -> {"idle", "sent", "answered"}] /\ sync'[e] = "answered"
      /\ load' \in [Edges -> Nat]
      /\ \A d \in Edges : d # e => sync'[d] = sync[d] /\ load'[d] = load[d]
  BY <1>1, <1>2 DEF IInv, TypeOK
<1>6. /\ SumFunction(InFlight)' \in Int
      /\ SumFunction(InFlight)' = SumFunction(InFlight) - load[e] + 0
  BY <1>1, <1>5, FlightStep DEF IInv
<1>7. t \in Tiers /\ \E x \in {tier[Login], t} : tier' = [tier EXCEPT ![Login] = x]
  <2>1. t \in Tiers
    <3>1. Tier(paid) \in {"free", "pro"} /\ tier[Login] \in Tiers
      BY <1>3, TierIs DEF IInv, TypeOK
    <3> QED  BY <3>1 DEF Tiers
  <2> HIDE DEF t
  <2>2. PICK x : /\ x = (IF count'[Login] >= Cap THEN t ELSE tier[Login])
                 /\ tier' = [tier EXCEPT ![Login] = x]
    BY <1>1
  <2>3. x \in {tier[Login], t}
    BY <2>2
  <2> QED  BY <2>1, <2>2, <2>3
<1>8. tier' \in [Nodes -> Tiers] /\ tier'[Login] \in {tier[Login], t}
  BY <1>3, <1>7 DEF IInv, TypeOK
<1>9. answer' \in [Edges -> BOOLEAN]
  <2>1. Banned(t, count'[Login]) \in BOOLEAN
    BY DEF Banned
  <2> QED  BY <1>1, <2>1 DEF IInv, TypeOK
<1>10. TypeOK'
  BY <1>2, <1>4, <1>5, <1>8, <1>9 DEF IInv, TypeOK
<1>11. Accounted'
  <2>1. doubled' = doubled + 0 /\ relayed' = relayed
    BY <1>2, Numbers DEF IInv
  <2>2. load[e] + 0 = load[e] + 0
    OBVIOUS
  <2> QED  BY <1>3, <1>4, <1>6, <2>1, <2>2, SyncAccounted
<1>12. TierFresh'
  BY <1>2, <1>8 DEF IInv, TierFresh
<1>13. Asked'
  BY <1>2 DEF IInv, Asked
<1> QED  BY <1>10, <1>11, <1>12, <1>13 DEF IInv

\* A sync of e is over: nothing of it is in flight.
LEMMA OverStep ==
    ASSUME IInv, NEW e \in Edges, SyncOver(e)
    PROVE  /\ sync' \in [Edges -> {"idle", "sent", "answered"}] /\ load' \in [Edges -> Nat]
           /\ answer' \in [Edges -> BOOLEAN]
           /\ SumFunction(InFlight)' \in Int
           /\ SumFunction(InFlight)' = SumFunction(InFlight)
                - (IF sync[e] = "sent" THEN load[e] ELSE 0) + 0
<1>1. /\ sync' \in [Edges -> {"idle", "sent", "answered"}] /\ sync'[e] = "idle"
      /\ load' \in [Edges -> Nat] /\ answer' \in [Edges -> BOOLEAN]
      /\ \A d \in Edges : d # e => sync'[d] = sync[d] /\ load'[d] = load[d]
  BY DEF SyncOver, IInv, TypeOK
<1> QED  BY <1>1, FlightStep DEF IInv

LEMMA AnsweredInv == ASSUME IInv, NEW e \in Edges, Answered(e) PROVE IInv'
<1>1. /\ sync[e] = "answered" /\ exceeded' = [exceeded EXCEPT ![e] = answer[e]] /\ SyncOver(e)
      /\ UNCHANGED <<syncFrame, meterVars, tierVars, doubled, faults>>
  BY DEF Answered
<1>2. UNCHANGED <<now, paid, stale, changes, raced, fetched, pc, mine, db, last, snap, relayed,
                  month, count, lost, tier, seen, doubled, faults>>
  BY <1>1 DEF syncFrame, payVars, dbVars, tierVars, meterVars
<1>3. /\ sync' \in [Edges -> {"idle", "sent", "answered"}] /\ load' \in [Edges -> Nat]
      /\ answer' \in [Edges -> BOOLEAN]
      /\ SumFunction(InFlight)' \in Int
      /\ SumFunction(InFlight)' = SumFunction(InFlight) - 0 + 0
  BY <1>1, OverStep
<1>4. TypeOK'
  <2>1. exceeded' \in [Nodes -> BOOLEAN]
    BY <1>1 DEF IInv, TypeOK
  <2> QED  BY <1>2, <1>3, <2>1 DEF IInv, TypeOK
<1>5. Accounted'
  <2>1. SumFunction(count') = SumFunction(count)
    BY <1>2
  <2>2. /\ SumFunction(count') \in Int /\ lost' \in Int
        /\ SumFunction(count') + lost' = SumFunction(count) + lost + 0
        /\ doubled' = doubled + 0 /\ relayed' = relayed
    BY <1>2, <2>1, Numbers DEF IInv
  <2> QED  BY <1>3, <2>2, SyncAccounted
<1>6. TierFresh' /\ Asked'
  BY <1>2, TiersStay DEF IInv, tiers
<1> QED  BY <1>4, <1>5, <1>6 DEF IInv

LEMMA SyncFailsInv == ASSUME IInv, NEW e \in Edges, SyncFails(e) PROVE IInv'
<1> DEFINE x == IF sync[e] = "sent" THEN load[e] ELSE 0
           z == IF sync[e] = "answered" THEN load[e] ELSE 0
<1>1. /\ sync[e] \in {"sent", "answered"} /\ faults < MaxFaults /\ faults' = faults + 1
      /\ doubled' = doubled + z /\ SyncOver(e)
      /\ IF load[e] > 0 THEN Counter(e, load[e]) ELSE UNCHANGED meterVars
      /\ UNCHANGED <<syncFrame, tierVars, exceeded>>
  BY DEF SyncFails
<1>2. UNCHANGED <<now, paid, stale, changes, raced, fetched, pc, mine, db, last, snap, relayed,
                  tier, seen, exceeded>>
  BY <1>1 DEF syncFrame, payVars, dbVars, tierVars
<1>3. load[e] \in Nat /\ load[e] \in Int /\ e \in Nodes
  BY NodesAre DEF IInv, TypeOK
<1>4. x \in Int /\ z \in Nat /\ z \in Int /\ load[e] + 0 = x + z
  BY <1>1, <1>3
<1>5. /\ month' \in [Nodes -> 0..MaxMonth] /\ count' \in [Nodes -> Nat] /\ lost' \in Int
      /\ SumFunction(count') \in Int
      /\ SumFunction(count') + lost' = SumFunction(count) + lost + load[e]
  BY <1>1, <1>3, MaybeCounted
<1>6. /\ sync' \in [Edges -> {"idle", "sent", "answered"}] /\ load' \in [Edges -> Nat]
      /\ answer' \in [Edges -> BOOLEAN]
      /\ SumFunction(InFlight)' \in Int
      /\ SumFunction(InFlight)' = SumFunction(InFlight) - x + 0
  BY <1>1, OverStep
<1> HIDE DEF x, z
<1>7. TypeOK'
  <2>1. doubled' \in Nat /\ faults' \in 0..MaxFaults
    BY <1>1, <1>4, Bounds DEF IInv, TypeOK
  <2> QED  BY <1>2, <1>5, <1>6, <2>1 DEF IInv, TypeOK
<1>8. Accounted'
  BY <1>1, <1>2, <1>3, <1>4, <1>5, <1>6, SyncAccounted
<1>9. TierFresh' /\ Asked'
  BY <1>2, TiersStay DEF IInv, tiers
<1> QED  BY <1>7, <1>8, <1>9 DEF IInv
(* The database, restarts, the calendar *)

LEMMA SnapshotWriteInv == ASSUME IInv, Snapshot \/ WriteTotal PROVE IInv'
<1>1. UNCHANGED <<now, paid, stale, changes, raced, fetched, pc, mine, relayed, month, count, lost,
                  tier, seen, exceeded, sync, load, answer, doubled, faults>>
  BY DEF Snapshot, WriteTotal, payVars, syncVars, tierVars, meterVars
<1>2. /\ db' \in [Months -> Nat] /\ last' \in Nat /\ snap' \in Nat \union {-1}
  <2>1. CASE Snapshot
    <3>1. snap' = count[Login] /\ db' = db /\ last' = last
      BY <2>1 DEF Snapshot
    <3> QED  BY <3>1, NodesAre DEF IInv, TypeOK
  <2>2. CASE WriteTotal
    <3>1. /\ snap \in Nat /\ last' = snap /\ snap' = -1
          /\ db' = db \/ db' = [db EXCEPT ![now] = snap]
      BY <2>2 DEF WriteTotal, IInv, TypeOK
    <3>2. snap' \in Nat \union {-1}
      BY <3>1
    <3> QED  BY <3>1, <3>2 DEF IInv, TypeOK
  <2> QED  BY <2>1, <2>2
<1>3. TypeOK'
  BY <1>1, <1>2 DEF IInv, TypeOK
<1>4. Accounted'
  BY <1>1, CountsStay DEF IInv, counts
<1>5. TierFresh' /\ Asked'
  BY <1>1, TiersStay DEF IInv, tiers
<1> QED  BY <1>3, <1>4, <1>5 DEF IInv

LEMMA RestartLoginInv == ASSUME IInv, RestartLogin PROVE IInv'
<1>1. /\ faults < MaxFaults /\ faults' = faults + 1
      /\ count' = [count EXCEPT ![Login] = db[now]] /\ month' = [month EXCEPT ![Login] = now]
      /\ lost' = lost + count[Login] - db[now] /\ tier' = [tier EXCEPT ![Login] = "none"]
      /\ Stops(Login) /\ last' = 0 /\ snap' = -1
      /\ UNCHANGED <<now, exceeded, payVars, syncVars, db, relayed>>
  BY DEF RestartLogin
<1>2. UNCHANGED <<now, exceeded, paid, stale, changes, raced, fetched, sync, load, answer, doubled,
                  db, relayed>>
  BY <1>1 DEF payVars, syncVars
<1>3. /\ Login \in Nodes /\ count[Login] \in Nat /\ db[now] \in Nat /\ lost \in Int
  BY NodesAre DEF IInv, TypeOK
<1>4. /\ count' \in [Nodes -> Nat] /\ SumFunction(count') \in Int
      /\ SumFunction(count') = SumFunction(count) - count[Login] + db[now]
  BY <1>1, <1>3, CountStep DEF IInv
<1>5. /\ pc' \in [Nodes -> {"idle", "lookup", "store", "cap", "add"}] /\ pc'[Login] = "idle"
      /\ seen' \in [Nodes -> Tiers] /\ mine' \in [Nodes -> 0..MaxMonth]
      /\ tier' \in [Nodes -> Tiers] /\ tier'[Login] = "none"
      /\ month' \in [Nodes -> 0..MaxMonth]
  BY <1>1, <1>3, Bounds DEF IInv, TypeOK, Stops, Tiers
<1>6. lost' \in Int /\ faults' \in 0..MaxFaults
  BY <1>1, <1>3, Bounds DEF IInv, TypeOK
<1>7. TypeOK'
  <2>1. last' \in Nat
    BY <1>1
  <2>2. snap' \in Nat \union {-1}
    BY <1>1
  <2> QED  BY <1>2, <1>4, <1>5, <1>6, <2>1, <2>2 DEF IInv, TypeOK
<1>8. Accounted'
  <2>1. SumFunction(InFlight)' = SumFunction(InFlight)
    BY <1>2 DEF InFlight
  <2>2. PICK a \in Int, c \in Int, d \in Int, l \in Int :
           a = SumFunction(count) /\ c = count[Login] /\ d = db[now] /\ l = lost
    BY <1>3, Numbers DEF IInv
  <2>3. SumFunction(count') = a - c + d /\ lost' = l + c - d
    BY <1>1, <1>4, <2>2, Zenon
  <2>4. SumFunction(count') + lost' = a + l + 0
    BY <2>3
  <2>5. SumFunction(count') + lost' = SumFunction(count) + lost + 0
    BY <2>2, <2>4, Zenon
  <2>6. /\ SumFunction(InFlight)' \in Int /\ SumFunction(InFlight)' = SumFunction(InFlight) - 0 + 0
        /\ doubled' = doubled + 0 /\ relayed' = relayed
    BY <1>2, <2>1, Numbers DEF IInv
  <2> QED  BY <1>4, <1>6, <2>5, <2>6, SyncAccounted
<1>9. TierFresh' /\ Asked'
  BY <1>5 DEF TierFresh, Asked
<1> QED  BY <1>7, <1>8, <1>9 DEF IInv

LEMMA RestartEdgeInv == ASSUME IInv, NEW e \in Edges, RestartEdge(e) PROVE IInv'
<1> DEFINE x == IF sync[e] = "sent" THEN load[e] ELSE 0
<1>1. /\ faults < MaxFaults /\ faults' = faults + 1
      /\ count' = [count EXCEPT ![e] = 0] /\ month' = [month EXCEPT ![e] = 0]
      /\ lost' = lost + count[e] + x
      /\ tier' = [tier EXCEPT ![e] = "none"] /\ exceeded' = [exceeded EXCEPT ![e] = FALSE]
      /\ fetched' = [fetched EXCEPT ![e] = Tier(paid)]
      /\ Stops(e) /\ SyncOver(e)
      /\ UNCHANGED <<now, paid, stale, changes, raced, doubled, dbVars, relayed>>
  BY DEF RestartEdge
<1>2. UNCHANGED <<now, paid, stale, changes, raced, doubled, db, last, snap, relayed>>
  BY <1>1 DEF dbVars
<1>3. /\ e \in Nodes /\ e # Login /\ Login \in Nodes /\ count[e] \in Nat /\ x \in Nat /\ lost \in Int
  BY NodesAre DEF IInv, TypeOK
<1>4. /\ count' \in [Nodes -> Nat] /\ SumFunction(count') \in Int
      /\ SumFunction(count') = SumFunction(count) - count[e] + 0
  BY <1>1, <1>3, CountStep DEF IInv
<1>5. /\ sync' \in [Edges -> {"idle", "sent", "answered"}] /\ load' \in [Edges -> Nat]
      /\ answer' \in [Edges -> BOOLEAN]
      /\ SumFunction(InFlight)' \in Int
      /\ SumFunction(InFlight)' = SumFunction(InFlight) - x + 0
  BY <1>1, OverStep
<1> HIDE DEF x
<1>6. /\ pc' = [pc EXCEPT ![e] = "idle"] /\ seen' = [seen EXCEPT ![e] = "none"]
      /\ mine' = [mine EXCEPT ![e] = 0]
  BY <1>1 DEF Stops
<1>7. /\ pc' \in [Nodes -> {"idle", "lookup", "store", "cap", "add"}] /\ pc'[Login] = pc[Login]
      /\ seen' \in [Nodes -> Tiers] /\ seen'[Login] = seen[Login]
      /\ mine' \in [Nodes -> 0..MaxMonth] /\ month' \in [Nodes -> 0..MaxMonth]
      /\ tier' \in [Nodes -> Tiers] /\ tier'[Login] = tier[Login]
  BY <1>1, <1>3, <1>6, Bounds DEF IInv, TypeOK, Tiers
<1>8. lost' \in Int /\ faults' \in 0..MaxFaults
  BY <1>1, <1>3, Bounds DEF IInv, TypeOK
<1>9. fetched' \in [Edges -> Tiers]
  <2>1. Tier(paid) \in Tiers
    BY TierIs DEF IInv, TypeOK, Tiers
  <2> QED  BY <1>1, <2>1 DEF IInv, TypeOK
<1>10. exceeded' \in [Nodes -> BOOLEAN]
  BY <1>1 DEF IInv, TypeOK
<1>11. TypeOK'
  BY <1>2, <1>4, <1>5, <1>7, <1>8, <1>9, <1>10 DEF IInv, TypeOK
<1>12. Accounted'
  <2>1. PICK a \in Int, c \in Int, y \in Int, l \in Int :
           a = SumFunction(count) /\ c = count[e] /\ y = x /\ l = lost
    BY <1>3, Numbers DEF IInv
  <2>2. SumFunction(count') = a - c + 0 /\ lost' = l + c + y
    BY <1>1, <1>4, <2>1, Zenon
  <2>3. SumFunction(count') + lost' = a + l + y
    BY <2>2
  <2>4. SumFunction(count') + lost' = SumFunction(count) + lost + y
    BY <2>1, <2>3, Zenon
  <2>5. /\ SumFunction(InFlight)' = SumFunction(InFlight) - y + 0 /\ y + 0 = y + 0
        /\ doubled' = doubled + 0 /\ relayed' = relayed
    BY <1>2, <1>5, <2>1, Numbers DEF IInv
  <2> QED  BY <1>4, <1>5, <1>8, <2>4, <2>5, SyncAccounted
<1>13. TierFresh' /\ Asked'
  BY <1>2, <1>7, EdgeTiers DEF IInv
<1> QED  BY <1>11, <1>12, <1>13 DEF IInv

LEMMA NewMonthInv == ASSUME IInv, NewMonth PROVE IInv'
<1>1. /\ now < MaxMonth /\ now' = now + 1
      /\ UNCHANGED <<meterVars, tierVars, exceeded, payVars, pc, mine, syncVars, dbVars, faults, relayed>>
  BY DEF NewMonth
<1>2. UNCHANGED <<month, count, lost, tier, seen, exceeded, paid, stale, changes, raced, fetched, pc,
                  mine, sync, load, answer, doubled, db, last, snap, faults, relayed>>
  BY <1>1 DEF meterVars, tierVars, payVars, syncVars, dbVars
<1>3. TypeOK'
  <2>1. now' \in Months
    BY <1>1, Bounds DEF IInv, TypeOK, Months
  <2> QED  BY <1>2, <2>1 DEF IInv, TypeOK
<1>4. Accounted'
  BY <1>2, CountsStay DEF IInv, counts
<1>5. TierFresh' /\ Asked'
  BY <1>2, TiersStay DEF IInv, tiers
<1> QED  BY <1>3, <1>4, <1>5 DEF IInv

LEMMA StutterInv == ASSUME IInv, UNCHANGED vars PROVE IInv'
<1>1. UNCHANGED <<now, month, count, lost, tier, seen, exceeded, paid, stale, changes, raced, fetched, pc,
                  mine, sync, load, answer, doubled, db, last, snap, faults, relayed>>
  BY DEF vars, meterVars, tierVars, payVars, syncVars, dbVars
<1>2. TypeOK'
  BY <1>1 DEF IInv, TypeOK
<1>3. Accounted'
  BY <1>1, CountsStay DEF IInv, counts
<1>4. TierFresh' /\ Asked'
  BY <1>1, TiersStay DEF IInv, tiers
<1> QED  BY <1>2, <1>3, <1>4 DEF IInv

LEMMA StepInv == IInv /\ [Next]_vars => IInv'
<1> SUFFICES ASSUME IInv, [Next]_vars PROVE IInv'
  OBVIOUS
<1>1. ASSUME NEW n \in Nodes, Arrive(n) \/ Wait(n) PROVE IInv'
  <2>1. CASE Arrive(n)    BY <2>1, ArriveInv
  <2>2. CASE Lookup(n)    BY <2>2, LookupInv
  <2>3. CASE Store(n)     BY <2>3, StoreInv
  <2>4. CASE UnderCap(n)  BY <2>4, UnderCapInv
  <2>5. CASE Add(n)       BY <2>5, AddInv
  <2> QED  BY <1>1, <2>1, <2>2, <2>3, <2>4, <2>5 DEF Wait
<1>2. ASSUME NEW e \in Edges,
             Fetch(e) \/ Drain(e) \/ Absorb(e) \/ Answered(e) \/ SyncFails(e) \/ RestartEdge(e)
      PROVE  IInv'
  <2>1. CASE Fetch(e)        BY <2>1, FetchInv
  <2>2. CASE Drain(e)        BY <2>2, DrainInv
  <2>3. CASE Absorb(e)       BY <2>3, AbsorbInv
  <2>4. CASE Answered(e)     BY <2>4, AnsweredInv
  <2>5. CASE SyncFails(e)    BY <2>5, SyncFailsInv
  <2>6. CASE RestartEdge(e)  BY <2>6, RestartEdgeInv
  <2> QED  BY <1>2, <2>1, <2>2, <2>3, <2>4, <2>5, <2>6
<1>3. CASE Pay                     BY <1>3, PayInv
<1>4. CASE InvalidateUser          BY <1>4, InvalidateUserInv
<1>5. CASE Snapshot \/ WriteTotal  BY <1>5, SnapshotWriteInv
<1>6. CASE RestartLogin            BY <1>6, RestartLoginInv
<1>7. CASE NewMonth                BY <1>7, NewMonthInv
<1>8. CASE UNCHANGED vars          BY <1>8, StutterInv
<1> QED  BY <1>1, <1>2, <1>3, <1>4, <1>5, <1>6, <1>7, <1>8 DEF Next

LEMMA Invariant == Spec => []IInv
<1>1. IInv /\ [Next]_vars => IInv'
  BY StepInv
<1> QED  BY <1>1, InitInv, PTL DEF Spec

\* The counters, tiers, flags and syncs keep their types: no count is negative.
THEOREM TypeCorrect == Spec => []TypeOK
<1>1. IInv => TypeOK
  BY DEF IInv
<1> QED  BY <1>1, Invariant, PTL

\* What is relayed is counted once over all nodes and syncs, and login's tier is
\* the user's (bandwidth.go: Wait, DrainCounters, AddUsage, userTier).
THEOREM MeterIsSound == Spec => []MeterSound
<1>1. IInv => MeterSound
  BY DEF IInv, MeterSound
<1> QED  BY <1>1, Invariant, PTL
-----------------------------------------------------------------------------
(* OrgEntitlements *)

(* The invariant *)

\* The steps each handler has.
Fits(op, step) ==
    /\ op = "none" => step = "idle"
    /\ op = "invite" => step = "invite"
    /\ op = "revoke" => step = "revoke"
    /\ op = "accept" => step \in {"consume", "join", "grant", "seat", "entitle", "pro", "readOrgs", "setOrgs"}
    /\ op = "remove" => step \in {"unjoin", "ungrant", "disentitle", "retier", "setTier", "readOrgs", "setOrgs"}
    /\ op = "delete" => step \in {"mayDelete", "delete"}
    /\ op = "upgrade" => step \in {"mayGrow", "grow", "buy", "maxSeats", "list", "growPick", "buyPick",
                                 "seat", "entitle", "pro"}
    /\ op = "cancel" => step \in {"mayCancel", "cancel", "readEnts", "deleteEnts", "retierPick", "retier", "setTier"}
    /\ op = "personal" => step \in {"mayBuy", "buy", "entitle", "pro"}
    /\ op = "downgrade" => step \in {"mayCancel", "cancel", "disentitle", "retier", "setTier"}
\* Steps that use the subscription a request has found or written.
OfSub == {"seat", "entitle", "pro", "disentitle", "grow", "cancel", "readEnts", "deleteEnts",
          "maxSeats", "list", "growPick", "buyPick"}
RoleOrNone == Roles \union {"none"}

\* What a request has read by the time of each of its steps; a purchase goes on
\* while it has seats left.
HasRead(r) ==
    /\ Fits(r.op, r.pc)
    /\ r.op \notin {"none", "revoke"} => r.who \in Users
    /\ r.op = "remove" => r.who # Owner
    /\ r.pc \in {"consume", "join", "revoke"} => r.key \in Invites
    /\ r.pc \in OfSub => r.key \in Subs
    /\ r.op = "accept" /\ r.pc # "setOrgs" => r.val \in RoleOrNone
    /\ r.op = "personal" => r.val = "none" /\ r.n = 1
    /\ r.op = "upgrade" /\ r.pc \in {"maxSeats", "list", "entitle", "pro"} => r.val \in {"grow", "buy"}
    /\ r.op = "upgrade" /\ r.pc \in {"grow", "growPick", "seat"} => r.val = "grow"
    /\ r.op = "upgrade" /\ r.pc \in {"buy", "buyPick"} => r.val = "buy"
    /\ r.pc = "setTier" => r.val \in {"pro", "free"}
    /\ r.op \notin {"upgrade", "cancel"} => r.todo = {}
Carries(r) == HasRead(r) /\ (r.val = "buy" /\ r.pc \in {"entitle", "pro"} => r.n > 0)

\* An invite that may still be used has not been, and is somebody's; a token
\* that was never given out has no row.
InviteTypes ==
    \A t \in Invites :
        /\ invites[t].state \in {"none", "pending"} => taken[t] = 0
        /\ invites[t].state \in {"pending", "claimed"} => invites[t].to \in Users
        /\ taken[t] <= 1

\* A request that has looked at an invite is its owner's; what it has used is a
\* row with its role, as long as there is an organisation.
Accepts(r) ==
    /\ r.pc = "consume" => /\ invites[r.key].state # "none"
                           /\ invites[r.key].state = "pending" => invites[r.key].to = r.who
    /\ r.pc = "join" /\ org = "live" =>
          invites[r.key] = [to |-> r.who, role |-> r.val, state |-> "claimed"]

InvitesInv ==
    /\ OrgTypeOK
    /\ \A p \in Procs : Carries(rq[p]) /\ Accepts(rq[p])
    /\ InviteTypes /\ MembershipSound

\* While requests come one at a time: the users whose tier may be wrong, and the
\* user whose streams may be, in the course of a request.
Unsettled(r) ==
    IF r.pc = "pro" \/ (r.pc = "disentitle" /\ r.op = "downgrade") THEN {r.who}
    ELSE IF r.pc \in {"retier", "setTier"} THEN {r.who} \union r.todo
    ELSE IF r.pc = "readEnts" THEN {u \in Users : <<u, r.key>> \in ents}
    ELSE IF r.pc \in {"deleteEnts", "retierPick"} THEN r.todo
    ELSE {}
Unlisted(r) == IF r.op \in {"accept", "remove"} /\ r.pc # "consume" THEN {r.who} ELSE {}

TiersRight(S) == \A u \in Users \ S : userTier[u] = "pro" <=> IsUserPro(u)
Follow(S) == org = "live" => \A u \in Users \ ({Owner} \union S) : u \in listed <=> u \in MemberSet

\* Entitlements are to what was bought, a personal subscription's to its user;
\* seats are not exceeded; the organisation has one subscription.
Bought ==
    /\ \A e \in ents : subs[e[2]].status # "none" /\ (subs[e[2]].of # Org => subs[e[2]].of = e[1])
    /\ \A s \in Subs : subs[s].status = "none" => subs[s] = NoSub
Active(s) == subs[s].status = "active"
OrgSub(s) == Active(s) /\ subs[s].of = Org
SeatsKept == \A s \in Subs : CountEntitlementsBySub(s) <= subs[s].seats
OneSub == \A s, t \in Subs : OrgSub(s) /\ OrgSub(t) => s = t

\* What the request under way knows of the tables.
Knows(r) ==
    /\ r.pc = "seat" => OrgSub(r.key) /\ r.n = subs[r.key].seats
    /\ r.pc \in {"maxSeats", "list", "growPick"} /\ r.val = "grow" =>
          OrgSub(r.key) /\ r.n = subs[r.key].seats
    /\ r.pc \in {"maxSeats", "list", "buyPick"} /\ r.val = "buy" =>
          OrgSub(r.key) /\ CountEntitlementsBySub(r.key) + r.n <= subs[r.key].seats
    /\ r.pc = "grow" => OrgSub(r.key) /\ r.n >= subs[r.key].seats
    /\ r.pc = "buy" /\ r.op = "upgrade" => \A s \in Subs : ~OrgSub(s)
    /\ r.pc = "entitle" =>
          /\ Active(r.key) /\ subs[r.key].of \in {Org, r.who}
          /\ r.val = "grow" => r.n = subs[r.key].seats
          /\ CountEntitlementsBySub(r.key) + (IF r.val = "buy" THEN r.n ELSE 1) <= subs[r.key].seats
          /\ r.op = "upgrade" => OrgSub(r.key)
    /\ r.pc = "pro" =>
          /\ Active(r.key) /\ <<r.who, r.key>> \in ents
          /\ r.op = "upgrade" => OrgSub(r.key)
          /\ r.val = "grow" => r.n = subs[r.key].seats
          /\ r.val = "buy" => CountEntitlementsBySub(r.key) + (r.n - 1) <= subs[r.key].seats
    /\ r.pc = "cancel" /\ r.op = "downgrade" => subs[r.key].of = r.who
    /\ r.pc \in {"readEnts", "deleteEnts"} => subs[r.key].status = "canceled"
    /\ r.pc = "deleteEnts" => \A u \in Users : <<u, r.key>> \in ents => u \in r.todo
    /\ r.pc = "setTier" => (r.val = "pro" <=> IsUserPro(r.who))
    /\ r.pc = "setOrgs" => (r.val = "in" <=> r.who \in MemberSet)


\* What holds in the course of request r when there is no other, ...
Sound(r) == Bought /\ SeatsKept /\ OneSub /\ TiersRight(Unsettled(r)) /\ Follow(Unlisted(r)) /\ Knows(r)
\* ... and between requests.
OneByOne ==
    /\ \A p, q \in Procs : rq[p].pc # "idle" /\ rq[q].pc # "idle" => p = q
    /\ Busy = {} => Sound(Idle)
    /\ \A p \in Busy : Sound(rq[p])

OrgInv == InvitesInv /\ (clean => OneByOne)
-----------------------------------------------------------------------------
(* Requests *)

LEMMA Asks ==
    ASSUME NEW op \in Ops, NEW step \in Pcs, NEW who \in Users \union {None}, NEW key \in Nat, NEW n \in Nat
    PROVE  LET r == Request(op, step, who, key, n) IN
           /\ r \in Requests
           /\ r.op = op /\ r.pc = step /\ r.who = who /\ r.key = key /\ r.n = n
           /\ r.todo = {} /\ r.val = "none"
BY DEF Request, Requests, Vals

LEMMA ToIs ==
    ASSUME NEW r \in Requests, NEW step \in Pcs
    PROVE  LET q == To(r, step) IN
           /\ q \in Requests /\ q.op = r.op /\ q.pc = step /\ q.who = r.who /\ q.key = r.key
           /\ q.n = r.n /\ q.todo = r.todo /\ q.val = r.val
BY DEF To, Requests

LEMMA ReadsIs ==
    ASSUME NEW r \in Requests, NEW step \in Pcs, NEW val \in Vals
    PROVE  LET q == Reads(r, step, val) IN
           /\ q \in Requests /\ q.op = r.op /\ q.pc = step /\ q.who = r.who /\ q.key = r.key
           /\ q.n = r.n /\ q.todo = r.todo /\ q.val = val
BY DEF Reads, Requests

LEMMA FindsIs ==
    ASSUME NEW r \in Requests, NEW step \in Pcs, NEW key \in Nat
    PROVE  LET q == Finds(r, step, key) IN
           /\ q \in Requests /\ q.op = r.op /\ q.pc = step /\ q.who = r.who /\ q.key = key
           /\ q.n = r.n /\ q.todo = r.todo /\ q.val = r.val
BY DEF Finds, Requests

LEMMA ListsIs ==
    ASSUME NEW r \in Requests, NEW step \in Pcs, NEW todo \in SUBSET Users
    PROVE  LET q == Lists(r, step, todo) IN
           /\ q \in Requests /\ q.op = r.op /\ q.pc = step /\ q.who = r.who /\ q.key = r.key
           /\ q.n = r.n /\ q.todo = todo /\ q.val = r.val
BY DEF Lists, Requests

LEMMA CountsIs ==
    ASSUME NEW r \in Requests, NEW n \in Nat
    PROVE  LET q == Counts(r, n) IN
           /\ q \in Requests /\ q.op = r.op /\ q.pc = r.pc /\ q.who = r.who /\ q.key = r.key
           /\ q.n = n /\ q.todo = r.todo /\ q.val = r.val
BY DEF Counts, Requests

LEMMA ForIs ==
    ASSUME NEW r \in Requests, NEW who \in Users
    PROVE  LET q == For(r, who) IN
           /\ q \in Requests /\ q.op = r.op /\ q.pc = r.pc /\ q.who = who /\ q.key = r.key
           /\ q.n = r.n /\ q.todo = r.todo /\ q.val = r.val
BY DEF For, Requests

LEMMA IdleIs ==
    /\ Idle \in Requests /\ Idle.op = "none" /\ Idle.pc = "idle" /\ Idle.todo = {} /\ Idle.val = "none"
    /\ Carries(Idle)
<1>1. /\ Idle \in Requests /\ Idle.op = "none" /\ Idle.pc = "idle" /\ Idle.todo = {} /\ Idle.val = "none"
  <2>1. "none" \in Ops /\ "idle" \in Pcs /\ None \in Users \union {None} /\ 0 \in Nat
    BY DEF Ops, Pcs
  <2>2. Idle = Request("none", "idle", None, 0, 0)
    BY DEF Idle
  <2> QED  BY <2>1, <2>2, Asks
<1> QED  BY <1>1 DEF Carries, HasRead, Fits, OfSub

LEMMA GivenIs ==
    ASSUME NEW r \in Requests, r.val = "buy" => r.n > 0
    PROVE  LET q == Given(r) IN
           /\ q \in Requests /\ q.op = r.op /\ q.pc = r.pc /\ q.who = r.who /\ q.key = r.key
           /\ q.n = (IF r.val = "buy" THEN r.n - 1 ELSE r.n) /\ q.todo = r.todo /\ q.val = r.val
<1>1. CASE r.val = "buy"
  <2>1. r.n - 1 \in Nat
    BY <1>1 DEF Requests
  <2> QED  BY <1>1, <2>1, CountsIs DEF Given
<1>2. CASE r.val # "buy"
  BY <1>2 DEF Given
<1> QED  BY <1>1, <1>2

\* Where a handler goes after one user.
LEMMA NextIs ==
    ASSUME NEW r \in Requests, HasRead(r), r.pc \in {"seat", "entitle", "pro", "setTier"}
    PROVE  LET q == Next1(r) IN
           /\ q \in Requests /\ Carries(q)
           /\ q = Idle \/ (q.op = r.op /\ q.who = r.who /\ q.key = r.key /\ q.n = r.n
                           /\ q.todo = r.todo /\ q.val = r.val)
           /\ r.op \in {"accept", "remove"} => q.pc = "readOrgs"
           /\ r.op = "upgrade" => q.pc = IF r.val = "grow" THEN "growPick" ELSE "buyPick"
           /\ r.op = "cancel" => q.pc = "retierPick"
           /\ r.op \in {"personal", "downgrade"} => q = Idle
<1>0. r.op \in {"accept", "remove", "upgrade", "cancel", "personal", "downgrade"}
  BY DEF Carries, HasRead, Fits, Requests, Ops
<1>1. CASE r.op \in {"accept", "remove"}
  <2>1. Next1(r) = To(r, "readOrgs")
    BY <1>1 DEF Next1
  <2> QED  BY <1>1, <2>1, ToIs DEF Pcs, Carries, HasRead, Fits, OfSub
<1>2. CASE r.op = "upgrade"
  <2>1. Next1(r) = To(r, IF r.val = "grow" THEN "growPick" ELSE "buyPick")
    BY <1>2 DEF Next1
  <2>2. r.val \in {"grow", "buy"} /\ r.key \in Subs
    BY <1>2 DEF Carries, HasRead, Fits, OfSub
  <2> QED  BY <1>2, <2>1, <2>2, ToIs DEF Pcs, Carries, HasRead, Fits, OfSub
<1>3. CASE r.op = "cancel"
  <2>1. Next1(r) = To(r, "retierPick")
    BY <1>3 DEF Next1
  <2> QED  BY <1>3, <2>1, ToIs DEF Pcs, Carries, HasRead, Fits, OfSub
<1>4. CASE r.op \in {"personal", "downgrade"}
  <2>1. Next1(r) = Idle
    BY <1>4 DEF Next1
  <2> QED  BY <1>4, <2>1, IdleIs
<1> QED  BY <1>0, <1>1, <1>2, <1>3, <1>4
-----------------------------------------------------------------------------
(* A step *)

PayTypes ==
    /\ subs \in [Subs -> [of : Users \union {None, Org},
                          status : {"none", "active", "canceled"}, seats : Nat]]
    /\ ents \subseteq Users \X Subs
    /\ userTier \in [Users -> {"free", "pro"}] /\ listed \subseteq Users
OrgTypes ==
    /\ org \in {"live", "deleted"} /\ maxSeats \in Nat
    /\ members \in [Users -> Roles \union {"none"}]
    /\ invites \in [Invites -> [to : Users \union {None}, role : Roles \union {"none"},
                                state : {"none", "pending", "claimed", "revoked"}]]
    /\ taken \in [Invites -> Nat]
RunTypes == made \in Nat /\ failures \in Nat /\ clean \in BOOLEAN

LEMMA Typed == OrgTypeOK <=> PayTypes /\ OrgTypes /\ RunTypes /\ rq \in [Procs -> Requests]
BY DEF OrgTypeOK, PayTypes, OrgTypes, RunTypes

LEMMA Sets ==
    ASSUME InvitesInv, NEW p \in Procs, NEW r \in Requests, Carries(r), Set(p, r)
    PROVE  /\ rq' \in [Procs -> Requests] /\ rq'[p] = r
           /\ \A q \in Procs \ {p} : rq'[q] = rq[q]
           /\ \A q \in Procs : Carries(rq'[q])
<1>1. rq \in [Procs -> Requests]
  BY Typed DEF InvitesInv
<1>2. /\ rq' \in [Procs -> Requests] /\ rq'[p] = r
      /\ \A q \in Procs \ {p} : rq'[q] = rq[q]
  BY <1>1 DEF Set
<1> QED  BY <1>2 DEF InvitesInv

\* A step of the request that p handles, which goes on as r.
LEMMA Steps ==
    ASSUME OrgInv, NEW p \in Procs, NEW r \in Requests, Carries(r), Set(p, r),
           clean' => rq[p].pc # "idle" \/ Busy = {},
           PayTypes', OrgTypes', RunTypes', InviteTypes', MembershipSound', Accepts(r)',
           \A q \in Procs \ {p} : Accepts(rq[q])',
           clean' => clean /\ ((rq[p].pc # "idle" => Sound(rq[p])) => Sound(r)')
    PROVE  OrgInv'
<1> USE DEF OrgInv
<1>1. /\ rq' \in [Procs -> Requests] /\ rq'[p] = r
      /\ \A q \in Procs \ {p} : rq'[q] = rq[q]
      /\ \A q \in Procs : Carries(rq'[q])
  BY Sets
<1>2. OrgTypeOK'
  BY <1>1 DEF OrgTypeOK, PayTypes, OrgTypes, RunTypes
<1>3. \A q \in Procs : Accepts(rq[q])'
  BY <1>1 DEF Accepts
<1>4. InvitesInv'
  BY <1>1, <1>2, <1>3 DEF InvitesInv
<1>5. ASSUME clean' PROVE OneByOne'
  <2>1. OneByOne
    BY <1>5
  <2>2. \A q \in Procs \ {p} : rq[q].pc = "idle"
    BY <1>5, <2>1 DEF OneByOne, Busy
  <2>3. rq[p].pc # "idle" => Sound(rq[p])
    BY <2>1 DEF OneByOne, Busy
  <2>4. Sound(r)'
    BY <1>5, <2>3
  <2>5. r.pc = "idle" => Sound(Idle)'
    <3> SUFFICES ASSUME r.pc = "idle" PROVE Sound(Idle)'
      OBVIOUS
    <3>1. r.op = "none"
      BY DEF Carries, HasRead, Fits, Requests, Ops
    <3>2. Unsettled(r)' = {} /\ Unlisted(r)' = {} /\ Unsettled(Idle)' = {} /\ Unlisted(Idle)' = {}
      BY <3>1, IdleIs DEF Unsettled, Unlisted
    <3>3. Knows(Idle)'
      BY IdleIs DEF Knows
    <3> QED  BY <2>4, <3>2, <3>3 DEF Sound, TiersRight, Follow
  <2>6. Busy' \subseteq {p}
    BY <1>1, <2>2 DEF Busy
  <2>7. Busy' = {} => r.pc = "idle"
    BY <1>1 DEF Busy
  <2>8. \A q \in Busy' : Sound(rq[q])'
    BY <1>1, <2>4, <2>6
  <2> QED  BY <1>1, <2>2, <2>5, <2>6, <2>7, <2>8 DEF OneByOne
<1> QED  BY <1>4, <1>5
-----------------------------------------------------------------------------
(* Queries *)

LEMMA MinIn == ASSUME NEW S \in SUBSET Nat, S # {} PROVE Min(S) \in S
<1>1. \E n \in S : \A m \in S : n <= m
  BY LeastNat
<1> QED  BY <1>1 DEF Min

LEMMA ActiveIs ==
    ASSUME InvitesInv, NEW w
    PROVE  /\ ActiveSub(w) \in Nat
           /\ ActiveSub(w) # 0 => /\ ActiveSub(w) \in Subs /\ subs[ActiveSub(w)].of = w
                                 /\ Active(ActiveSub(w)) /\ subs[ActiveSub(w)].seats \in Nat
           /\ ActiveSub(w) = 0 => \A s \in Subs : ~(Active(s) /\ subs[s].of = w)
<1> DEFINE A == {s \in Subs : subs[s].of = w /\ subs[s].status = "active"}
<1>1. A \in SUBSET Nat /\ 0 \notin A
  BY DEF Subs
<1>2. ActiveSub(w) = IF A = {} THEN 0 ELSE Min(A)
  BY DEF ActiveSub
<1>3. A # {} => Min(A) \in A
  BY <1>1, MinIn
<1>4. \A s \in Subs : subs[s].seats \in Nat
  BY Typed DEF InvitesInv, PayTypes
<1> QED  BY <1>1, <1>2, <1>3, <1>4 DEF Active

LEMMA CountIs ==
    \A s : CountEntitlementsBySub(s) \in Nat /\ IsFiniteSet({u \in Users : <<u, s>> \in ents})
<1> SUFFICES ASSUME NEW s
             PROVE  CountEntitlementsBySub(s) \in Nat /\ IsFiniteSet({u \in Users : <<u, s>> \in ents})
  OBVIOUS
<1>1. {u \in Users : <<u, s>> \in ents} \in SUBSET Users
  OBVIOUS
<1>2. IsFiniteSet({u \in Users : <<u, s>> \in ents})
  BY <1>1, OrgAssumption, FS_Subset
<1> QED  BY <1>2, FS_CardinalityType DEF CountEntitlementsBySub

\* Steps that change no invite and no member.
LEMMA PaySteps ==
    ASSUME OrgInv, NEW p \in Procs, NEW r \in Requests, Carries(r), Set(p, r),
           clean' => rq[p].pc # "idle" \/ Busy = {}, r.pc \notin {"consume", "join"},
           UNCHANGED <<org, maxSeats, members, invites, taken>>, PayTypes', RunTypes',
           clean' => clean /\ ((rq[p].pc # "idle" => Sound(rq[p])) => Sound(r)')
    PROVE  OrgInv'
<1>1. OrgTypes' /\ InviteTypes' /\ MembershipSound'
  BY Typed DEF OrgInv, InvitesInv, OrgTypes, InviteTypes, MembershipSound, MemberSet
<1>2. Accepts(r)' /\ \A q \in Procs \ {p} : Accepts(rq[q])'
  <2>1. \A q \in Procs \ {p} : rq'[q] = rq[q] /\ Accepts(rq[q])
    BY Sets DEF OrgInv, InvitesInv
  <2> QED  BY <2>1 DEF Accepts
<1> QED  BY <1>1, <1>2, Steps

LEMMA SoundStays ==
    ASSUME NEW r, UNCHANGED <<org, members, subs, ents, userTier, listed>>, Sound(r)
    PROVE  Sound(r)'
<1>1. UNCHANGED <<Bought, SeatsKept, OneSub, Unsettled(r), Unlisted(r)>>
  BY DEF Bought, SeatsKept, OneSub, Unsettled, Unlisted, OrgSub, Active, CountEntitlementsBySub
<1>2. \A s : CountEntitlementsBySub(s)' = CountEntitlementsBySub(s)
  BY DEF CountEntitlementsBySub
<1>3. TiersRight(Unsettled(r)) => TiersRight(Unsettled(r))'
  BY <1>1 DEF TiersRight, IsUserPro
<1>4. Follow(Unlisted(r)) => Follow(Unlisted(r))'
  BY <1>1 DEF Follow, MemberSet
<1>5. Knows(r) => Knows(r)'
  BY <1>2 DEF Knows, OrgSub, Active, IsUserPro, MemberSet
<1> QED  BY <1>1, <1>3, <1>4, <1>5 DEF Sound

\* Steps that only read.
LEMMA ReadSteps ==
    ASSUME OrgInv, NEW p \in Procs, NEW r \in Requests, Carries(r), Set(p, r),
           rq[p].pc # "idle", r.pc \notin {"consume", "join"},
           UNCHANGED <<orgVars, paidVars, listed, runVars>>, clean /\ Sound(rq[p]) => Sound(r)
    PROVE  OrgInv'
<1>1. PayTypes' /\ RunTypes'
  BY Typed DEF OrgInv, InvitesInv, PayTypes, RunTypes, orgVars, paidVars, runVars
<1>2. Sound(r) => Sound(r)'
  BY SoundStays DEF orgVars, paidVars
<1> QED  BY <1>1, <1>2, PaySteps DEF orgVars, runVars
-----------------------------------------------------------------------------
(* Steps that only read *)

LEMMA Underway ==
    ASSUME OrgInv, NEW p \in Procs
    PROVE  rq[p] \in Requests /\ Carries(rq[p]) /\ Fits(rq[p].op, rq[p].pc) /\ rq[p].op \in Ops
BY Typed DEF OrgInv, InvitesInv, Carries, HasRead, Requests

\* A request that ends, with nothing left to do.
LEMMA EndSteps ==
    ASSUME OrgInv, NEW p \in Procs, Set(p, Idle), rq[p].pc # "idle",
           UNCHANGED <<orgVars, paidVars, listed, runVars>>, Unsettled(rq[p]) = {}, Unlisted(rq[p]) = {}
    PROVE  OrgInv'
<1>1. Unsettled(Idle) = {} /\ Unlisted(Idle) = {} /\ Knows(Idle)
  BY IdleIs DEF Unsettled, Unlisted, Knows
<1>2. Sound(rq[p]) => Sound(Idle)
  BY <1>1 DEF Sound
<1> QED  BY <1>2, IdleIs, ReadSteps

LEMMA MayDeleteInv == ASSUME OrgInv, NEW p \in Procs, MayDelete(p) PROVE OrgInv'
<1> USE DEF MayDelete, At, Go, End
<1>0. rq[p] \in Requests /\ Carries(rq[p])
  BY Underway
<1>1. PICK r : r \in {Idle, To(rq[p], "delete")} /\ Set(p, r)
  OBVIOUS
<1>2. r \in Requests /\ Carries(r) /\ r.pc \in {"idle", "delete"} /\ r.op \in {"none", "delete"}
  <2>1. rq[p].op = "delete"
    BY <1>0 DEF Carries, HasRead, Fits, Requests, Ops
  <2> QED  BY <1>0, <1>1, <2>1, IdleIs, ToIs DEF Carries, HasRead, Fits, OfSub, Pcs
<1>3. Sound(rq[p]) => Sound(r)
  BY <1>0, <1>2 DEF Sound, Unsettled, Unlisted, Knows, Carries, HasRead, Fits, Requests, Ops
<1> QED  BY <1>1, <1>2, <1>3, ReadSteps

LEMMA ReadOrgsInv == ASSUME OrgInv, NEW p \in Procs, ReadOrgs(p) PROVE OrgInv'
<1> USE DEF ReadOrgs, At
<1>0. rq[p] \in Requests /\ Carries(rq[p])
  BY Underway
<1> DEFINE v == IF rq[p].who \in MemberSet THEN "in" ELSE "out"
           r == Reads(rq[p], "setOrgs", v)
<1>2. /\ r \in Requests /\ Carries(r) /\ r.pc = "setOrgs" /\ r.op = rq[p].op
      /\ r.op \in {"accept", "remove"} /\ r.who = rq[p].who /\ r.val = v
  <2>1. rq[p].op \in {"accept", "remove"}
    BY <1>0 DEF Carries, HasRead, Fits, Requests, Ops
  <2> QED  BY <1>0, <2>1, ReadsIs DEF Carries, HasRead, Fits, OfSub, Pcs, Vals
<1>3. Set(p, r)
  OBVIOUS
<1>4. v = "in" <=> rq[p].who \in MemberSet
  OBVIOUS
<1> HIDE DEF r, v
<1>5. Sound(rq[p]) => Sound(r)
  BY <1>0, <1>2, <1>4 DEF Sound, Unsettled, Unlisted, Knows
<1> QED  BY <1>2, <1>3, <1>5, ReadSteps

LEMMA GrantSubInv == ASSUME OrgInv, NEW p \in Procs, GrantSub(p) PROVE OrgInv'
<1>0. rq[p] \in Requests /\ Carries(rq[p])
  BY Underway
<1> DEFINE s == ActiveSub(Org)
<1>b. s \in Nat /\ (s # 0 => s \in Subs /\ OrgSub(s) /\ subs[s].seats \in Nat)
  BY ActiveIs DEF OrgInv, OrgSub
<1>c. /\ rq[p].pc = "grant" /\ UNCHANGED <<orgVars, paidVars, listed, runVars>>
      /\ Set(p, IF s = 0 THEN To(rq[p], "readOrgs") ELSE Counts(Finds(rq[p], "seat", s), subs[s].seats))
  BY DEF GrantSub, At
<1> HIDE DEF s
<1>a. rq[p].op = "accept"
  BY <1>0, <1>c DEF Carries, HasRead, Fits, Requests, Ops
<1>1. CASE s = 0
  <2> DEFINE r == To(rq[p], "readOrgs")
  <2>2. /\ r \in Requests /\ Carries(r) /\ r.pc = "readOrgs" /\ r.op = "accept" /\ r.who = rq[p].who
    BY <1>0, <1>a, <1>c, ToIs DEF Carries, HasRead, Fits, OfSub, Pcs
  <2>1. Set(p, r)
    BY <1>1, <1>c
  <2> HIDE DEF r
  <2>3. Sound(rq[p]) => Sound(r)
    BY <1>0, <1>a, <1>c, <2>2 DEF Sound, Unsettled, Unlisted, Knows
  <2> QED  BY <1>c, <2>1, <2>2, <2>3, ReadSteps
<1>2. CASE s # 0
  <2> DEFINE f == Finds(rq[p], "seat", s)
             r == Counts(f, subs[s].seats)
  <2>1. Set(p, r)
    BY <1>2, <1>c
  <2>2. /\ f \in Requests /\ f.pc = "seat" /\ f.op = "accept" /\ f.who = rq[p].who /\ f.key = s
        /\ f.val = rq[p].val /\ f.todo = rq[p].todo
    <3>1. "seat" \in Pcs
      BY DEF Pcs
    <3> QED  BY <1>0, <1>a, <1>b, <3>1, FindsIs
  <2> HIDE DEF f
  <2>3. /\ r \in Requests /\ r.pc = "seat" /\ r.op = "accept" /\ r.who = rq[p].who /\ r.key = s
        /\ r.val = rq[p].val /\ r.n = subs[s].seats /\ r.todo = rq[p].todo
    BY <1>b, <1>2, <2>2, CountsIs
  <2> HIDE DEF r
  <2>4. Carries(r)
    BY <1>0, <1>a, <1>b, <1>c, <1>2, <2>3 DEF Carries, HasRead, Fits, OfSub
  <2>5. Sound(rq[p]) => Sound(r)
    BY <1>0, <1>a, <1>b, <1>c, <1>2, <2>3 DEF Sound, Unsettled, Unlisted, Knows
  <2> QED  BY <1>c, <2>1, <2>3, <2>4, <2>5, ReadSteps
<1> QED  BY <1>1, <1>2

LEMMA SeatInv == ASSUME OrgInv, NEW p \in Procs, Seat(p) PROVE OrgInv'
<1>0. rq[p] \in Requests /\ Carries(rq[p])
  BY Underway
<1>c. /\ rq[p].pc = "seat" /\ UNCHANGED <<orgVars, paidVars, listed, runVars>>
      /\ Set(p, IF CountEntitlementsBySub(rq[p].key) < rq[p].n THEN To(rq[p], "entitle")
                ELSE IF rq[p].op = "accept" THEN Next1(rq[p]) ELSE Idle)
  BY DEF Seat, At
<1>a. rq[p].op \in {"accept", "upgrade"} /\ rq[p].val # "buy"
  BY <1>0, <1>c DEF Carries, HasRead, Fits, Requests, Ops, RoleOrNone, Roles
<1>1. CASE CountEntitlementsBySub(rq[p].key) < rq[p].n
  <2> DEFINE r == To(rq[p], "entitle")
  <2>1. Set(p, r)
    BY <1>1, <1>c
  <2>2. /\ r \in Requests /\ r.pc = "entitle" /\ r.op = rq[p].op /\ r.who = rq[p].who /\ r.key = rq[p].key
        /\ r.n = rq[p].n /\ r.val = rq[p].val /\ r.todo = rq[p].todo
    BY <1>0, ToIs DEF Pcs
  <2> HIDE DEF r
  <2>3. Carries(r)
    BY <1>0, <1>a, <1>c, <2>2 DEF Carries, HasRead, Fits, OfSub
  <2>4. Sound(rq[p]) => Sound(r)
    <3> SUFFICES ASSUME Sound(rq[p]) PROVE Sound(r)
      OBVIOUS
    <3>1. OrgSub(r.key) /\ r.n = subs[r.key].seats
      BY <1>c, <2>2 DEF Sound, Knows
    <3>2. CountEntitlementsBySub(r.key) \in Nat /\ r.n \in Nat
      BY <2>2, CountIs DEF Requests
    <3>3. CountEntitlementsBySub(r.key) + 1 <= subs[r.key].seats
      BY <1>1, <2>2, <3>1, <3>2
    <3>4. Knows(r)
      BY <1>a, <2>2, <3>1, <3>3 DEF Knows, OrgSub
    <3> QED  BY <1>c, <2>2, <3>4 DEF Sound, Unsettled, Unlisted
  <2> QED  BY <1>c, <2>1, <2>2, <2>3, <2>4, ReadSteps
<1>2. CASE ~(CountEntitlementsBySub(rq[p].key) < rq[p].n) /\ rq[p].op = "accept"
  <2> DEFINE r == Next1(rq[p])
  <2>1. Set(p, r)
    BY <1>2, <1>c
  <2>2. /\ r \in Requests /\ Carries(r) /\ r.pc = "readOrgs" /\ r # Idle
        /\ r.op = rq[p].op /\ r.who = rq[p].who
    BY <1>0, <1>c, <1>2, NextIs, IdleIs DEF Carries
  <2> HIDE DEF r
  <2>3. Sound(rq[p]) => Sound(r)
    BY <1>c, <1>2, <2>2 DEF Sound, Unsettled, Unlisted, Knows
  <2> QED  BY <1>c, <2>1, <2>2, <2>3, ReadSteps
<1>3. CASE ~(CountEntitlementsBySub(rq[p].key) < rq[p].n) /\ rq[p].op # "accept"
  <2>1. Unsettled(rq[p]) = {} /\ Unlisted(rq[p]) = {}
    BY <1>a, <1>c, <1>3 DEF Unsettled, Unlisted
  <2> QED  BY <1>c, <1>3, <2>1, EndSteps
<1> QED  BY <1>1, <1>2, <1>3

LEMMA UngrantSubInv == ASSUME OrgInv, NEW p \in Procs, UngrantSub(p) PROVE OrgInv'
<1>0. rq[p] \in Requests /\ Carries(rq[p])
  BY Underway
<1> DEFINE s == ActiveSub(Org)
           r == IF s = 0 THEN To(rq[p], "readOrgs") ELSE Finds(rq[p], "disentitle", s)
<1>b. s \in Nat /\ (s # 0 => s \in Subs)
  BY ActiveIs DEF OrgInv
<1>c. rq[p].pc = "ungrant" /\ UNCHANGED <<orgVars, paidVars, listed, runVars>> /\ Set(p, r)
  BY DEF UngrantSub, At
<1> HIDE DEF s
<1>a. rq[p].op = "remove"
  BY <1>0, <1>c DEF Carries, HasRead, Fits, Requests, Ops
<1>1. /\ r \in Requests /\ r.op = "remove" /\ r.who = rq[p].who /\ r.val = rq[p].val /\ r.todo = rq[p].todo
      /\ r.pc = "readOrgs" \/ (r.pc = "disentitle" /\ r.key \in Subs)
  <2>1. CASE s = 0
    BY <1>0, <1>a, <2>1, ToIs DEF Pcs
  <2>2. CASE s # 0
    <3>1. "disentitle" \in Pcs
      BY DEF Pcs
    <3>2. r = Finds(rq[p], "disentitle", s) /\ s \in Nat /\ s \in Subs
      BY <1>b, <2>2
    <3> HIDE DEF r
    <3> QED  BY <1>0, <1>a, <3>1, <3>2, FindsIs
  <2> QED  BY <2>1, <2>2
<1> HIDE DEF r
<1>2. Carries(r)
  BY <1>0, <1>a, <1>c, <1>1 DEF Carries, HasRead, Fits, OfSub
<1>3. Sound(rq[p]) => Sound(r)
  BY <1>a, <1>c, <1>1 DEF Sound, Unsettled, Unlisted, Knows
<1> QED  BY <1>c, <1>1, <1>2, <1>3, ReadSteps

LEMMA RetierInv == ASSUME OrgInv, NEW p \in Procs, Retier(p) PROVE OrgInv'
<1>0. rq[p] \in Requests /\ Carries(rq[p])
  BY Underway
<1> DEFINE v == IF IsUserPro(rq[p].who) THEN "pro" ELSE "free"
           r == Reads(rq[p], "setTier", v)
<1>c. rq[p].pc = "retier" /\ UNCHANGED <<orgVars, paidVars, listed, runVars>> /\ Set(p, r)
  BY DEF Retier, At
<1>b. v \in {"pro", "free"} /\ (v = "pro" <=> IsUserPro(rq[p].who))
  OBVIOUS
<1> HIDE DEF v
<1>a. rq[p].op \in {"remove", "cancel", "downgrade"}
  BY <1>0, <1>c DEF Carries, HasRead, Fits, Requests, Ops
<1>1. /\ r \in Requests /\ r.pc = "setTier" /\ r.op = rq[p].op /\ r.who = rq[p].who /\ r.val = v
      /\ r.todo = rq[p].todo
  BY <1>0, <1>b, ReadsIs DEF Pcs, Vals
<1> HIDE DEF r
<1>2. Carries(r)
  BY <1>0, <1>a, <1>b, <1>c, <1>1 DEF Carries, HasRead, Fits, OfSub
<1>3. Sound(rq[p]) => Sound(r)
  BY <1>a, <1>b, <1>c, <1>1 DEF Sound, Unsettled, Unlisted, Knows
<1> QED  BY <1>c, <1>1, <1>2, <1>3, ReadSteps

LEMMA MayGrowInv == ASSUME OrgInv, NEW p \in Procs, MayGrow(p) PROVE OrgInv'
<1>0. rq[p] \in Requests /\ Carries(rq[p])
  BY Underway
<1> DEFINE s == ActiveSub(Org)
<1>b. /\ s \in Nat /\ (s # 0 => s \in Subs /\ OrgSub(s) /\ subs[s].seats \in Nat)
      /\ s = 0 => \A t \in Subs : ~OrgSub(t)
  BY ActiveIs DEF OrgInv, OrgSub
<1>c. /\ rq[p].pc = "mayGrow" /\ UNCHANGED <<orgVars, paidVars, listed, runVars>>
      /\ Set(p, IF s = 0 THEN Reads(rq[p], "buy", "buy")
                ELSE IF rq[p].n <= subs[s].seats THEN Idle
                ELSE Finds(Reads(rq[p], "grow", "grow"), "grow", s))
  BY DEF MayGrow, At
<1> HIDE DEF s
<1>a. rq[p].op = "upgrade"
  BY <1>0, <1>c DEF Carries, HasRead, Fits, Requests, Ops
<1>1. CASE s = 0
  <2> DEFINE r == Reads(rq[p], "buy", "buy")
  <2>1. Set(p, r)
    BY <1>1, <1>c
  <2>2. /\ r \in Requests /\ r.pc = "buy" /\ r.op = "upgrade" /\ r.who = rq[p].who /\ r.val = "buy"
    BY <1>0, <1>a, ReadsIs DEF Pcs, Vals
  <2> HIDE DEF r
  <2>3. Carries(r)
    BY <1>0, <1>a, <1>c, <2>2 DEF Carries, HasRead, Fits, OfSub
  <2>4. Sound(rq[p]) => Sound(r)
    BY <1>a, <1>b, <1>c, <1>1, <2>2 DEF Sound, Unsettled, Unlisted, Knows
  <2> QED  BY <1>c, <2>1, <2>2, <2>3, <2>4, ReadSteps
<1>2. CASE s # 0 /\ rq[p].n <= subs[s].seats
  <2>1. Unsettled(rq[p]) = {} /\ Unlisted(rq[p]) = {}
    BY <1>a, <1>c DEF Unsettled, Unlisted
  <2> QED  BY <1>c, <1>2, <2>1, EndSteps
<1>3. CASE s # 0 /\ ~(rq[p].n <= subs[s].seats)
  <2> DEFINE f == Reads(rq[p], "grow", "grow")
             r == Finds(f, "grow", s)
  <2>1. Set(p, r)
    BY <1>3, <1>c
  <2>0. "grow" \in Pcs /\ "grow" \in Vals
    BY DEF Pcs, Vals
  <2>2. /\ f \in Requests /\ f.op = "upgrade" /\ f.who = rq[p].who
        /\ f.n = rq[p].n /\ f.val = "grow" /\ f.todo = rq[p].todo
    BY <1>0, <1>a, <2>0, ReadsIs
  <2> HIDE DEF f
  <2>3. /\ r \in Requests /\ r.pc = "grow" /\ r.op = "upgrade" /\ r.who = rq[p].who /\ r.key = s
        /\ r.n = rq[p].n /\ r.val = "grow" /\ r.todo = rq[p].todo
    BY <1>b, <2>0, <2>2, FindsIs
  <2> HIDE DEF r
  <2>4. Carries(r)
    BY <1>0, <1>a, <1>b, <1>c, <1>3, <2>3 DEF Carries, HasRead, Fits, OfSub
  <2>6. r.n >= subs[s].seats
    BY <1>b, <1>3, <2>3 DEF Requests
  <2>5. Sound(rq[p]) => Sound(r)
    BY <1>a, <1>b, <1>c, <1>3, <2>3, <2>6 DEF Sound, Unsettled, Unlisted, Knows
  <2> QED  BY <1>c, <2>1, <2>3, <2>4, <2>5, ReadSteps
<1> QED  BY <1>1, <1>2, <1>3

LEMMA ListMembersInv == ASSUME OrgInv, NEW p \in Procs, ListMembers(p) PROVE OrgInv'
<1>0. rq[p] \in Requests /\ Carries(rq[p])
  BY Underway
<1> DEFINE step == IF rq[p].val = "grow" THEN "growPick" ELSE "buyPick"
           r == Lists(rq[p], step, MemberSet)
<1>c. rq[p].pc = "list" /\ UNCHANGED <<orgVars, paidVars, listed, runVars>> /\ Set(p, r)
  BY DEF ListMembers, At
<1>a. rq[p].op = "upgrade" /\ rq[p].val \in {"grow", "buy"}
  BY <1>0, <1>c DEF Carries, HasRead, Fits, Requests, Ops
<1>b. step \in Pcs /\ (rq[p].val = "grow" => step = "growPick") /\ (rq[p].val = "buy" => step = "buyPick")
  BY DEF Pcs
<1> HIDE DEF step
<1>1. /\ r \in Requests /\ r.pc = step /\ r.op = "upgrade" /\ r.who = rq[p].who /\ r.key = rq[p].key
      /\ r.n = rq[p].n /\ r.val = rq[p].val
  BY <1>0, <1>a, <1>b, ListsIs DEF MemberSet
<1> HIDE DEF r
<1>2. Carries(r)
  BY <1>0, <1>a, <1>b, <1>c, <1>1 DEF Carries, HasRead, Fits, OfSub
<1>3. Sound(rq[p]) => Sound(r)
  BY <1>a, <1>b, <1>c, <1>1 DEF Sound, Unsettled, Unlisted, Knows
<1> QED  BY <1>a, <1>b, <1>c, <1>1, <1>2, <1>3, ReadSteps

\* What a loop goes on with.
LEMMA PickIs ==
    ASSUME OrgInv, NEW p \in Procs, NEW step, NEW to \in Pcs, Pick(p, step, to)
    PROVE  /\ rq[p].pc = step /\ UNCHANGED <<orgVars, paidVars, listed, runVars>>
           /\ \/ rq[p].todo = {} /\ Set(p, Idle)
              \/ \E u \in rq[p].todo, r \in Requests :
                    /\ Set(p, r) /\ r.op = rq[p].op /\ r.pc = to /\ r.who = u /\ u \in Users
                    /\ r.key = rq[p].key /\ r.n = rq[p].n /\ r.todo = rq[p].todo \ {u} /\ r.val = rq[p].val
<1>0. rq[p] \in Requests
  BY Underway
<1>1. rq[p].pc = step /\ UNCHANGED <<orgVars, paidVars, listed, runVars>>
  BY DEF Pick, At
<1>2. CASE rq[p].todo = {}
  BY <1>1, <1>2 DEF Pick, End
<1>3. CASE rq[p].todo # {}
  <2>1. PICK u \in rq[p].todo : Set(p, For(Lists(rq[p], to, rq[p].todo \ {u}), u))
    BY <1>3 DEF Pick
  <2>2. u \in Users /\ rq[p].todo \ {u} \in SUBSET Users
    BY <1>0 DEF Requests
  <2> DEFINE f == Lists(rq[p], to, rq[p].todo \ {u})
             r == For(f, u)
  <2>3. /\ f \in Requests /\ f.op = rq[p].op /\ f.pc = to /\ f.key = rq[p].key
        /\ f.n = rq[p].n /\ f.todo = rq[p].todo \ {u} /\ f.val = rq[p].val
    BY <1>0, <2>2, ListsIs
  <2> HIDE DEF f
  <2>4. /\ r \in Requests /\ r.op = rq[p].op /\ r.pc = to /\ r.who = u
        /\ r.key = rq[p].key /\ r.n = rq[p].n /\ r.todo = rq[p].todo \ {u} /\ r.val = rq[p].val
    BY <2>2, <2>3, ForIs
  <2>5. Set(p, r)
    BY <2>1 DEF f
  <2> HIDE DEF r
  <2> QED  BY <1>1, <2>2, <2>4, <2>5
<1> QED  BY <1>2, <1>3

LEMMA GrowPickInv == ASSUME OrgInv, NEW p \in Procs, GrowPick(p) PROVE OrgInv'
<1>0. rq[p] \in Requests /\ Carries(rq[p])
  BY Underway
<1>p. Pick(p, "growPick", "seat") /\ "seat" \in Pcs
  BY DEF GrowPick, Pcs
<1>c. rq[p].pc = "growPick" /\ UNCHANGED <<orgVars, paidVars, listed, runVars>>
  BY <1>p, PickIs
<1>a. rq[p].op = "upgrade" /\ rq[p].val = "grow" /\ rq[p].key \in Subs
  BY <1>0, <1>c DEF Carries, HasRead, Fits, Requests, Ops, OfSub
<1>1. CASE rq[p].todo = {} /\ Set(p, Idle)
  <2>1. Unsettled(rq[p]) = {} /\ Unlisted(rq[p]) = {}
    BY <1>a, <1>c DEF Unsettled, Unlisted
  <2> QED  BY <1>c, <1>1, <2>1, EndSteps
<1>2. ASSUME NEW u \in rq[p].todo, NEW r \in Requests,
             Set(p, r), r.op = rq[p].op, r.pc = "seat", r.who = u, u \in Users,
             r.key = rq[p].key, r.n = rq[p].n, r.todo = rq[p].todo \ {u}, r.val = rq[p].val
      PROVE  OrgInv'
  <2>1. Carries(r)
    BY <1>a, <1>2 DEF Carries, HasRead, Fits, OfSub
  <2>2. Sound(rq[p]) => Sound(r)
    BY <1>a, <1>c, <1>2 DEF Sound, Unsettled, Unlisted, Knows
  <2> QED  BY <1>c, <1>2, <2>1, <2>2, ReadSteps
<1> QED  BY <1>p, <1>1, <1>2, PickIs

LEMMA BuyPickInv == ASSUME OrgInv, NEW p \in Procs, BuyPick(p) PROVE OrgInv'
<1>0. rq[p] \in Requests /\ Carries(rq[p])
  BY Underway
<1>p. "entitle" \in Pcs
  BY DEF Pcs
<1>c. rq[p].pc = "buyPick" /\ UNCHANGED <<orgVars, paidVars, listed, runVars>>
  BY <1>p, PickIs DEF BuyPick, At
<1>a. rq[p].op = "upgrade" /\ rq[p].val = "buy" /\ rq[p].key \in Subs /\ rq[p].n \in Nat
  BY <1>0, <1>c DEF Carries, HasRead, Fits, Requests, Ops, OfSub
<1>1. CASE Set(p, Idle)
  <2>1. Unsettled(rq[p]) = {} /\ Unlisted(rq[p]) = {}
    BY <1>a, <1>c DEF Unsettled, Unlisted
  <2> QED  BY <1>c, <1>1, <2>1, EndSteps
<1>2. ASSUME rq[p].n # 0, NEW u \in rq[p].todo, NEW r \in Requests,
             Set(p, r), r.op = rq[p].op, r.pc = "entitle", r.who = u, u \in Users,
             r.key = rq[p].key, r.n = rq[p].n, r.todo = rq[p].todo \ {u}, r.val = rq[p].val
      PROVE  OrgInv'
  <2>1. Carries(r)
    BY <1>a, <1>2 DEF Carries, HasRead, Fits, OfSub
  <2>2. Sound(rq[p]) => Sound(r)
    BY <1>a, <1>c, <1>2 DEF Sound, Unsettled, Unlisted, Knows, OrgSub
  <2> QED  BY <1>c, <1>2, <2>1, <2>2, ReadSteps
<1>3. CASE rq[p].n = 0
  BY <1>1, <1>3 DEF BuyPick, End
<1>4. CASE rq[p].n # 0
  <2>1. Pick(p, "buyPick", "entitle")
    BY <1>4 DEF BuyPick
  <2> QED  BY <1>p, <1>1, <1>2, <1>4, <2>1, PickIs
<1> QED  BY <1>3, <1>4

LEMMA RetierPickInv == ASSUME OrgInv, NEW p \in Procs, RetierPick(p) PROVE OrgInv'
<1>0. rq[p] \in Requests /\ Carries(rq[p])
  BY Underway
<1>p. Pick(p, "retierPick", "retier") /\ "retier" \in Pcs
  BY DEF RetierPick, Pcs
<1>c. rq[p].pc = "retierPick" /\ UNCHANGED <<orgVars, paidVars, listed, runVars>>
  BY <1>p, PickIs
<1>a. rq[p].op = "cancel"
  BY <1>0, <1>c DEF Carries, HasRead, Fits, Requests, Ops
<1>1. CASE rq[p].todo = {} /\ Set(p, Idle)
  <2>1. Unsettled(rq[p]) = {} /\ Unlisted(rq[p]) = {}
    BY <1>a, <1>c, <1>1 DEF Unsettled, Unlisted
  <2> QED  BY <1>c, <1>1, <2>1, EndSteps
<1>2. ASSUME NEW u \in rq[p].todo, NEW r \in Requests,
             Set(p, r), r.op = rq[p].op, r.pc = "retier", r.who = u, u \in Users,
             r.key = rq[p].key, r.n = rq[p].n, r.todo = rq[p].todo \ {u}, r.val = rq[p].val
      PROVE  OrgInv'
  <2>1. Carries(r)
    BY <1>a, <1>2 DEF Carries, HasRead, Fits, OfSub
  <2>2. Unsettled(r) = Unsettled(rq[p])
    BY <1>a, <1>c, <1>2 DEF Unsettled
  <2>3. Sound(rq[p]) => Sound(r)
    BY <1>a, <1>c, <1>2, <2>2 DEF Sound, Unlisted, Knows
  <2> QED  BY <1>c, <1>2, <2>1, <2>3, ReadSteps
<1> QED  BY <1>p, <1>1, <1>2, PickIs

LEMMA MayCancelInv == ASSUME OrgInv, NEW p \in Procs, MayCancel(p) PROVE OrgInv'
<1>0. rq[p] \in Requests /\ Carries(rq[p])
  BY Underway
<1> DEFINE w == IF rq[p].op = "cancel" THEN Org ELSE rq[p].who
           s == ActiveSub(w)
<1>b. /\ s \in Nat /\ (s # 0 => s \in Subs /\ subs[s].of = w)
  BY ActiveIs DEF OrgInv
<1>d. rq[p].op = "downgrade" => w = rq[p].who
  OBVIOUS
<1>c. /\ rq[p].pc = "mayCancel" /\ UNCHANGED <<orgVars, paidVars, listed, runVars>>
      /\ Set(p, IF s = 0 THEN Idle ELSE Finds(rq[p], "cancel", s))
  BY DEF MayCancel, At
<1> HIDE DEF s, w
<1>a. rq[p].op \in {"cancel", "downgrade"}
  BY <1>0, <1>c DEF Carries, HasRead, Fits, Requests, Ops
<1>1. CASE s = 0
  <2>1. Unsettled(rq[p]) = {} /\ Unlisted(rq[p]) = {}
    BY <1>a, <1>c DEF Unsettled, Unlisted
  <2> QED  BY <1>c, <1>1, <2>1, EndSteps
<1>2. CASE s # 0
  <2> DEFINE r == Finds(rq[p], "cancel", s)
  <2>0. "cancel" \in Pcs
    BY DEF Pcs
  <2>1. Set(p, r)
    BY <1>2, <1>c
  <2>2. /\ r \in Requests /\ r.pc = "cancel" /\ r.op = rq[p].op /\ r.who = rq[p].who /\ r.key = s
        /\ r.todo = rq[p].todo /\ r.val = rq[p].val
    BY <1>0, <1>b, <2>0, FindsIs
  <2> HIDE DEF r
  <2>3. Carries(r)
    BY <1>0, <1>a, <1>b, <1>c, <1>2, <2>2 DEF Carries, HasRead, Fits, OfSub
  <2>4. Sound(rq[p]) => Sound(r)
    BY <1>a, <1>b, <1>c, <1>d, <1>2, <2>2 DEF Sound, Unsettled, Unlisted, Knows
  <2> QED  BY <1>c, <2>1, <2>2, <2>3, <2>4, ReadSteps
<1> QED  BY <1>1, <1>2

LEMMA ReadEntsInv == ASSUME OrgInv, NEW p \in Procs, ReadEnts(p) PROVE OrgInv'
<1>0. rq[p] \in Requests /\ Carries(rq[p])
  BY Underway
<1> DEFINE S == {u \in Users : <<u, rq[p].key>> \in ents}
           r == Lists(rq[p], "deleteEnts", S)
<1>c. rq[p].pc = "readEnts" /\ UNCHANGED <<orgVars, paidVars, listed, runVars>> /\ Set(p, r)
  BY DEF ReadEnts, At
<1>a. rq[p].op = "cancel" /\ rq[p].key \in Subs
  BY <1>0, <1>c DEF Carries, HasRead, Fits, Requests, Ops, OfSub
<1>b. S \in SUBSET Users /\ "deleteEnts" \in Pcs
  BY DEF Pcs
<1>1. /\ r \in Requests /\ r.pc = "deleteEnts" /\ r.op = "cancel" /\ r.who = rq[p].who /\ r.key = rq[p].key
      /\ r.val = rq[p].val /\ r.todo = S
  <2> HIDE DEF S
  <2> QED  BY <1>0, <1>a, <1>b, ListsIs
<1> HIDE DEF r
<1>2. Carries(r)
  BY <1>0, <1>a, <1>c, <1>1 DEF Carries, HasRead, Fits, OfSub
<1>3. Unsettled(r) = Unsettled(rq[p])
  BY <1>a, <1>c, <1>1 DEF Unsettled
<1>4. Sound(rq[p]) => Sound(r)
  BY <1>a, <1>c, <1>1, <1>3 DEF Sound, Unlisted, Knows
<1> QED  BY <1>c, <1>1, <1>2, <1>4, ReadSteps

LEMMA MayBuyInv == ASSUME OrgInv, NEW p \in Procs, MayBuy(p) PROVE OrgInv'
<1>0. rq[p] \in Requests /\ Carries(rq[p])
  BY Underway
<1>c. /\ rq[p].pc = "mayBuy" /\ UNCHANGED <<orgVars, paidVars, listed, runVars>>
      /\ Set(p, Idle) \/ Set(p, To(rq[p], "buy"))
  BY DEF MayBuy, At, End, Go
<1>a. rq[p].op = "personal"
  BY <1>0, <1>c DEF Carries, HasRead, Fits, Requests, Ops
<1>1. CASE Set(p, Idle)
  <2>1. Unsettled(rq[p]) = {} /\ Unlisted(rq[p]) = {}
    BY <1>a, <1>c DEF Unsettled, Unlisted
  <2> QED  BY <1>c, <1>1, <2>1, EndSteps
<1>2. CASE Set(p, To(rq[p], "buy"))
  <2> DEFINE r == To(rq[p], "buy")
  <2>1. /\ r \in Requests /\ r.pc = "buy" /\ r.op = "personal" /\ r.who = rq[p].who
        /\ r.n = rq[p].n /\ r.val = rq[p].val /\ r.todo = rq[p].todo
    BY <1>0, <1>a, ToIs DEF Pcs
  <2>2. Set(p, r)
    BY <1>2
  <2> HIDE DEF r
  <2>3. Carries(r)
    BY <1>0, <1>a, <1>c, <2>1 DEF Carries, HasRead, Fits, OfSub
  <2>4. Sound(rq[p]) => Sound(r)
    BY <1>a, <1>c, <2>1 DEF Sound, Unsettled, Unlisted, Knows
  <2> QED  BY <1>c, <2>1, <2>2, <2>3, <2>4, ReadSteps
<1> QED  BY <1>c, <1>1, <1>2
-----------------------------------------------------------------------------
(* Steps that pay, entitle and set tiers *)

\* Fewer entitlements of a subscription, or one more.
LEMMA CountFewer ==
    ASSUME NEW s, \A u \in Users : <<u, s>> \in ents' => <<u, s>> \in ents
    PROVE  CountEntitlementsBySub(s)' <= CountEntitlementsBySub(s) /\ CountEntitlementsBySub(s)' \in Nat
<1> DEFINE S == {u \in Users : <<u, s>> \in ents}
           T == {u \in Users : <<u, s>> \in ents'}
<1>1. IsFiniteSet(S) /\ T \in SUBSET S
  BY CountIs
<1>2. IsFiniteSet(T) /\ Cardinality(T) <= Cardinality(S)
  BY <1>1, FS_Subset
<1>3. Cardinality(T) \in Nat
  BY <1>2, FS_CardinalityType
<1> QED  BY <1>2, <1>3 DEF CountEntitlementsBySub

LEMMA CountOneMore ==
    ASSUME NEW s, NEW v \in Users, ents' = ents \union {<<v, s>>}
    PROVE  CountEntitlementsBySub(s)' <= CountEntitlementsBySub(s) + 1 /\ CountEntitlementsBySub(s)' \in Nat
<1> DEFINE S == {u \in Users : <<u, s>> \in ents}
           T == {u \in Users : <<u, s>> \in ents'}
<1>1. IsFiniteSet(S) /\ T = S \union {v} /\ Cardinality(S) \in Nat
  BY CountIs DEF CountEntitlementsBySub
<1> HIDE DEF S, T
<1>2. IsFiniteSet(T) /\ Cardinality(T) = IF v \in S THEN Cardinality(S) ELSE Cardinality(S) + 1
  BY <1>1, FS_AddElement
<1>3. Cardinality(T) <= Cardinality(S) + 1 /\ Cardinality(T) \in Nat
  BY <1>1, <1>2
<1> QED  BY <1>3 DEF CountEntitlementsBySub, S, T

LEMMA OrgTables == ASSUME OrgInv PROVE PayTypes /\ OrgTypes /\ RunTypes
BY Typed DEF OrgInv, InvitesInv

LEMMA EntitleInv == ASSUME OrgInv, NEW p \in Procs, Entitle(p) PROVE OrgInv'
<1>0. rq[p] \in Requests /\ Carries(rq[p])
  BY Underway
<1>a. rq[p].pc = "entitle" /\ rq[p].op \in {"accept", "upgrade", "personal"}
      /\ rq[p].key \in Subs /\ rq[p].who \in Users
  BY <1>0 DEF Entitle, At, Carries, HasRead, Fits, Requests, Ops, OfSub
<1>b. PICK u \in Users, k \in Subs, n \in Nat, v \in Vals, r \in Requests :
        u = rq[p].who /\ k = rq[p].key /\ n = rq[p].n /\ v = rq[p].val /\ r = To(rq[p], "pro")
  BY <1>0, <1>a, ToIs DEF Requests, Pcs
<1>c. /\ UNCHANGED <<org, maxSeats, members, invites, taken, subs, userTier, listed, runVars>>
      /\ Set(p, r) /\ ents' = ents \union {<<u, k>>}
  BY <1>b DEF Entitle, At, Go, orgVars
<1>1. /\ r.pc = "pro" /\ r.op = rq[p].op /\ r.op \in {"accept", "upgrade", "personal"}
      /\ r.who = u /\ r.key = k /\ r.n = n /\ r.val = v /\ r.todo = rq[p].todo
  BY <1>0, <1>a, <1>b, ToIs DEF Pcs
<1>2. Carries(r)
  BY <1>0, <1>a, <1>b, <1>1 DEF Carries, HasRead, Fits, OfSub
<1>3. PayTypes' /\ RunTypes'
  BY <1>c, OrgTables DEF PayTypes, RunTypes, runVars
<1>4. ASSUME Sound(rq[p]) PROVE Sound(r)'
  <2>1. /\ Active(k) /\ subs[k].of \in {Org, u} /\ (r.op = "upgrade" => OrgSub(k))
        /\ CountEntitlementsBySub(k) + (IF v = "buy" THEN n ELSE 1) <= subs[k].seats
        /\ v = "grow" => n = subs[k].seats
    BY <1>4, <1>a, <1>b, <1>1 DEF Sound, Knows
  <2>2. Bought'
    BY <1>4, <1>c, <2>1 DEF Sound, Bought, Active
  <2>3. /\ CountEntitlementsBySub(k)' <= CountEntitlementsBySub(k) + 1
        /\ CountEntitlementsBySub(k)' \in Nat /\ CountEntitlementsBySub(k) \in Nat
        /\ subs[k].seats \in Nat
    BY <1>c, CountOneMore, CountIs, OrgTables DEF PayTypes
  <2>4. v = "buy" => n > 0
    BY <1>0, <1>a, <1>b DEF Carries
  <2>5. SeatsKept'
    <3>1. CountEntitlementsBySub(k)' <= subs[k].seats
      BY <2>1, <2>3, <2>4
    <3>2. \A s \in Subs \ {k} : CountEntitlementsBySub(s)' = CountEntitlementsBySub(s)
      <4> SUFFICES ASSUME NEW s \in Subs \ {k}
                   PROVE  CountEntitlementsBySub(s)' = CountEntitlementsBySub(s)
        OBVIOUS
      <4>1. {w \in Users : <<w, s>> \in ents'} = {w \in Users : <<w, s>> \in ents}
        BY <1>c
      <4> QED  BY <4>1 DEF CountEntitlementsBySub
    <3> QED  BY <1>4, <1>c, <3>1, <3>2 DEF Sound, SeatsKept
  <2>6. OneSub'
    BY <1>4, <1>c DEF Sound, OneSub, OrgSub, Active
  <2>7. TiersRight(Unsettled(r))'
    <3>1. Unsettled(r)' = {u} /\ TiersRight({})
      BY <1>4, <1>a, <1>1 DEF Sound, Unsettled
    <3>2. \A w \in Users \ {u} : IsUserPro(w)' <=> IsUserPro(w)
      BY <1>c DEF IsUserPro
    <3> QED  BY <1>c, <3>1, <3>2 DEF TiersRight
  <2>8. Follow(Unlisted(r))'
    <3>1. Unlisted(r)' = Unlisted(rq[p])
      BY <1>a, <1>b, <1>1 DEF Unlisted
    <3> QED  BY <1>4, <1>c, <3>1 DEF Sound, Follow, MemberSet
  <2>9. Knows(r)'
    <3>1. v = "buy" => CountEntitlementsBySub(k)' + (n - 1) <= subs[k].seats
      BY <2>1, <2>3, <2>4
    <3> QED  BY <1>c, <1>1, <2>1, <3>1 DEF Knows, Active, OrgSub
  <2> QED  BY <2>2, <2>5, <2>6, <2>7, <2>8, <2>9 DEF Sound
<1> QED  BY <1>a, <1>c, <1>1, <1>2, <1>3, <1>4, PaySteps DEF runVars

LEMMA SetProInv == ASSUME OrgInv, NEW p \in Procs, SetPro(p) PROVE OrgInv'
<1>0. rq[p] \in Requests /\ Carries(rq[p])
  BY Underway
<1>a. rq[p].pc = "pro" /\ rq[p].op \in {"accept", "upgrade", "personal"}
      /\ rq[p].key \in Subs /\ rq[p].who \in Users /\ (rq[p].val = "buy" => rq[p].n > 0)
  BY <1>0 DEF SetPro, At, Carries, HasRead, Fits, Requests, Ops, OfSub
<1>g. PICK g : g = Given(rq[p])
  OBVIOUS
<1>d. /\ g \in Requests /\ g.pc = "pro" /\ g.op = rq[p].op /\ g.who = rq[p].who /\ g.key = rq[p].key
      /\ g.n = (IF rq[p].val = "buy" THEN rq[p].n - 1 ELSE rq[p].n) /\ g.val = rq[p].val
      /\ g.todo = rq[p].todo
  BY <1>0, <1>a, <1>g, GivenIs
<1>e. PICK r : r = Next1(g)
  OBVIOUS
<1>b. PICK u \in Users, k \in Subs, n \in Nat, v \in Vals :
        u = rq[p].who /\ k = rq[p].key /\ n = rq[p].n /\ v = rq[p].val /\ r = Next1(g)
  BY <1>0, <1>a, <1>e DEF Requests
<1>c. /\ UNCHANGED <<org, maxSeats, members, invites, taken, subs, ents, listed, runVars>>
      /\ Set(p, r) /\ userTier' = [userTier EXCEPT ![u] = "pro"]
  BY <1>b, <1>g DEF SetPro, At, orgVars
<1>1. /\ r \in Requests /\ Carries(r)
      /\ \/ r = Idle /\ rq[p].op = "personal"
         \/ r.op = "accept" /\ r.pc = "readOrgs" /\ r.who = u /\ rq[p].op = "accept"
         \/ /\ r.op = "upgrade" /\ r.key = k /\ r.val = v /\ rq[p].op = "upgrade"
            /\ r.n = IF v = "buy" THEN n - 1 ELSE n
            /\ (v = "grow" /\ r.pc = "growPick") \/ (v = "buy" /\ r.pc = "buyPick")
  <2>1. rq[p].op = "upgrade" => v \in {"grow", "buy"}
    BY <1>0, <1>a, <1>b DEF Carries, HasRead
  <2>0. HasRead(g)
    BY <1>0, <1>a, <1>d DEF Carries, HasRead
  <2>2. CASE g.op = "accept"
    BY <1>b, <1>d, <2>0, <2>2, NextIs, IdleIs
  <2>3. CASE g.op = "upgrade"
    BY <1>b, <1>d, <2>0, <2>1, <2>3, NextIs, IdleIs
  <2>4. CASE g.op = "personal"
    BY <1>b, <1>d, <2>0, <2>4, NextIs, IdleIs
  <2> QED  BY <1>a, <1>d, <2>2, <2>3, <2>4
<1>2. PayTypes' /\ RunTypes'
  BY <1>c, OrgTables DEF PayTypes, RunTypes, runVars
<1>3. ASSUME Sound(rq[p]) PROVE Sound(r)'
  <2>1. /\ Active(k) /\ <<u, k>> \in ents /\ (rq[p].op = "upgrade" => OrgSub(k))
        /\ v = "grow" => n = subs[k].seats
        /\ v = "buy" => CountEntitlementsBySub(k) + (n - 1) <= subs[k].seats
    BY <1>3, <1>a, <1>b DEF Sound, Knows
  <2>2. Bought' /\ SeatsKept' /\ OneSub'
    BY <1>3, <1>c DEF Sound, Bought, SeatsKept, OneSub, OrgSub, Active, CountEntitlementsBySub
  <2>3. TiersRight(Unsettled(r))'
    <3>1. Unsettled(r)' = {} /\ TiersRight({u})
      BY <1>3, <1>a, <1>b, <1>1, IdleIs DEF Sound, Unsettled
    <3>2. IsUserPro(u) /\ \A w \in Users : IsUserPro(w)' <=> IsUserPro(w)
      BY <1>c, <2>1 DEF IsUserPro, Active
    <3>3. userTier \in [Users -> {"free", "pro"}]
      BY OrgTables DEF PayTypes
    <3> QED  BY <1>c, <3>1, <3>2, <3>3 DEF TiersRight
  <2>4. Follow(Unlisted(r))'
    <3>1. Unlisted(r)' = Unlisted(rq[p])
      BY <1>a, <1>b, <1>1, IdleIs DEF Unlisted
    <3> QED  BY <1>3, <1>c, <3>1 DEF Sound, Follow, MemberSet
  <2>5. Knows(r)'
    <3>1. CountEntitlementsBySub(k)' = CountEntitlementsBySub(k)
      BY <1>c DEF CountEntitlementsBySub
    <3> QED  BY <1>c, <1>1, <2>1, <3>1, IdleIs DEF Knows, Active, OrgSub
  <2> QED  BY <2>2, <2>3, <2>4, <2>5 DEF Sound
<1>4. r.pc \notin {"consume", "join"}
  BY <1>1, IdleIs
<1> QED  BY <1>a, <1>c, <1>1, <1>2, <1>3, <1>4, PaySteps DEF runVars

LEMMA DisentitleInv == ASSUME OrgInv, NEW p \in Procs, Disentitle(p) PROVE OrgInv'
<1>0. rq[p] \in Requests /\ Carries(rq[p])
  BY Underway
<1>a. rq[p].pc = "disentitle" /\ rq[p].op \in {"remove", "downgrade"} /\ rq[p].todo = {}
      /\ rq[p].key \in Subs /\ rq[p].who \in Users
  BY <1>0 DEF Disentitle, At, Carries, HasRead, Fits, Requests, Ops, OfSub
<1>b. PICK u \in Users, k \in Subs, r \in Requests :
        u = rq[p].who /\ k = rq[p].key /\ r = To(rq[p], "retier")
  BY <1>0, <1>a, ToIs DEF Pcs
<1>c. /\ UNCHANGED <<org, maxSeats, members, invites, taken, subs, userTier, listed, runVars>>
      /\ Set(p, r) /\ ents' = ents \ {<<u, k>>}
  BY <1>b DEF Disentitle, At, Go, orgVars
<1>1. /\ r.pc = "retier" /\ r.op = rq[p].op /\ r.op \in {"remove", "downgrade"}
      /\ r.who = u /\ r.key = k /\ r.val = rq[p].val /\ r.todo = {}
  BY <1>0, <1>a, <1>b, ToIs DEF Pcs
<1>2. Carries(r)
  BY <1>0, <1>a, <1>b, <1>1 DEF Carries, HasRead, Fits, OfSub
<1>3. PayTypes' /\ RunTypes'
  BY <1>c, OrgTables DEF PayTypes, RunTypes, runVars
<1>4. ASSUME Sound(rq[p]) PROVE Sound(r)'
  <2>1. Bought' /\ OneSub'
    BY <1>4, <1>c DEF Sound, Bought, OneSub, OrgSub, Active
  <2>2. SeatsKept'
    <3> SUFFICES ASSUME NEW s \in Subs PROVE CountEntitlementsBySub(s)' <= subs[s].seats
      BY <1>c DEF SeatsKept
    <3>1. CountEntitlementsBySub(s)' <= CountEntitlementsBySub(s) /\ CountEntitlementsBySub(s)' \in Nat
      BY <1>c, CountFewer
    <3>2. CountEntitlementsBySub(s) <= subs[s].seats /\ CountEntitlementsBySub(s) \in Nat
          /\ subs[s].seats \in Nat
      BY <1>4, CountIs, OrgTables DEF Sound, SeatsKept, PayTypes
    <3> QED  BY <3>1, <3>2
  <2>3. TiersRight(Unsettled(r))'
    <3>1. Unsettled(r)' = {u} /\ Unsettled(rq[p]) \subseteq {u} /\ TiersRight(Unsettled(rq[p]))
      BY <1>4, <1>a, <1>b, <1>1 DEF Sound, Unsettled
    <3>2. \A w \in Users \ {u} : IsUserPro(w)' <=> IsUserPro(w)
      BY <1>c DEF IsUserPro
    <3> QED  BY <1>c, <3>1, <3>2 DEF TiersRight
  <2>4. Follow(Unlisted(r))'
    <3>1. Unlisted(r)' = Unlisted(rq[p])
      BY <1>a, <1>b, <1>1 DEF Unlisted
    <3> QED  BY <1>4, <1>c, <3>1 DEF Sound, Follow, MemberSet
  <2>5. Knows(r)'
    BY <1>1 DEF Knows
  <2> QED  BY <2>1, <2>2, <2>3, <2>4, <2>5 DEF Sound
<1> QED  BY <1>a, <1>c, <1>1, <1>2, <1>3, <1>4, PaySteps DEF runVars

LEMMA SetTierInv == ASSUME OrgInv, NEW p \in Procs, SetTier(p) PROVE OrgInv'
<1>0. rq[p] \in Requests /\ Carries(rq[p])
  BY Underway
<1>a. rq[p].pc = "setTier" /\ rq[p].op \in {"remove", "cancel", "downgrade"}
      /\ rq[p].who \in Users /\ rq[p].val \in {"pro", "free"} /\ (rq[p].op # "cancel" => rq[p].todo = {})
  BY <1>0 DEF SetTier, At, Carries, HasRead, Fits, Requests, Ops
<1>e. PICK r : r = Next1(rq[p])
  OBVIOUS
<1>b. PICK u \in Users, v \in {"pro", "free"} :
        u = rq[p].who /\ v = rq[p].val /\ r = Next1(rq[p])
  BY <1>0, <1>a, <1>e DEF Requests
<1>c. /\ UNCHANGED <<org, maxSeats, members, invites, taken, subs, ents, listed, runVars>>
      /\ Set(p, r) /\ userTier' = [userTier EXCEPT ![u] = v]
  BY <1>b DEF SetTier, At, orgVars
<1>1. /\ r \in Requests /\ Carries(r)
      /\ \/ r = Idle /\ rq[p].op = "downgrade"
         \/ r.op = "remove" /\ r.pc = "readOrgs" /\ r.who = u /\ rq[p].op = "remove"
         \/ r.op = "cancel" /\ r.pc = "retierPick" /\ r.todo = rq[p].todo /\ rq[p].op = "cancel"
  <2>0. HasRead(rq[p])
    BY <1>0 DEF Carries
  <2>1. CASE rq[p].op = "remove"
    BY <1>0, <1>a, <1>b, <2>0, <2>1, NextIs, IdleIs
  <2>2. CASE rq[p].op = "cancel"
    BY <1>0, <1>a, <1>b, <2>0, <2>2, NextIs, IdleIs
  <2>3. CASE rq[p].op = "downgrade"
    BY <1>0, <1>a, <1>b, <2>0, <2>3, NextIs, IdleIs
  <2> QED  BY <1>a, <2>1, <2>2, <2>3
<1>2. PayTypes' /\ RunTypes'
  BY <1>c, OrgTables DEF PayTypes, RunTypes, runVars
<1>3. ASSUME Sound(rq[p]) PROVE Sound(r)'
  <2>1. Bought' /\ SeatsKept' /\ OneSub'
    BY <1>3, <1>c DEF Sound, Bought, SeatsKept, OneSub, OrgSub, Active, CountEntitlementsBySub
  <2>2. TiersRight(Unsettled(r))'
    <3>1. Unsettled(r)' = rq[p].todo /\ TiersRight({u} \union rq[p].todo)
      BY <1>3, <1>a, <1>b, <1>1, IdleIs DEF Sound, Unsettled
    <3>2. (v = "pro" <=> IsUserPro(u)) /\ \A w \in Users : IsUserPro(w)' <=> IsUserPro(w)
      BY <1>3, <1>a, <1>b, <1>c DEF Sound, Knows, IsUserPro
    <3>3. userTier \in [Users -> {"free", "pro"}]
      BY OrgTables DEF PayTypes
    <3> QED  BY <1>c, <3>1, <3>2, <3>3 DEF TiersRight
  <2>3. Follow(Unlisted(r))'
    <3>1. Unlisted(r)' = Unlisted(rq[p])
      BY <1>a, <1>b, <1>1, IdleIs DEF Unlisted
    <3> QED  BY <1>3, <1>c, <3>1 DEF Sound, Follow, MemberSet
  <2>4. Knows(r)'
    BY <1>1, IdleIs DEF Knows
  <2> QED  BY <2>1, <2>2, <2>3, <2>4 DEF Sound
<1>4. r.pc \notin {"consume", "join"}
  BY <1>1, IdleIs
<1> QED  BY <1>a, <1>c, <1>1, <1>2, <1>3, <1>4, PaySteps DEF runVars

LEMMA GrowInv == ASSUME OrgInv, NEW p \in Procs, Grow(p) PROVE OrgInv'
<1>0. rq[p] \in Requests /\ Carries(rq[p])
  BY Underway
<1>a. rq[p].pc = "grow" /\ rq[p].op = "upgrade" /\ rq[p].val = "grow" /\ rq[p].key \in Subs
  BY <1>0 DEF Grow, At, Carries, HasRead, Fits, Requests, Ops, OfSub
<1>b. PICK k \in Subs, n \in Nat, r \in Requests :
        k = rq[p].key /\ n = rq[p].n /\ r = To(rq[p], "maxSeats")
  BY <1>0, <1>a, ToIs DEF Pcs, Requests
<1>c. /\ UNCHANGED <<org, maxSeats, members, invites, taken, ents, userTier, listed, runVars>>
      /\ Set(p, r) /\ subs' = [subs EXCEPT ![k].seats = n]
  BY <1>b DEF Grow, At, Go, orgVars
<1>1. r.pc = "maxSeats" /\ r.op = "upgrade" /\ r.who = rq[p].who /\ r.key = k /\ r.n = n /\ r.val = "grow"
  BY <1>0, <1>a, <1>b, ToIs DEF Pcs
<1>2. Carries(r)
  BY <1>0, <1>a, <1>b, <1>1 DEF Carries, HasRead, Fits, OfSub
<1>3. PayTypes' /\ RunTypes'
  BY <1>c, OrgTables DEF PayTypes, RunTypes, runVars
<1>d. /\ \A s \in Subs : subs'[s].of = subs[s].of /\ subs'[s].status = subs[s].status
      /\ \A s \in Subs \ {k} : subs'[s] = subs[s]
      /\ subs'[k].seats = n
  BY <1>c, OrgTables DEF PayTypes
<1>4. ASSUME Sound(rq[p]) PROVE Sound(r)'
  <2>1. OrgSub(k) /\ n >= subs[k].seats /\ subs[k].seats \in Nat
    BY <1>4, <1>a, <1>b, OrgTables DEF Sound, Knows, PayTypes
  <2>2. Bought'
    <3>1. \A e \in ents : e[2] \in Subs
      BY OrgTables DEF PayTypes
    <3> QED  BY <1>4, <1>c, <1>d, <2>1, <3>1 DEF Sound, Bought, OrgSub, Active
  <2>3. SeatsKept'
    <3> SUFFICES ASSUME NEW s \in Subs PROVE CountEntitlementsBySub(s)' <= subs'[s].seats
      BY DEF SeatsKept
    <3>1. CountEntitlementsBySub(s)' = CountEntitlementsBySub(s) /\ CountEntitlementsBySub(s) \in Nat
      BY <1>c, CountIs DEF CountEntitlementsBySub
    <3>2. CountEntitlementsBySub(s) <= subs[s].seats
      BY <1>4 DEF Sound, SeatsKept
    <3> QED  BY <1>d, <2>1, <3>1, <3>2
  <2>4. OneSub'
    BY <1>4, <1>d DEF Sound, OneSub, OrgSub, Active
  <2>5. TiersRight(Unsettled(r))'
    <3>1. Unsettled(r)' = {} /\ TiersRight({})
      BY <1>4, <1>a, <1>1 DEF Sound, Unsettled
    <3>2. \A w \in Users : IsUserPro(w)' <=> IsUserPro(w)
      BY <1>c, <1>d DEF IsUserPro
    <3> QED  BY <1>c, <3>1, <3>2 DEF TiersRight
  <2>6. Follow(Unlisted(r))'
    <3>1. Unlisted(r)' = Unlisted(rq[p])
      BY <1>a, <1>b, <1>1 DEF Unlisted
    <3> QED  BY <1>4, <1>c, <3>1 DEF Sound, Follow, MemberSet
  <2>7. Knows(r)'
    BY <1>1, <1>d, <2>1 DEF Knows, OrgSub, Active
  <2> QED  BY <2>2, <2>3, <2>4, <2>5, <2>6, <2>7 DEF Sound
<1> QED  BY <1>a, <1>c, <1>1, <1>2, <1>3, <1>4, PaySteps DEF runVars

LEMMA CancelSubInv == ASSUME OrgInv, NEW p \in Procs, CancelSub(p) PROVE OrgInv'
<1>0. rq[p] \in Requests /\ Carries(rq[p])
  BY Underway
<1>a. rq[p].pc = "cancel" /\ rq[p].op \in {"cancel", "downgrade"} /\ rq[p].key \in Subs /\ rq[p].who \in Users
  BY <1>0 DEF CancelSub, At, Carries, HasRead, Fits, Requests, Ops, OfSub
<1>b. PICK u \in Users, k \in Subs, r \in Requests :
        u = rq[p].who /\ k = rq[p].key
        /\ r = To(rq[p], IF rq[p].op = "cancel" THEN "readEnts" ELSE "disentitle")
  <2>1. "readEnts" \in Pcs /\ "disentitle" \in Pcs
    BY DEF Pcs
  <2> QED  BY <1>0, <1>a, <2>1, ToIs
<1>c. /\ UNCHANGED <<org, maxSeats, members, invites, taken, ents, userTier, listed, runVars>>
      /\ Set(p, r) /\ subs' = [subs EXCEPT ![k].status = "canceled"]
  BY <1>b DEF CancelSub, At, Go, orgVars
<1>1. /\ r.op = rq[p].op /\ r.who = u /\ r.key = k /\ r.val = rq[p].val /\ r.todo = rq[p].todo
      /\ r.pc = IF rq[p].op = "cancel" THEN "readEnts" ELSE "disentitle"
  <2>1. "readEnts" \in Pcs /\ "disentitle" \in Pcs
    BY DEF Pcs
  <2> QED  BY <1>0, <1>a, <1>b, <2>1, ToIs
<1>2. Carries(r)
  BY <1>0, <1>a, <1>b, <1>1 DEF Carries, HasRead, Fits, OfSub
<1>3. PayTypes' /\ RunTypes'
  BY <1>c, OrgTables DEF PayTypes, RunTypes, runVars
<1>d. /\ \A s \in Subs : subs'[s].of = subs[s].of /\ subs'[s].seats = subs[s].seats
      /\ \A s \in Subs \ {k} : subs'[s] = subs[s]
      /\ subs'[k].status = "canceled"
  BY <1>c, OrgTables DEF PayTypes
<1>4. ASSUME Sound(rq[p]) PROVE Sound(r)'
  <2>1. rq[p].op = "downgrade" => subs[k].of = u
    BY <1>4, <1>a, <1>b DEF Sound, Knows
  <2>2. Bought'
    <3>1. \A e \in ents : e[2] \in Subs
      BY OrgTables DEF PayTypes
    <3>2. Bought
      BY <1>4 DEF Sound
    <3>3. \A e \in ents : subs'[e[2]].status # "none" /\ (subs'[e[2]].of # Org => subs'[e[2]].of = e[1])
      BY <1>d, <3>1, <3>2 DEF Bought
    <3>4. \A s \in Subs : subs'[s].status = "none" => subs'[s] = NoSub
      BY <1>d, <3>2 DEF Bought
    <3> QED  BY <1>c, <3>3, <3>4 DEF Bought
  <2>3. SeatsKept'
    BY <1>4, <1>c, <1>d DEF Sound, SeatsKept, CountEntitlementsBySub
  <2>4. OneSub'
    BY <1>4, <1>d DEF Sound, OneSub, OrgSub, Active
  <2>5. TiersRight(Unsettled(r))'
    <3>1. TiersRight({})
      BY <1>4, <1>a DEF Sound, Unsettled
    <3>2. Unsettled(r)' = IF rq[p].op = "cancel" THEN {w \in Users : <<w, k>> \in ents} ELSE {u}
      BY <1>a, <1>c, <1>1 DEF Unsettled
    <3>3. \A w \in Users : <<w, k>> \notin ents => (IsUserPro(w)' <=> IsUserPro(w))
      BY <1>c, <1>d DEF IsUserPro
    <3>4. rq[p].op = "downgrade" => \A w \in Users \ {u} : <<w, k>> \notin ents
      BY <1>4, <2>1, OrgAssumption DEF Sound, Bought
    <3>5. \A w \in Users \ Unsettled(r)' : <<w, k>> \notin ents
      BY <1>a, <3>2, <3>4
    <3> QED  BY <1>c, <3>1, <3>3, <3>5 DEF TiersRight
  <2>6. Follow(Unlisted(r))'
    <3>1. Unlisted(r)' = Unlisted(rq[p])
      BY <1>a, <1>b, <1>1 DEF Unlisted
    <3> QED  BY <1>4, <1>c, <3>1 DEF Sound, Follow, MemberSet
  <2>7. Knows(r)'
    BY <1>a, <1>1, <1>d DEF Knows
  <2> QED  BY <2>2, <2>3, <2>4, <2>5, <2>6, <2>7 DEF Sound
<1> QED  BY <1>a, <1>c, <1>1, <1>2, <1>3, <1>4, PaySteps DEF runVars

LEMMA DeleteEntsInv == ASSUME OrgInv, NEW p \in Procs, DeleteEnts(p) PROVE OrgInv'
<1>0. rq[p] \in Requests /\ Carries(rq[p])
  BY Underway
<1>a. rq[p].pc = "deleteEnts" /\ rq[p].op = "cancel" /\ rq[p].key \in Subs
  BY <1>0 DEF DeleteEnts, At, Carries, HasRead, Fits, Requests, Ops, OfSub
<1>b. PICK k \in Subs, S \in SUBSET Users, r \in Requests :
        k = rq[p].key /\ S = rq[p].todo /\ r = To(rq[p], "retierPick")
  <2>1. To(rq[p], "retierPick") \in Requests
    BY <1>0, ToIs DEF Pcs
  <2>2. rq[p].todo \in SUBSET Users
    BY <1>0 DEF Requests
  <2> QED  BY <1>a, <2>1, <2>2
<1>c. /\ UNCHANGED <<org, maxSeats, members, invites, taken, subs, userTier, listed, runVars>>
      /\ Set(p, r) /\ ents' = {e \in ents : e[2] # k}
  BY <1>b DEF DeleteEnts, At, Go, orgVars
<1>1. r.pc = "retierPick" /\ r.op = "cancel" /\ r.who = rq[p].who /\ r.key = k /\ r.val = rq[p].val /\ r.todo = S
  BY <1>0, <1>a, <1>b, ToIs DEF Pcs
<1>2. Carries(r)
  BY <1>0, <1>a, <1>b, <1>1 DEF Carries, HasRead, Fits, OfSub
<1>3. PayTypes' /\ RunTypes'
  BY <1>c, OrgTables DEF PayTypes, RunTypes, runVars
<1>4. ASSUME Sound(rq[p]) PROVE Sound(r)'
  <2>1. Bought' /\ OneSub'
    BY <1>4, <1>c DEF Sound, Bought, OneSub, OrgSub, Active
  <2>2. SeatsKept'
    <3> SUFFICES ASSUME NEW s \in Subs PROVE CountEntitlementsBySub(s)' <= subs[s].seats
      BY <1>c DEF SeatsKept
    <3>1. CountEntitlementsBySub(s)' <= CountEntitlementsBySub(s) /\ CountEntitlementsBySub(s)' \in Nat
      BY <1>c, CountFewer
    <3>2. CountEntitlementsBySub(s) <= subs[s].seats /\ CountEntitlementsBySub(s) \in Nat
          /\ subs[s].seats \in Nat
      BY <1>4, CountIs, OrgTables DEF Sound, SeatsKept, PayTypes
    <3> QED  BY <3>1, <3>2
  <2>3. TiersRight(Unsettled(r))'
    <3>1. Unsettled(r)' = S /\ TiersRight(S)
      BY <1>4, <1>a, <1>b, <1>1 DEF Sound, Unsettled
    <3>2. \A w \in Users \ S : <<w, k>> \notin ents
      BY <1>4, <1>a, <1>b DEF Sound, Knows
    <3>3. \A w \in Users \ S : IsUserPro(w)' <=> IsUserPro(w)
      BY <1>c, <3>2 DEF IsUserPro
    <3> QED  BY <1>c, <3>1, <3>3 DEF TiersRight
  <2>4. Follow(Unlisted(r))'
    <3>1. Unlisted(r)' = Unlisted(rq[p])
      BY <1>a, <1>b, <1>1 DEF Unlisted
    <3> QED  BY <1>4, <1>c, <3>1 DEF Sound, Follow, MemberSet
  <2>5. Knows(r)'
    BY <1>1 DEF Knows
  <2> QED  BY <2>1, <2>2, <2>3, <2>4, <2>5 DEF Sound
<1> QED  BY <1>a, <1>c, <1>1, <1>2, <1>3, <1>4, PaySteps DEF runVars

LEMMA BuyInv == ASSUME OrgInv, NEW p \in Procs, Buy(p) PROVE OrgInv'
<1>0. rq[p] \in Requests /\ Carries(rq[p])
  BY Underway
<1>a. /\ rq[p].pc = "buy" /\ rq[p].op \in {"upgrade", "personal"} /\ rq[p].who \in Users
      /\ rq[p].op = "upgrade" => rq[p].val = "buy"
      /\ rq[p].op = "personal" => rq[p].val = "none" /\ rq[p].n = 1
  BY <1>0 DEF Buy, At, Carries, HasRead, Fits, Requests, Ops
<1>e. Fresh(subs, NoSub) # {} /\ Fresh(subs, NoSub) \subseteq Subs
  BY OrgTables DEF Buy, Fresh, PayTypes
<1>f. Min(Fresh(subs, NoSub)) \in Fresh(subs, NoSub)
  BY <1>e, MinIn DEF Subs
<1>b. PICK u \in Users, k \in Subs, n \in Nat, step \in Pcs, r \in Requests :
        /\ u = rq[p].who /\ k = Min(Fresh(subs, NoSub)) /\ n = rq[p].n
        /\ step = IF rq[p].op = "upgrade" THEN "maxSeats" ELSE "entitle"
        /\ r = Finds(rq[p], step, k)
  <2>1. (IF rq[p].op = "upgrade" THEN "maxSeats" ELSE "entitle") \in Pcs
    BY DEF Pcs
  <2>2. PICK step \in Pcs : step = IF rq[p].op = "upgrade" THEN "maxSeats" ELSE "entitle"
    BY <2>1
  <2>3. PICK k \in Subs : k = Min(Fresh(subs, NoSub))
    BY <1>e, <1>f
  <2>4. Finds(rq[p], step, k) \in Requests
    BY <1>0, <2>3, FindsIs DEF Subs
  <2>5. rq[p].n \in Nat
    BY <1>0 DEF Requests
  <2> QED  BY <1>a, <2>2, <2>3, <2>4, <2>5
<1>c. PICK w \in {Org, u} :
        /\ w = (IF rq[p].op = "upgrade" THEN Org ELSE u)
        /\ UNCHANGED <<org, maxSeats, members, invites, taken, ents, userTier, listed, runVars>>
        /\ Set(p, r) /\ subs' = [subs EXCEPT ![k] = [of |-> w, status |-> "active", seats |-> n]]
  BY <1>b DEF Buy, At, orgVars
<1>1. /\ r.pc = step /\ r.op = rq[p].op /\ r.who = u /\ r.key = k /\ r.n = n /\ r.val = rq[p].val
      /\ r.todo = rq[p].todo
  <2>1. k \in Nat
    BY DEF Subs
  <2> QED  BY <1>0, <1>b, <2>1, FindsIs
<1>2. Carries(r)
  BY <1>0, <1>a, <1>b, <1>1 DEF Carries, HasRead, Fits, OfSub
<1>3. PayTypes' /\ RunTypes'
  BY <1>c, OrgTables DEF PayTypes, RunTypes, runVars
<1>d. /\ \A s \in Subs \ {k} : subs'[s] = subs[s]
      /\ subs'[k] = [of |-> w, status |-> "active", seats |-> n]
      /\ subs[k] = NoSub
  BY <1>b, <1>c, <1>f, OrgTables DEF PayTypes, Fresh
<1>4. ASSUME Sound(rq[p]) PROVE Sound(r)'
  <2>0. /\ Bought
        /\ \A e \in ents : e[2] \in Subs \ {k}
        /\ \A v : <<v, k>> \notin ents
    <3>1. Bought
      BY <1>4 DEF Sound
    <3>2. \A e \in ents : e[2] \in Subs \ {k}
      BY <1>d, <3>1, OrgTables DEF Bought, NoSub, PayTypes
    <3>3. ASSUME NEW v, <<v, k>> \in ents PROVE FALSE
      <4>1. <<v, k>>[2] = k
        OBVIOUS
      <4> QED  BY <3>2, <3>3, <4>1
    <3> QED  BY <3>1, <3>2, <3>3
  <2>2. Bought'
    <3>3. \A e \in ents : subs'[e[2]].status # "none" /\ (subs'[e[2]].of # Org => subs'[e[2]].of = e[1])
      BY <1>d, <2>0 DEF Bought
    <3>4. \A s \in Subs : subs'[s].status = "none" => subs'[s] = NoSub
      BY <1>d, <2>0 DEF Bought
    <3> QED  BY <1>c, <3>3, <3>4 DEF Bought
  <2>1. CountEntitlementsBySub(k)' = 0
    <3>1. {v \in Users : <<v, k>> \in ents'} = {}
      BY <1>c, <2>0
    <3> QED  BY <3>1, FS_EmptySet DEF CountEntitlementsBySub
  <2>3. SeatsKept'
    <3> SUFFICES ASSUME NEW s \in Subs PROVE CountEntitlementsBySub(s)' <= subs'[s].seats
      BY DEF SeatsKept
    <3>1. CASE s = k
      BY <1>d, <2>1, <3>1
    <3>2. CASE s # k
      BY <1>4, <1>c, <1>d, <3>2 DEF Sound, SeatsKept, CountEntitlementsBySub
    <3> QED  BY <3>1, <3>2
  <2>4. OneSub'
    <3>1. rq[p].op = "upgrade" => \A s \in Subs : ~OrgSub(s)
      BY <1>4, <1>a DEF Sound, Knows
    <3>2. rq[p].op # "upgrade" => w # Org
      BY <1>c, OrgAssumption
    <3>3. \A s \in Subs \ {k} : OrgSub(s)' <=> OrgSub(s)
      BY <1>d DEF OrgSub, Active
    <3>4. OrgSub(k)' => w = Org
      BY <1>d DEF OrgSub
    <3> QED  BY <1>4, <3>1, <3>2, <3>3, <3>4 DEF Sound, OneSub
  <2>5. TiersRight(Unsettled(r))'
    <3>1. TiersRight({})
      BY <1>4, <1>a DEF Sound, Unsettled
    <3>2. Unsettled(r)' = {}
      BY <1>b, <1>1 DEF Unsettled
    <3>3. \A v \in Users : IsUserPro(v)' <=> IsUserPro(v)
      BY <1>c, <1>d, <2>0 DEF IsUserPro
    <3> QED  BY <1>c, <3>1, <3>2, <3>3 DEF TiersRight
  <2>6. Follow(Unlisted(r))'
    <3>1. Unlisted(r)' = Unlisted(rq[p])
      BY <1>a, <1>b, <1>1 DEF Unlisted
    <3> QED  BY <1>4, <1>c, <3>1 DEF Sound, Follow, MemberSet
  <2>7. Knows(r)'
    <3>1. subs'[k].of = w /\ subs'[k].status = "active" /\ subs'[k].seats = n
      BY <1>d
    <3>2. CASE rq[p].op = "upgrade"
      BY <1>a, <1>b, <1>c, <1>1, <2>1, <3>1, <3>2 DEF Knows, OrgSub, Active
    <3>3. CASE rq[p].op = "personal"
      BY <1>a, <1>b, <1>c, <1>1, <2>1, <3>1, <3>3 DEF Knows, OrgSub, Active
    <3> QED  BY <1>a, <3>2, <3>3
  <2> QED  BY <2>2, <2>3, <2>4, <2>5, <2>6, <2>7 DEF Sound
<1>5. r.pc \notin {"consume", "join"}
  BY <1>b, <1>1
<1> QED  BY <1>a, <1>c, <1>2, <1>3, <1>4, <1>5, PaySteps DEF runVars

LEMMA SetOrgsInv == ASSUME OrgInv, NEW p \in Procs, SetOrgs(p) PROVE OrgInv'
<1>0. rq[p] \in Requests /\ Carries(rq[p])
  BY Underway
<1>a. rq[p].pc = "setOrgs" /\ rq[p].op \in {"accept", "remove"} /\ rq[p].who \in Users
  BY <1>0 DEF SetOrgs, At, Carries, HasRead, Fits, Requests, Ops
<1>b. PICK u \in Users : u = rq[p].who
  BY <1>a
<1>c. /\ UNCHANGED <<org, maxSeats, members, invites, taken, subs, ents, userTier, runVars>> /\ Set(p, Idle)
      /\ listed' = IF rq[p].val = "in" THEN listed \union {u} ELSE listed \ {u}
  BY <1>b DEF SetOrgs, At, End, orgVars, paidVars
<1>1. PayTypes' /\ RunTypes'
  BY <1>c, OrgTables DEF PayTypes, RunTypes, runVars
<1>2. ASSUME Sound(rq[p]) PROVE Sound(Idle)'
  <2>1. Bought' /\ SeatsKept' /\ OneSub'
    BY <1>2, <1>c DEF Sound, Bought, SeatsKept, OneSub, OrgSub, Active, CountEntitlementsBySub
  <2>2. TiersRight(Unsettled(Idle))'
    <3>1. Unsettled(Idle)' = {} /\ TiersRight({})
      BY <1>2, <1>a, IdleIs DEF Sound, Unsettled
    <3> QED  BY <1>c, <3>1 DEF TiersRight, IsUserPro
  <2>3. Follow(Unlisted(Idle))'
    <3>1. Unlisted(Idle)' = {} /\ Follow({u})
      BY <1>2, <1>a, <1>b, IdleIs DEF Sound, Unlisted
    <3>2. rq[p].val = "in" <=> u \in MemberSet
      BY <1>2, <1>a, <1>b DEF Sound, Knows
    <3>3. MemberSet' = MemberSet
      BY <1>c DEF MemberSet
    <3> QED  BY <1>c, <3>1, <3>2, <3>3 DEF Follow
  <2>4. Knows(Idle)'
    BY IdleIs DEF Knows
  <2> QED  BY <2>1, <2>2, <2>3, <2>4 DEF Sound
<1> QED  BY <1>a, <1>c, <1>1, <1>2, IdleIs, PaySteps DEF runVars

LEMMA SetMaxSeatsInv == ASSUME OrgInv, NEW p \in Procs, SetMaxSeats(p) PROVE OrgInv'
<1>0. rq[p] \in Requests /\ Carries(rq[p])
  BY Underway
<1>a. rq[p].pc = "maxSeats" /\ rq[p].op = "upgrade" /\ rq[p].key \in Subs
  BY <1>0 DEF SetMaxSeats, At, Carries, HasRead, Fits, Requests, Ops, OfSub
<1>b. PICK r \in Requests : r = To(rq[p], "list")
  BY <1>0, ToIs DEF Pcs
<1>c. /\ UNCHANGED <<org, members, invites, taken, subs, ents, userTier, listed, runVars>> /\ Set(p, r)
      /\ maxSeats' \in {maxSeats, rq[p].n}
  BY <1>b DEF SetMaxSeats, At, Go, paidVars
<1>1. /\ r.pc = "list" /\ r.op = "upgrade" /\ r.who = rq[p].who /\ r.key = rq[p].key /\ r.n = rq[p].n
      /\ r.val = rq[p].val /\ r.todo = rq[p].todo
  BY <1>0, <1>a, <1>b, ToIs DEF Pcs
<1>2. Carries(r)
  BY <1>0, <1>a, <1>1 DEF Carries, HasRead, Fits, OfSub
<1>3. PayTypes' /\ RunTypes'
  BY <1>c, OrgTables DEF PayTypes, RunTypes, runVars
<1>4. OrgTypes' /\ InviteTypes' /\ MembershipSound'
  <2>1. OrgTypes'
    BY <1>0, <1>c, OrgTables DEF OrgTypes, Requests
  <2> QED  BY <1>c, <2>1 DEF OrgInv, InvitesInv, InviteTypes, MembershipSound, MemberSet
<1>5. Accepts(r)' /\ \A q \in Procs \ {p} : Accepts(rq[q])'
  <2>1. \A q \in Procs \ {p} : rq'[q] = rq[q] /\ Accepts(rq[q])
    BY <1>2, <1>c, Sets DEF OrgInv, InvitesInv
  <2> QED  BY <1>c, <1>1, <2>1 DEF Accepts
<1>6. ASSUME Sound(rq[p]) PROVE Sound(r)'
  <2>1. Bought' /\ SeatsKept' /\ OneSub'
    BY <1>6, <1>c DEF Sound, Bought, SeatsKept, OneSub, OrgSub, Active, CountEntitlementsBySub
  <2>2. TiersRight(Unsettled(r))'
    <3>1. Unsettled(r)' = {} /\ TiersRight({})
      BY <1>6, <1>a, <1>1 DEF Sound, Unsettled
    <3> QED  BY <1>c, <3>1 DEF TiersRight, IsUserPro
  <2>3. Follow(Unlisted(r))'
    <3>1. Unlisted(r)' = Unlisted(rq[p])
      BY <1>a, <1>1 DEF Unlisted
    <3> QED  BY <1>6, <1>c, <3>1 DEF Sound, Follow, MemberSet
  <2>4. Knows(r)'
    <3>1. \A s : CountEntitlementsBySub(s)' = CountEntitlementsBySub(s)
      BY <1>c DEF CountEntitlementsBySub
    <3> QED  BY <1>6, <1>a, <1>c, <1>1, <3>1 DEF Sound, Knows, OrgSub, Active
  <2> QED  BY <2>1, <2>2, <2>3, <2>4 DEF Sound
<1>7. clean' = clean /\ rq[p].pc # "idle"
  BY <1>a, <1>c DEF runVars
<1> QED
  <2> HIDE DEF Sound, Accepts, Carries, PayTypes, OrgTypes, RunTypes, InviteTypes, MembershipSound
  <2> QED  BY <1>2, <1>3, <1>4, <1>5, <1>6, <1>7, <1>c, Steps
-----------------------------------------------------------------------------
(* Steps that change invites and members *)

LEMMA OrgSteps ==
    ASSUME OrgInv, NEW p \in Procs, NEW r \in Requests, Carries(r), Set(p, r), rq[p].pc # "idle",
           UNCHANGED <<paidVars, listed, runVars>>,
           OrgTypes', InviteTypes', MembershipSound', Accepts(r)',
           \A q \in Procs \ {p} : Accepts(rq[q]) => Accepts(rq[q])' \/ rq'[q] # rq[q],
           Unsettled(rq[p]) = {}, Unsettled(r)' = {}, Knows(r)',
           Follow(Unlisted(rq[p])) => Follow(Unlisted(r))'
    PROVE  OrgInv'
<1>1. PayTypes' /\ RunTypes'
  BY OrgTables DEF PayTypes, RunTypes, paidVars, runVars
<1>2. \A q \in Procs \ {p} : Accepts(rq[q])'
  <2>1. \A q \in Procs \ {p} : rq'[q] = rq[q] /\ Accepts(rq[q])
    BY Sets DEF OrgInv, InvitesInv
  <2> QED  BY <2>1
<1>3. ASSUME Sound(rq[p]) PROVE Sound(r)'
  <2>1. Bought' /\ SeatsKept' /\ OneSub'
    BY <1>3 DEF Sound, Bought, SeatsKept, OneSub, OrgSub, Active, CountEntitlementsBySub, paidVars
  <2>2. TiersRight(Unsettled(r))'
    BY <1>3 DEF Sound, TiersRight, IsUserPro, paidVars
  <2> QED  BY <1>3, <2>1, <2>2 DEF Sound
<1>4. clean' = clean
  BY DEF runVars
<1> QED
  <2> HIDE DEF Sound, Accepts, Carries, PayTypes, OrgTypes, RunTypes, InviteTypes, MembershipSound
  <2> QED  BY <1>1, <1>2, <1>3, <1>4, Steps

\* Another row of an invite: nobody's membership and no request depends on it.
LEMMA Others ==
    ASSUME OrgInv, NEW t \in Invites, NEW row, invites' = [invites EXCEPT ![t] = row],
           UNCHANGED <<org, members, taken>>,
           row \in [to : Users \union {None}, role : Roles \union {"none"},
                    state : {"none", "pending", "claimed", "revoked"}],
           invites[t].state # "claimed", row.state # "none",
           row.state = "pending" => /\ invites[t].state = "none" /\ row.to \in Users,
           row.state # "claimed", UNCHANGED maxSeats
    PROVE  /\ OrgTypes' /\ InviteTypes' /\ MembershipSound'
           /\ \A q \in Procs : Accepts(rq[q]) => Accepts(rq[q])' \/ rq'[q] # rq[q]
<1>1. OrgTypes' /\ invites'[t] = row /\ \A v \in Invites \ {t} : invites'[v] = invites[v]
  BY OrgTables DEF OrgTypes
<1>2. InviteTypes'
  BY <1>1 DEF OrgInv, InvitesInv, InviteTypes
<1>3. MembershipSound'
  BY <1>1 DEF OrgInv, InvitesInv, MembershipSound, MemberSet
<1>4. ASSUME NEW q \in Procs, Accepts(rq[q]), rq'[q] = rq[q] PROVE Accepts(rq[q])'
  <2>1. rq[q].pc \in {"consume", "join"} => rq[q].key \in Invites
    BY Underway DEF Carries, HasRead
  <2>2. rq[q].pc = "consume" => /\ invites'[rq[q].key].state # "none"
                                /\ invites'[rq[q].key].state = "pending" => invites'[rq[q].key].to = rq[q].who
    BY <1>1, <1>4, <2>1 DEF Accepts
  <2>3. rq[q].pc = "join" /\ org = "live" =>
          invites'[rq[q].key] = [to |-> rq[q].who, role |-> rq[q].val, state |-> "claimed"]
    BY <1>1, <1>4, <2>1 DEF Accepts
  <2> QED  BY <1>4, <2>2, <2>3 DEF Accepts
<1> QED  BY <1>1, <1>2, <1>3, <1>4

LEMMA IdleFits ==
    /\ Unsettled(Idle)' = {} /\ Unlisted(Idle)' = {} /\ Knows(Idle)' /\ Accepts(Idle)'
    /\ Idle \in Requests /\ Carries(Idle)
BY IdleIs DEF Unsettled, Unlisted, Knows, Accepts

LEMMA CreateInviteInv == ASSUME OrgInv, NEW p \in Procs, CreateInvite(p) PROVE OrgInv'
<1>0. rq[p] \in Requests /\ Carries(rq[p])
  BY Underway
<1>a. /\ rq[p].pc = "invite" /\ rq[p].op = "invite" /\ rq[p].who \in Users
      /\ UNCHANGED <<org, maxSeats, members, taken, paidVars, listed, runVars>> /\ Set(p, Idle)
  BY <1>0 DEF CreateInvite, At, End, Carries, HasRead, Fits, Requests, Ops
<1>1. Unsettled(rq[p]) = {} /\ Unlisted(rq[p]) = {}
  BY <1>a DEF Unsettled, Unlisted
<1>2. CASE \E t \in Invites : invites[t].to = rq[p].who
  <2>1. UNCHANGED orgVars
    BY <1>a, <1>2 DEF CreateInvite, orgVars
  <2> QED  BY <1>a, <1>1, <2>1, EndSteps
<1>3. CASE ~\E t \in Invites : invites[t].to = rq[p].who
  <2>1. Fresh(invites, NoInvite) # {} /\ Fresh(invites, NoInvite) \subseteq Invites
    BY <1>3, OrgTables DEF CreateInvite, Fresh, OrgTypes
  <2>2. Min(Fresh(invites, NoInvite)) \in Fresh(invites, NoInvite)
    BY <2>1, MinIn DEF Invites
  <2>3. PICK t \in Invites : t = Min(Fresh(invites, NoInvite)) /\ invites[t] = NoInvite
    BY <2>1, <2>2 DEF Fresh
  <2> DEFINE row == [to |-> rq[p].who, state |-> "pending",
                     role |-> IF rq[p].n = 1 THEN "admin" ELSE "member"]
  <2>4. invites' = [invites EXCEPT ![t] = row]
    BY <1>3, <2>3 DEF CreateInvite
  <2>5. /\ row \in [to : Users \union {None}, role : Roles \union {"none"},
                    state : {"none", "pending", "claimed", "revoked"}]
        /\ row.state = "pending" /\ row.to \in Users
    BY <1>a DEF Roles
  <2>6. invites[t].state = "none"
    BY <2>3 DEF NoInvite
  <2> HIDE DEF row
  <2>7. /\ OrgTypes' /\ InviteTypes' /\ MembershipSound'
        /\ \A q \in Procs : Accepts(rq[q]) => Accepts(rq[q])' \/ rq'[q] # rq[q]
    BY <1>a, <2>4, <2>5, <2>6, Others
  <2>8. Follow({}) => Follow({})'
    BY <1>a DEF Follow, MemberSet
  <2> QED  BY <1>a, <1>1, <2>7, <2>8, IdleFits, OrgSteps
<1> QED  BY <1>2, <1>3

LEMMA RevokeInviteInv == ASSUME OrgInv, NEW p \in Procs, RevokeInvite(p) PROVE OrgInv'
<1>0. rq[p] \in Requests /\ Carries(rq[p])
  BY Underway
<1>a. /\ rq[p].pc = "revoke" /\ rq[p].op = "revoke" /\ rq[p].key \in Invites
      /\ UNCHANGED <<org, maxSeats, members, taken, paidVars, listed, runVars>> /\ Set(p, Idle)
  BY <1>0 DEF RevokeInvite, At, End, Carries, HasRead, Fits, Requests, Ops
<1>1. Unsettled(rq[p]) = {} /\ Unlisted(rq[p]) = {}
  BY <1>a DEF Unsettled, Unlisted
<1>2. CASE invites[rq[p].key].state # "pending"
  <2>1. UNCHANGED orgVars
    BY <1>a, <1>2 DEF RevokeInvite, orgVars
  <2> QED  BY <1>a, <1>1, <2>1, EndSteps
<1>3. CASE invites[rq[p].key].state = "pending"
  <2>1. PICK t \in Invites : t = rq[p].key
    BY <1>a
  <2> DEFINE row == [NoInvite EXCEPT !.state = "revoked"]
  <2>2. invites' = [invites EXCEPT ![t] = row]
    BY <1>3, <2>1 DEF RevokeInvite
  <2>3. /\ row \in [to : Users \union {None}, role : Roles \union {"none"},
                    state : {"none", "pending", "claimed", "revoked"}]
        /\ row.state = "revoked"
    BY DEF NoInvite
  <2> HIDE DEF row
  <2>4. /\ OrgTypes' /\ InviteTypes' /\ MembershipSound'
        /\ \A q \in Procs : Accepts(rq[q]) => Accepts(rq[q])' \/ rq'[q] # rq[q]
    BY <1>3, <1>a, <2>1, <2>2, <2>3, Others
  <2>5. Follow({}) => Follow({})'
    BY <1>a DEF Follow, MemberSet
  <2> QED  BY <1>a, <1>1, <2>4, <2>5, IdleFits, OrgSteps
<1> QED  BY <1>2, <1>3

LEMMA ConsumeInviteInv == ASSUME OrgInv, NEW p \in Procs, ConsumeInvite(p) PROVE OrgInv'
<1>0. rq[p] \in Requests /\ Carries(rq[p]) /\ Accepts(rq[p])
  BY Underway DEF OrgInv, InvitesInv
<1>a. /\ rq[p].pc = "consume" /\ rq[p].op = "accept" /\ rq[p].key \in Invites /\ rq[p].who \in Users
      /\ rq[p].todo = {}
      /\ UNCHANGED <<org, maxSeats, members, paidVars, listed, runVars>>
  BY <1>0 DEF ConsumeInvite, At, Carries, HasRead, Fits, Requests, Ops
<1>1. Unsettled(rq[p]) = {} /\ Unlisted(rq[p]) = {}
  BY <1>a DEF Unsettled, Unlisted
<1>2. CASE invites[rq[p].key].state # "pending"
  <2>1. UNCHANGED orgVars /\ Set(p, Idle)
    BY <1>a, <1>2 DEF ConsumeInvite, End, orgVars
  <2> QED  BY <1>a, <1>1, <2>1, EndSteps
<1>3. CASE invites[rq[p].key].state = "pending"
  <2>1. invites[rq[p].key].role \in Roles \union {"none"}
    BY <1>a, OrgTables DEF OrgTypes
  <2>2. PICK t \in Invites, v \in Roles \union {"none"}, r \in Requests :
          t = rq[p].key /\ v = invites[t].role /\ r = Reads(rq[p], "join", v)
    <3>1. invites[rq[p].key].role \in Vals /\ "join" \in Pcs
      BY <2>1 DEF Vals, Pcs
    <3> QED  BY <1>0, <1>a, <2>1, <3>1, ReadsIs
  <2>3. v \in Vals /\ "join" \in Pcs
    BY DEF Vals, Pcs
  <2>4. r.pc = "join" /\ r.op = "accept" /\ r.who = rq[p].who /\ r.key = t /\ r.val = v /\ r.todo = {}
    BY <1>0, <1>a, <2>2, <2>3, ReadsIs
  <2>5. /\ invites' = [invites EXCEPT ![t].state = "claimed"]
        /\ taken' = [taken EXCEPT ![t] = @ + 1] /\ Set(p, r)
    BY <1>3, <2>2 DEF ConsumeInvite
  <2>6. Carries(r)
    BY <1>a, <2>2, <2>4 DEF Carries, HasRead, Fits, OfSub, RoleOrNone
  <2>7. /\ taken[t] = 0 /\ invites[t].to = rq[p].who /\ invites[t].role = v
    BY <1>0, <1>3, <1>a, <2>2 DEF OrgInv, InvitesInv, InviteTypes, Accepts
  <2>8. /\ OrgTypes' /\ taken'[t] = 1
        /\ invites'[t] = [to |-> rq[p].who, role |-> v, state |-> "claimed"]
        /\ \A s \in Invites \ {t} : invites'[s] = invites[s] /\ taken'[s] = taken[s]
    <3>1. /\ invites'[t] = [to |-> invites[t].to, role |-> invites[t].role, state |-> "claimed"]
          /\ invites' \in [Invites -> [to : Users \union {None}, role : Roles \union {"none"},
                                       state : {"none", "pending", "claimed", "revoked"}]]
          /\ \A s \in Invites \ {t} : invites'[s] = invites[s]
      BY <2>5, OrgTables DEF OrgTypes
    <3>2. taken'[t] = taken[t] + 1 /\ taken' \in [Invites -> Nat]
          /\ \A s \in Invites \ {t} : taken'[s] = taken[s]
      BY <2>5, OrgTables DEF OrgTypes
    <3>3. OrgTypes'
      BY <1>a, <3>1, <3>2, OrgTables DEF OrgTypes
    <3> QED  BY <2>7, <3>1, <3>2, <3>3
  <2>9. InviteTypes'
    BY <1>a, <2>8 DEF OrgInv, InvitesInv, InviteTypes
  <2>10. MembershipSound'
    <3>1. \A s \in Invites : invites[s].state = "claimed" => invites'[s] = invites[s]
      BY <1>3, <2>2, <2>8
    <3> QED  BY <1>a, <3>1 DEF OrgInv, InvitesInv, MembershipSound, MemberSet
  <2>11. Accepts(r)'
    BY <2>4, <2>8 DEF Accepts
  <2>12. \A q \in Procs \ {p} : Accepts(rq[q]) => Accepts(rq[q])' \/ rq'[q] # rq[q]
    <3> SUFFICES ASSUME NEW q \in Procs, Accepts(rq[q]), rq'[q] = rq[q] PROVE Accepts(rq[q])'
      OBVIOUS
    <3>1. rq[q].pc \in {"consume", "join"} => rq[q].key \in Invites
      BY Underway DEF Carries, HasRead
    <3>2. rq[q].pc = "consume" => /\ invites'[rq[q].key].state # "none"
                                  /\ invites'[rq[q].key].state = "pending" => invites'[rq[q].key].to = rq[q].who
      BY <2>8, <3>1 DEF Accepts
    <3>3. rq[q].pc = "join" /\ org = "live" =>
            invites'[rq[q].key] = [to |-> rq[q].who, role |-> rq[q].val, state |-> "claimed"]
      BY <1>3, <2>2, <2>8, <3>1 DEF Accepts
    <3> QED  BY <1>a, <3>2, <3>3 DEF Accepts
  <2>13. Unsettled(r)' = {} /\ Knows(r)'
    BY <2>4 DEF Unsettled, Knows
  <2>14. Follow({}) => Follow(Unlisted(r))'
    BY <1>a DEF Follow, MemberSet
  <2> QED  BY <1>1, <1>a, <2>5, <2>6, <2>8, <2>9, <2>10, <2>11, <2>12, <2>13, <2>14, OrgSteps
<1> QED  BY <1>2, <1>3

LEMMA AddMemberInv == ASSUME OrgInv, NEW p \in Procs, AddMember(p) PROVE OrgInv'
<1>0. rq[p] \in Requests /\ Carries(rq[p]) /\ Accepts(rq[p])
  BY Underway DEF OrgInv, InvitesInv
<1>a. /\ rq[p].pc = "join" /\ rq[p].op = "accept" /\ rq[p].key \in Invites /\ rq[p].who \in Users
      /\ rq[p].val \in RoleOrNone /\ rq[p].todo = {}
      /\ UNCHANGED <<org, maxSeats, invites, taken, paidVars, listed, runVars>>
  BY <1>0 DEF AddMember, At, Carries, HasRead, Fits, Requests, Ops
<1>b. PICK u \in Users, t \in Invites, v \in RoleOrNone, r \in Requests :
        u = rq[p].who /\ t = rq[p].key /\ v = rq[p].val /\ r = To(rq[p], "grant")
  <2>1. To(rq[p], "grant") \in Requests
    BY <1>0, ToIs DEF Pcs
  <2> QED  BY <1>a, <2>1
<1>c. /\ Set(p, r)
      /\ \/ members' = members
         \/ org = "live" /\ members[u] = "none" /\ members' = [members EXCEPT ![u] = v]
  BY <1>b DEF AddMember, Go
<1>1. r.pc = "grant" /\ r.op = "accept" /\ r.who = u /\ r.key = t /\ r.val = v /\ r.todo = {}
  BY <1>0, <1>a, <1>b, ToIs DEF Pcs
<1>2. Carries(r)
  BY <1>a, <1>b, <1>1 DEF Carries, HasRead, Fits, OfSub
<1>3. org = "live" => invites[t] = [to |-> u, role |-> v, state |-> "claimed"]
  BY <1>0, <1>a, <1>b DEF Accepts
<1>d. /\ OrgTypes' /\ \A w \in Users \ {u} : members'[w] = members[w]
      /\ members'[u] = members[u] \/ (org = "live" /\ members[u] = "none" /\ members'[u] = v)
  BY <1>a, <1>c, OrgTables DEF OrgTypes, RoleOrNone
<1>4. InviteTypes' /\ MembershipSound'
  <2>1. MembershipSound
    BY DEF OrgInv, InvitesInv
  <2>2. org # "live" => MemberSet' = {}
    BY <1>d, <2>1 DEF MembershipSound, MemberSet
  <2>3. org = "live" => members'[Owner] = "owner"
    BY <1>d, <2>1, OrgAssumption DEF MembershipSound
  <2>4. ASSUME NEW w \in Users \ {Owner}, members'[w] # "none"
        PROVE  \E x \in Invites : invites[x] = [to |-> w, role |-> members'[w], state |-> "claimed"]
    <3>1. CASE members'[w] = members[w]
      BY <2>1, <2>4, <3>1 DEF MembershipSound, MemberSet
    <3>2. CASE members'[w] # members[w]
      BY <1>3, <1>d, <2>4, <3>2
    <3> QED  BY <3>1, <3>2
  <2>5. InviteTypes'
    BY <1>a DEF OrgInv, InvitesInv, InviteTypes
  <2> QED  BY <1>a, <2>2, <2>3, <2>4, <2>5 DEF MembershipSound, MemberSet
<1>5. Accepts(r)' /\ \A q \in Procs \ {p} : Accepts(rq[q]) => Accepts(rq[q])' \/ rq'[q] # rq[q]
  BY <1>a, <1>1 DEF Accepts
<1>6. Unsettled(rq[p]) = {} /\ Unsettled(r)' = {} /\ Knows(r)'
  BY <1>a, <1>1 DEF Unsettled, Knows
<1>7. Follow(Unlisted(rq[p])) => Follow(Unlisted(r))'
  <2>1. Unlisted(rq[p]) = {u} /\ Unlisted(r)' = {u}
    BY <1>a, <1>b, <1>1 DEF Unlisted
  <2> QED  BY <1>a, <1>d, <2>1 DEF Follow, MemberSet
<1> QED  BY <1>a, <1>c, <1>d, <1>2, <1>4, <1>5, <1>6, <1>7, OrgSteps

LEMMA RemoveMemberInv == ASSUME OrgInv, NEW p \in Procs, RemoveMember(p) PROVE OrgInv'
<1>0. rq[p] \in Requests /\ Carries(rq[p])
  BY Underway
<1>a. /\ rq[p].pc = "unjoin" /\ rq[p].op = "remove" /\ rq[p].who \in Users \ {Owner}
      /\ rq[p].todo = {}
      /\ UNCHANGED <<org, maxSeats, invites, taken, paidVars, listed, runVars>>
  BY <1>0 DEF RemoveMember, At, Carries, HasRead, Fits, Requests, Ops
<1>b. PICK u \in Users \ {Owner}, r \in Requests : u = rq[p].who /\ r = To(rq[p], "ungrant")
  <2>1. To(rq[p], "ungrant") \in Requests
    BY <1>0, ToIs DEF Pcs
  <2> QED  BY <1>a, <2>1
<1>c. Set(p, r) /\ members' = [members EXCEPT ![u] = "none"]
  BY <1>b DEF RemoveMember, Go
<1>1. r.pc = "ungrant" /\ r.op = "remove" /\ r.who = u /\ r.val = rq[p].val /\ r.todo = {}
  BY <1>0, <1>a, <1>b, ToIs DEF Pcs
<1>2. Carries(r)
  BY <1>0, <1>a, <1>b, <1>1 DEF Carries, HasRead, Fits, OfSub
<1>d. OrgTypes' /\ members'[u] = "none" /\ \A w \in Users \ {u} : members'[w] = members[w]
  BY <1>a, <1>c, OrgTables DEF OrgTypes
<1>4. InviteTypes' /\ MembershipSound'
  <2>1. MembershipSound /\ InviteTypes
    BY DEF OrgInv, InvitesInv
  <2>2. InviteTypes'
    BY <1>a, <2>1 DEF InviteTypes
  <2> QED  BY <1>a, <1>d, <2>1, <2>2, OrgAssumption DEF MembershipSound, MemberSet
<1>5. Accepts(r)' /\ \A q \in Procs \ {p} : Accepts(rq[q]) => Accepts(rq[q])' \/ rq'[q] # rq[q]
  BY <1>a, <1>1 DEF Accepts
<1>6. Unsettled(rq[p]) = {} /\ Unsettled(r)' = {} /\ Knows(r)'
  BY <1>a, <1>1 DEF Unsettled, Knows
<1>7. Follow(Unlisted(rq[p])) => Follow(Unlisted(r))'
  <2>1. Unlisted(rq[p]) = {u} /\ Unlisted(r)' = {u}
    BY <1>a, <1>b, <1>1 DEF Unlisted
  <2> QED  BY <1>a, <1>d, <2>1 DEF Follow, MemberSet
<1> QED  BY <1>a, <1>c, <1>d, <1>2, <1>4, <1>5, <1>6, <1>7, OrgSteps

LEMMA DeleteOrgInv == ASSUME OrgInv, NEW p \in Procs, DeleteOrg(p) PROVE OrgInv'
<1>0. rq[p] \in Requests /\ Carries(rq[p])
  BY Underway
<1>a. /\ rq[p].pc = "delete" /\ rq[p].op = "delete"
      /\ UNCHANGED <<maxSeats, taken, paidVars, listed, runVars>> /\ Set(p, Idle)
      /\ org' = "deleted" /\ members' = [u \in Users |-> "none"]
      /\ invites' = [t \in Invites |-> IF invites[t] = NoInvite THEN NoInvite
                                       ELSE [NoInvite EXCEPT !.state = "revoked"]]
  BY <1>0 DEF DeleteOrg, At, End, Carries, HasRead, Fits, Requests, Ops
<1>b. /\ NoInvite \in [to : Users \union {None}, role : Roles \union {"none"},
                       state : {"none", "pending", "claimed", "revoked"}]
      /\ [NoInvite EXCEPT !.state = "revoked"] \in
             [to : Users \union {None}, role : Roles \union {"none"},
              state : {"none", "pending", "claimed", "revoked"}]
      /\ NoInvite.state = "none" /\ [NoInvite EXCEPT !.state = "revoked"].state = "revoked"
  BY DEF NoInvite
<1>c. \A t \in Invites : IF invites[t] = NoInvite THEN invites'[t].state = "none"
                         ELSE invites'[t].state = "revoked"
  BY <1>a, <1>b
<1>1. OrgTypes'
  BY <1>a, <1>b, OrgTables DEF OrgTypes
<1>2. InviteTypes'
  BY <1>a, <1>b, <1>c DEF OrgInv, InvitesInv, InviteTypes
<1>3. MembershipSound' /\ (Follow({}) => Follow({})')
  BY <1>a DEF MembershipSound, MemberSet, Follow
<1>4. \A q \in Procs : Accepts(rq[q]) => Accepts(rq[q])' \/ rq'[q] # rq[q]
  <2> SUFFICES ASSUME NEW q \in Procs, Accepts(rq[q]), rq'[q] = rq[q] PROVE Accepts(rq[q])'
    OBVIOUS
  <2>1. rq[q].pc = "consume" => rq[q].key \in Invites
    BY Underway DEF Carries, HasRead
  <2>2. rq[q].pc = "consume" => invites'[rq[q].key].state = "revoked"
    BY <1>b, <1>c, <2>1 DEF Accepts
  <2> QED  BY <1>a, <2>2 DEF Accepts
<1>5. Unsettled(rq[p]) = {} /\ Unlisted(rq[p]) = {}
  BY <1>a DEF Unsettled, Unlisted
<1> QED  BY <1>a, <1>1, <1>2, <1>3, <1>4, <1>5, IdleFits, OrgSteps
-----------------------------------------------------------------------------
(* Requests that begin *)

\* What a request has to be to begin so.
Starts(op, step, who, key, n) ==
    \A r \in Requests : /\ r.op = op /\ r.pc = step /\ r.who = who /\ r.key = key /\ r.n = n
                       /\ r.todo = {} /\ r.val = "none"
                       => Carries(r) /\ Accepts(r)'

LEMMA Begins ==
    ASSUME OrgInv, NEW p \in Procs, NEW op \in Ops, NEW step \in Pcs, NEW who \in Users \union {None},
           NEW key \in Nat, NEW n \in Nat, Begin(p, op, step, who, key, n),
           Starts(op, step, who, key, n),
           step \in {"invite", "revoke", "consume", "unjoin", "mayDelete", "mayGrow", "mayCancel", "mayBuy"}
    PROVE  OrgInv'
<1>1. PICK r \in Requests : r = Request(op, step, who, key, n)
  BY Asks
<1>2. r.op = op /\ r.pc = step /\ r.who = who /\ r.key = key /\ r.n = n /\ r.todo = {} /\ r.val = "none"
  BY <1>1, Asks
<1>3. /\ Set(p, r) /\ UNCHANGED <<failures, orgVars, paidVars, listed>> /\ rq[p].pc = "idle"
      /\ made' = made + 1 /\ clean' = (clean /\ Busy = {})
  BY <1>1 DEF Begin
<1>4. PayTypes' /\ OrgTypes' /\ RunTypes'
  BY <1>3, OrgTables DEF PayTypes, OrgTypes, RunTypes, orgVars, paidVars
<1>5. InviteTypes' /\ MembershipSound'
  BY <1>3 DEF OrgInv, InvitesInv, InviteTypes, MembershipSound, MemberSet, orgVars
<1>6. Carries(r) /\ Accepts(r)'
  BY <1>2 DEF Starts
<1>7. \A q \in Procs \ {p} : Accepts(rq[q])'
  <2>1. \A q \in Procs \ {p} : rq'[q] = rq[q] /\ Accepts(rq[q])
    BY <1>3, <1>6, Sets DEF OrgInv, InvitesInv
  <2> QED  BY <1>3, <2>1 DEF Accepts, orgVars
<1>8. ASSUME clean' PROVE clean /\ Busy = {} /\ Sound(r)'
  <2>1. clean /\ Busy = {} /\ Sound(Idle)
    BY <1>3, <1>8 DEF OrgInv, OneByOne
  <2>2. Bought' /\ SeatsKept' /\ OneSub'
    BY <1>3, <2>1 DEF Sound, Bought, SeatsKept, OneSub, OrgSub, Active, CountEntitlementsBySub, paidVars
  <2>3. TiersRight(Unsettled(r))'
    <3>1. Unsettled(r)' = {} /\ Unsettled(Idle) = {}
      BY <1>2, IdleIs DEF Unsettled
    <3> QED  BY <1>3, <2>1, <3>1 DEF Sound, TiersRight, IsUserPro, paidVars
  <2>4. Follow(Unlisted(r))'
    <3>1. Unlisted(Idle) = {}
      BY IdleIs DEF Unlisted
    <3> QED  BY <1>3, <2>1, <3>1 DEF Sound, Follow, MemberSet, orgVars
  <2>5. Knows(r)'
    BY <1>2 DEF Knows
  <2> QED  BY <2>1, <2>2, <2>3, <2>4, <2>5 DEF Sound
<1> QED
  <2> HIDE DEF Sound, Accepts, Carries, PayTypes, OrgTypes, RunTypes, InviteTypes, MembershipSound
  <2> QED  BY <1>3, <1>4, <1>5, <1>6, <1>7, <1>8, Steps

LEMMA AskInv == ASSUME OrgInv, NEW p \in Procs, Ask(p) PROVE OrgInv'
<1>o. Owner \in Users /\ 0 \in Nat /\ 1 \in Nat
  BY OrgAssumption
<1>i. /\ "invite" \in Ops /\ "revoke" \in Ops /\ "accept" \in Ops /\ "remove" \in Ops /\ "delete" \in Ops
      /\ "upgrade" \in Ops /\ "cancel" \in Ops /\ "personal" \in Ops /\ "downgrade" \in Ops
      /\ "invite" \in Pcs /\ "revoke" \in Pcs /\ "consume" \in Pcs /\ "unjoin" \in Pcs
      /\ "mayDelete" \in Pcs /\ "mayGrow" \in Pcs /\ "mayCancel" \in Pcs /\ "mayBuy" \in Pcs
      /\ None \in Users \union {None} /\ \A u \in Users : u \in Users \union {None}
      /\ \A n \in {0, 1} : n \in Nat
  BY DEF Ops, Pcs
<1>1. CASE AskInvite(p)
  <2>1. PICK u \in Users, admin \in {0, 1} : Begin(p, "invite", "invite", u, 0, admin)
    BY <1>1 DEF AskInvite
  <2>3. Starts("invite", "invite", u, 0, admin)
    BY <1>o DEF Carries, HasRead, Fits, OfSub, Accepts, Starts
  <2> QED  BY <1>i, <1>o, <2>1, <2>3, Begins
<1>2. CASE AskRevoke(p)
  <2>1. PICK t \in Invites : Begin(p, "revoke", "revoke", None, t, 0)
    BY <1>2 DEF AskRevoke
  <2>2. t \in Nat
    BY DEF Invites
  <2>3. Starts("revoke", "revoke", None, t, 0)
    BY <1>o DEF Carries, HasRead, Fits, OfSub, Accepts, Starts
  <2> QED  BY <2>2, <1>i, <1>o, <2>1, <2>3, Begins
<1>3. CASE AskAccept(p)
  <2>1. PICK t \in Invites : invites[t].state = "pending" /\ Begin(p, "accept", "consume", invites[t].to, t, 0)
    BY <1>3 DEF AskAccept
  <2>2. PICK u \in Users : u = invites[t].to
    BY <2>1 DEF OrgInv, InvitesInv, InviteTypes
  <2>3. t \in Nat /\ UNCHANGED invites /\ Begin(p, "accept", "consume", u, t, 0)
    BY <2>1, <2>2 DEF Invites, Begin, orgVars
  <2>4. Starts("accept", "consume", u, t, 0)
    BY <2>1, <2>2, <2>3 DEF Carries, HasRead, Fits, OfSub, Accepts, Starts, RoleOrNone
  <2> QED  BY <1>i, <1>o, <2>3, <2>4, Begins
<1>4. CASE AskRemove(p)
  <2>1. PICK u \in Users \ {Owner} : Begin(p, "remove", "unjoin", u, 0, 0)
    BY <1>4 DEF AskRemove
  <2>3. Starts("remove", "unjoin", u, 0, 0)
    BY <1>o DEF Carries, HasRead, Fits, OfSub, Accepts, Starts
  <2> QED  BY <1>i, <1>o, <2>1, <2>3, Begins
<1>5. CASE AskDelete(p)
  <2>1. Begin(p, "delete", "mayDelete", Owner, 0, 0)
    BY <1>5 DEF AskDelete
  <2>3. Starts("delete", "mayDelete", Owner, 0, 0)
    BY <1>o DEF Carries, HasRead, Fits, OfSub, Accepts, Starts
  <2> QED  BY <1>i, <1>o, <2>1, <2>3, Begins
<1>6. CASE AskUpgrade(p)
  <2>1. PICK n \in SeatChoices : Begin(p, "upgrade", "mayGrow", Owner, 0, n)
    BY <1>6 DEF AskUpgrade
  <2>2. n \in Nat
    BY OrgAssumption
  <2>3. Starts("upgrade", "mayGrow", Owner, 0, n)
    BY <1>o DEF Carries, HasRead, Fits, OfSub, Accepts, Starts
  <2> QED  BY <2>2, <1>i, <1>o, <2>1, <2>3, Begins
<1>7. CASE AskCancel(p)
  <2>1. Begin(p, "cancel", "mayCancel", Owner, 0, 0)
    BY <1>7 DEF AskCancel
  <2>3. Starts("cancel", "mayCancel", Owner, 0, 0)
    BY <1>o DEF Carries, HasRead, Fits, OfSub, Accepts, Starts
  <2> QED  BY <1>i, <1>o, <2>1, <2>3, Begins
<1>8. CASE AskPersonal(p)
  <2>1. PICK u \in Users : Begin(p, "personal", "mayBuy", u, 0, 1)
    BY <1>8 DEF AskPersonal
  <2>3. Starts("personal", "mayBuy", u, 0, 1)
    BY <1>o DEF Carries, HasRead, Fits, OfSub, Accepts, Starts
  <2> QED  BY <1>i, <1>o, <2>1, <2>3, Begins
<1>9. CASE AskDowngrade(p)
  <2>1. PICK u \in Users : Begin(p, "downgrade", "mayCancel", u, 0, 0)
    BY <1>9 DEF AskDowngrade
  <2>3. Starts("downgrade", "mayCancel", u, 0, 0)
    BY <1>o DEF Carries, HasRead, Fits, OfSub, Accepts, Starts
  <2> QED  BY <1>i, <1>o, <2>1, <2>3, Begins
<1> QED  BY <1>1, <1>2, <1>3, <1>4, <1>5, <1>6, <1>7, <1>8, <1>9 DEF Ask
-----------------------------------------------------------------------------
(* Failures *)

LEMMA AfterErrorIs ==
    ASSUME NEW r \in Requests, Carries(r), r.pc \notin NoCall
    PROVE  /\ AfterError(r) \in Requests /\ Carries(AfterError(r))
           /\ AfterError(r).pc \notin {"consume", "join"}
<1> DEFINE q == AfterError(r)
           Good == q \in Requests /\ Carries(q) /\ q.pc \notin {"consume", "join"}
<1>0. r.op \in Ops /\ Fits(r.op, r.pc) /\ HasRead(r)
  BY DEF Carries, HasRead, Requests
<1>i. /\ "grant" \in Pcs /\ "readOrgs" \in Pcs /\ "entitle" \in Pcs /\ "retier" \in Pcs
      /\ "setTier" \in Pcs /\ "setOrgs" \in Pcs /\ "delete" \in Pcs /\ "buy" \in Pcs
      /\ "maxSeats" \in Pcs /\ "list" \in Pcs /\ "readEnts" \in Pcs /\ "retierPick" \in Pcs
      /\ "free" \in Vals /\ "out" \in Vals /\ "buy" \in Vals
  BY DEF Pcs, Vals
<1>1. CASE q = Idle
  BY <1>1, IdleIs
<1>2. ASSUME NEW step \in {"grant", "readOrgs", "entitle", "retier", "delete", "buy", "maxSeats", "list",
                         "readEnts", "retierPick"},
             q = To(r, step),
             \/ step = "grant" /\ r.pc = "join"
             \/ step = "readOrgs" /\ r.pc \in {"grant", "ungrant"}
             \/ step = "entitle" /\ r.pc = "seat"
             \/ step = "retier" /\ r.pc = "disentitle"
             \/ step = "delete" /\ r.pc = "mayDelete"
             \/ step = "buy" /\ r.pc = "mayBuy"
             \/ step = "maxSeats" /\ r.pc = "grow"
             \/ step = "list" /\ r.pc = "maxSeats"
             \/ step = "readEnts" /\ r.pc = "cancel" /\ r.op = "cancel"
             \/ step = "retierPick" /\ r.pc = "deleteEnts"
      PROVE  Good
  <2>1. step \in Pcs
    BY <1>i
  <2>2. PICK x \in Requests : x = To(r, step)
    BY <2>1, ToIs
  <2>3. /\ x.op = r.op /\ x.pc = step /\ x.who = r.who /\ x.key = r.key /\ x.n = r.n
        /\ x.todo = r.todo /\ x.val = r.val
    BY <2>1, <2>2, ToIs
  <2>4. Fits(x.op, x.pc)
    BY <1>0, <1>2, <2>3 DEF Fits, Ops
  <2>5. HasRead(x)
    BY <1>0, <1>2, <2>3, <2>4 DEF HasRead, Fits, OfSub, Ops
  <2>6. x.val = "buy" => x.pc # "entitle"
    BY <1>0, <1>2, <2>3 DEF HasRead, Fits, Ops, RoleOrNone, Roles
  <2>7. x.pc # "pro" /\ x.pc \notin {"consume", "join"}
    BY <1>2, <2>3
  <2> QED  BY <1>2, <2>2, <2>5, <2>6, <2>7 DEF Carries
<1>3. ASSUME NEW step \in {"setTier", "setOrgs", "buy"}, NEW v \in {"free", "out", "buy"}, q = Reads(r, step, v),
             \/ step = "setTier" /\ v = "free" /\ r.pc = "retier"
             \/ step = "setOrgs" /\ v = "out" /\ r.pc = "readOrgs"
             \/ step = "buy" /\ v = "buy" /\ r.pc = "mayGrow"
      PROVE  Good
  <2>1. step \in Pcs /\ v \in Vals
    BY <1>i
  <2>2. PICK x \in Requests : x = Reads(r, step, v)
    BY <2>1, ReadsIs
  <2>3. /\ x.op = r.op /\ x.pc = step /\ x.who = r.who /\ x.key = r.key /\ x.n = r.n
        /\ x.todo = r.todo /\ x.val = v
    BY <2>1, <2>2, ReadsIs
  <2>4. Fits(x.op, x.pc)
    BY <1>0, <1>3, <2>3 DEF Fits, Ops
  <2>5. HasRead(x)
    BY <1>0, <1>3, <2>3, <2>4 DEF HasRead, Fits, OfSub, Ops, RoleOrNone
  <2>6. x.pc \notin {"consume", "join", "entitle", "pro"}
    BY <1>3, <2>3
  <2> QED  BY <1>3, <2>2, <2>5, <2>6 DEF Carries
<1>4. ASSUME NEW g \in Requests, HasRead(g), g.pc \in {"entitle", "pro", "setTier"}, q = Next1(g) PROVE Good
  <2>1. Next1(g) \in Requests /\ Carries(Next1(g))
    BY <1>4, NextIs
  <2>2. g.op \in {"accept", "remove", "upgrade", "cancel", "personal", "downgrade"}
    BY <1>4 DEF HasRead, Fits, Requests, Ops
  <2>3. Next1(g).pc \notin {"consume", "join"}
    BY <1>4, <2>2, NextIs, IdleIs
  <2> QED  BY <1>4, <2>1, <2>3
<1>5. CASE r.pc = "pro"
  <2>1. r.val = "buy" => r.n > 0
    BY <1>5 DEF Carries
  <2>2. PICK g : g = Given(r)
    OBVIOUS
  <2>3. /\ g \in Requests /\ g.op = r.op /\ g.pc = r.pc /\ g.who = r.who /\ g.key = r.key
        /\ g.todo = r.todo /\ g.val = r.val /\ (r.val # "buy" => g.n = r.n)
    BY <2>1, <2>2, GivenIs
  <2>4. HasRead(g)
    BY <1>0, <1>5, <2>3 DEF HasRead, Fits, RoleOrNone, Roles
  <2>5. q = Next1(g)
    BY <1>5, <2>2 DEF AfterError
  <2> QED  BY <1>4, <1>5, <2>3, <2>4, <2>5
<1>6. CASE r.pc = "setTier" \/ (r.pc = "entitle" /\ r.op # "personal")
  <2>1. q = Next1(r)
    BY <1>6 DEF AfterError
  <2> QED  BY <1>0, <1>4, <1>6, <2>1
<1>7. CASE r.pc \in {"retier", "readOrgs", "mayGrow"}
  <2>1. CASE r.pc = "retier"
    <3>1. q = Reads(r, "setTier", "free")
      BY <2>1 DEF AfterError
    <3> QED  BY <1>3, <2>1, <3>1
  <2>2. CASE r.pc = "readOrgs"
    <3>1. q = Reads(r, "setOrgs", "out")
      BY <2>2 DEF AfterError
    <3> QED  BY <1>3, <2>2, <3>1
  <2>3. CASE r.pc = "mayGrow"
    <3>1. q = Reads(r, "buy", "buy")
      BY <2>3 DEF AfterError
    <3> QED  BY <1>3, <2>3, <3>1
  <2> QED  BY <1>7, <2>1, <2>2, <2>3
<1>8. CASE r.pc \in {"join", "grant", "ungrant", "seat", "disentitle", "mayDelete", "mayBuy", "grow",
                     "maxSeats", "deleteEnts"} \/ (r.pc = "cancel" /\ r.op = "cancel")
  <2> DEFINE step == CASE r.pc = "join" -> "grant" [] r.pc \in {"grant", "ungrant"} -> "readOrgs"
                     [] r.pc = "seat" -> "entitle" [] r.pc = "disentitle" -> "retier"
                     [] r.pc = "mayDelete" -> "delete" [] r.pc = "mayBuy" -> "buy"
                     [] r.pc = "grow" -> "maxSeats" [] r.pc = "maxSeats" -> "list"
                     [] r.pc = "cancel" -> "readEnts" [] OTHER -> "retierPick"
  <2>1. q = To(r, step)
    BY <1>8 DEF AfterError
  <2>2. CASE r.pc \in {"join", "grant", "ungrant", "seat", "disentitle"}
    <3>1. \/ step = "grant" /\ r.pc = "join"
          \/ step = "readOrgs" /\ r.pc \in {"grant", "ungrant"}
          \/ step = "entitle" /\ r.pc = "seat"
          \/ step = "retier" /\ r.pc = "disentitle"
      BY <2>2
    <3> HIDE DEF step
    <3> QED  BY <1>2, <2>1, <3>1
  <2>3. CASE r.pc \notin {"join", "grant", "ungrant", "seat", "disentitle"}
    <3>1. \/ step = "delete" /\ r.pc = "mayDelete"
          \/ step = "buy" /\ r.pc = "mayBuy"
          \/ step = "maxSeats" /\ r.pc = "grow"
          \/ step = "list" /\ r.pc = "maxSeats"
          \/ step = "readEnts" /\ r.pc = "cancel" /\ r.op = "cancel"
          \/ step = "retierPick" /\ r.pc = "deleteEnts"
      BY <1>8, <2>3
    <3> HIDE DEF step
    <3> QED  BY <1>2, <2>1, <3>1
  <2> QED  BY <2>2, <2>3
<1>9. CASE ~(r.pc \in {"pro", "setTier", "retier", "readOrgs", "mayGrow", "join", "grant", "ungrant", "seat",
                       "disentitle", "mayDelete", "mayBuy", "grow", "maxSeats", "deleteEnts"}
             \/ (r.pc = "entitle" /\ r.op # "personal") \/ (r.pc = "cancel" /\ r.op = "cancel"))
  <2>1. q = Idle
    BY <1>9 DEF AfterError
  <2> QED  BY <1>1, <2>1
<1> QED  BY <1>5, <1>6, <1>7, <1>8, <1>9

LEMMA FailInv == ASSUME OrgInv, NEW p \in Procs, Fail(p) PROVE OrgInv'
<1>0. rq[p] \in Requests /\ Carries(rq[p])
  BY Underway
<1>1. PICK r \in Requests : r = AfterError(rq[p]) /\ Carries(r) /\ r.pc \notin {"consume", "join"}
  BY <1>0, AfterErrorIs DEF Fail
<1>2. /\ Set(p, r) /\ failures' = failures + 1 /\ clean' = FALSE
      /\ UNCHANGED <<made, org, maxSeats, members, invites, taken, paidVars, listed>>
  BY <1>1 DEF Fail, orgVars
<1>3. PayTypes'
  BY <1>2, OrgTables DEF PayTypes, paidVars
<1>4. RunTypes'
  <2>1. clean' \in BOOLEAN
    BY <1>2
  <2>2. made' \in Nat /\ failures' \in Nat
    BY <1>2, OrgTables DEF RunTypes
  <2> QED  BY <2>1, <2>2 DEF RunTypes
<1> QED  BY <1>1, <1>2, <1>3, <1>4, PaySteps

LEMMA RestartInv == ASSUME OrgInv, Restart PROVE OrgInv'
<1>1. /\ clean' = (clean /\ Busy = {}) /\ rq' = [p \in Procs |-> Idle] /\ listed' = MemberSet
      /\ UNCHANGED <<org, maxSeats, members, invites, taken, userTier, made, failures>>
  BY DEF Restart, orgVars
<1>2. PICK f \in [Backfilled -> Fresh(subs, NoSub)] :
        /\ subs' = [s \in Subs |-> IF \E u \in Backfilled : f[u] = s
                        THEN [of |-> CHOOSE u \in Backfilled : f[u] = s,
                              status |-> "active", seats |-> 1]
                        ELSE subs[s]]
        /\ ents' = ents \union {<<u, f[u]>> : u \in Backfilled}
  BY DEF Restart
<1>3. \A u \in Backfilled : u \in Users /\ f[u] \in Subs
  BY OrgTables DEF Backfilled, Fresh, PayTypes
<1>4. PayTypes'
  <2>1. subs' \in [Subs -> [of : Users \union {None, Org},
                            status : {"none", "active", "canceled"}, seats : Nat]]
    <3> SUFFICES ASSUME NEW s \in Subs
                 PROVE  subs'[s] \in [of : Users \union {None, Org},
                                      status : {"none", "active", "canceled"}, seats : Nat]
      BY <1>2
    <3>1. CASE \E u \in Backfilled : f[u] = s
      <4>1. (CHOOSE u \in Backfilled : f[u] = s) \in Backfilled
        BY <3>1
      <4>2. PICK w \in Users : w = CHOOSE u \in Backfilled : f[u] = s
        BY <1>3, <4>1
      <4>3. subs'[s] = [of |-> w, status |-> "active", seats |-> 1]
        BY <1>2, <3>1, <4>2
      <4> QED  BY <4>3
    <3>2. CASE ~\E u \in Backfilled : f[u] = s
      BY <1>2, <3>2, OrgTables DEF PayTypes
    <3> QED  BY <3>1, <3>2
  <2>2. ents' \subseteq Users \X Subs
    BY <1>2, <1>3, OrgTables DEF PayTypes
  <2>3. userTier' \in [Users -> {"free", "pro"}] /\ listed' \subseteq Users
    BY <1>1, OrgTables DEF PayTypes, MemberSet
  <2> QED  BY <2>1, <2>2, <2>3 DEF PayTypes
<1>5. OrgTypes' /\ RunTypes' /\ InviteTypes' /\ MembershipSound'
  BY <1>1, OrgTables DEF OrgInv, InvitesInv, OrgTypes, RunTypes, InviteTypes, MembershipSound, MemberSet
<1>6. \A p \in Procs : rq'[p] = Idle
  BY <1>1
<1>7. InvitesInv'
  <2>1. rq' \in [Procs -> Requests]
    BY <1>1, IdleIs
  <2>2. OrgTypeOK'
    BY <1>4, <1>5, <2>1 DEF OrgTypeOK, PayTypes, OrgTypes, RunTypes
  <2>3. \A p \in Procs : Carries(rq'[p]) /\ Accepts(rq[p])'
    BY <1>6, IdleFits, IdleIs DEF Accepts
  <2> QED  BY <1>5, <2>2, <2>3 DEF InvitesInv
<1>8. ASSUME clean' PROVE OneByOne'
  <2>1. Sound(Idle)
    BY <1>1, <1>8 DEF OrgInv, OneByOne
  <2>2. Backfilled = {}
    <3>1. Unsettled(Idle) = {}
      BY IdleIs DEF Unsettled
    <3> QED  BY <2>1, <3>1 DEF Sound, TiersRight, Backfilled
  <2>3. subs' = subs /\ ents' = ents
    BY <1>2, <2>2, OrgTables DEF PayTypes
  <2>4. Bought' /\ SeatsKept' /\ OneSub'
    BY <2>1, <2>3 DEF Sound, Bought, SeatsKept, OneSub, OrgSub, Active, CountEntitlementsBySub
  <2>5. TiersRight(Unsettled(Idle))'
    <3>1. Unsettled(Idle) = {} /\ Unsettled(Idle)' = {}
      BY IdleIs DEF Unsettled
    <3> QED  BY <1>1, <2>1, <2>3, <3>1 DEF Sound, TiersRight, IsUserPro
  <2>6. Follow(Unlisted(Idle))'
    BY <1>1 DEF Follow, MemberSet
  <2>7. Sound(Idle)'
    BY <2>4, <2>5, <2>6, IdleFits DEF Sound
  <2>8. Busy' = {}
    BY <1>6, IdleIs DEF Busy
  <2> QED  BY <1>6, <2>7, <2>8, IdleIs DEF OneByOne
<1> QED  BY <1>7, <1>8 DEF OrgInv
-----------------------------------------------------------------------------
(* Every step *)

LEMMA OrgStepInv == ASSUME OrgInv, NEW p \in Procs, Step(p) PROVE OrgInv'
BY CreateInviteInv, RevokeInviteInv, ConsumeInviteInv, AddMemberInv, RemoveMemberInv, MayDeleteInv,
   DeleteOrgInv, ReadOrgsInv, SetOrgsInv, GrantSubInv, SeatInv, EntitleInv, SetProInv, UngrantSubInv,
   DisentitleInv, RetierInv, SetTierInv, MayGrowInv, GrowInv, BuyInv, SetMaxSeatsInv, ListMembersInv,
   GrowPickInv, BuyPickInv, RetierPickInv, MayCancelInv, CancelSubInv, ReadEntsInv, DeleteEntsInv,
   MayBuyInv DEF Step

LEMMA OrgInvStays == OrgInv /\ [OrgNext]_accountVars => OrgInv'
<1> SUFFICES ASSUME OrgInv, [OrgNext]_accountVars PROVE OrgInv'
  OBVIOUS
<1>1. CASE OrgNext
  BY <1>1, AskInv, OrgStepInv, FailInv, RestartInv DEF OrgNext
<1>2. CASE UNCHANGED accountVars
  <2>1. UNCHANGED <<org, maxSeats, members, invites, taken, subs, ents, userTier, listed, rq, made, failures, clean>>
    BY <1>2 DEF accountVars, orgVars, paidVars, runVars
  <2>2. UNCHANGED <<OrgTypeOK, InviteTypes, MembershipSound>>
    BY <2>1 DEF OrgTypeOK, InviteTypes, MembershipSound, MemberSet
  <2>3. \A p \in Procs : Carries(rq[p])' /\ Accepts(rq[p])'
    BY <2>1 DEF OrgInv, InvitesInv, Accepts
  <2>4. OneByOne => OneByOne'
    <3>1. \A q \in Procs : Sound(rq[q]) => Sound(rq[q])'
      <4> SUFFICES ASSUME NEW q \in Procs, Sound(rq[q]) PROVE Sound(rq[q])'
        OBVIOUS
      <4>1. PICK r : r = rq[q]
        OBVIOUS
      <4>2. Sound(r)'
        BY <2>1, <4>1, SoundStays
      <4>3. rq'[q] = r
        BY <2>1, <4>1
      <4> QED  BY <4>2, <4>3
    <3>3. Sound(Idle) => Sound(Idle)'
      BY <2>1, SoundStays
    <3>2. Busy' = Busy
      BY <2>1 DEF Busy
    <3> QED  BY <2>1, <3>1, <3>2, <3>3 DEF OneByOne, Busy
  <2> QED  BY <2>1, <2>2, <2>3, <2>4 DEF OrgInv, InvitesInv
<1> QED  BY <1>1, <1>2
-----------------------------------------------------------------------------
(* The initial states *)

LEMMA OrgStarts == OrgInit => OrgInv
<1> SUFFICES ASSUME OrgInit PROVE OrgInv
  OBVIOUS
<1> DEFINE Begun(bought, joined, asked, token) ==
        LET in == joined \union {Owner} IN
        /\ joined \intersect asked = {}
        /\ IF bought = 0 THEN joined = {} ELSE Cardinality(in) <= bought
        /\ maxSeats = IF bought = 0 THEN 1 ELSE bought
        /\ members = [u \in Users |-> IF u = Owner THEN "owner"
                                      ELSE IF u \in joined THEN "member" ELSE "none"]
        /\ invites = [t \in Invites |->
               IF t \notin DOMAIN token THEN NoInvite
               ELSE [to |-> token[t], role |-> "member",
                     state |-> IF token[t] \in joined THEN "claimed" ELSE "pending"]]
        /\ taken = [t \in Invites |-> IF invites[t].state = "claimed" THEN 1 ELSE 0]
        /\ subs = [s \in Subs |-> IF s = 1 /\ bought > 0
                       THEN [of |-> Org, status |-> "active", seats |-> bought] ELSE NoSub]
        /\ ents = IF bought = 0 THEN {} ELSE in \X {1}
        /\ userTier = [u \in Users |-> IF bought > 0 /\ u \in in THEN "pro" ELSE "free"]
        /\ listed = joined
<1>a. PICK bought \in SeatChoices \union {0}, joined \in SUBSET (Users \ {Owner}),
           asked \in SUBSET (Users \ {Owner}) :
        \E token \in Bijection(1..Cardinality(joined \union asked), joined \union asked) :
            Begun(bought, joined, asked, token)
  BY DEF OrgInit
<1>1. PICK token \in Bijection(1..Cardinality(joined \union asked), joined \union asked) :
        Begun(bought, joined, asked, token)
  BY <1>a
<1> DEFINE in == joined \union {Owner}
           S == joined \union asked
           n == Cardinality(S)
<1>2. org = "live" /\ rq = [p \in Procs |-> Idle] /\ made = 0 /\ failures = 0 /\ clean = TRUE
  BY DEF OrgInit
<1>3. bought \in Nat /\ 1 \in Subs /\ Owner \in Users /\ joined \subseteq Users /\ in \subseteq Users
      /\ Owner \notin joined
  BY OrgAssumption DEF Subs
<1>4. /\ S \subseteq Users \ {Owner} /\ IsFiniteSet(S) /\ n \in Nat /\ n <= MaxInvites
      /\ 1..n \subseteq Invites
  <2>1. IsFiniteSet(Users \ {Owner}) /\ Cardinality(Users \ {Owner}) = Cardinality(Users) - 1
    BY <1>3, OrgAssumption, FS_RemoveElement
  <2>2. S \subseteq Users \ {Owner}
    OBVIOUS
  <2>3. IsFiniteSet(S) /\ Cardinality(S) <= Cardinality(Users \ {Owner})
    BY <2>1, <2>2, FS_Subset
  <2>4. Cardinality(S) \in Nat /\ Cardinality(Users) \in Nat
    BY <2>3, OrgAssumption, FS_CardinalityType
  <2>5. n <= MaxInvites
    BY <2>1, <2>3, <2>4, OrgAssumption
  <2>6. 1..n \subseteq Invites
    <3>1. n \in Nat
      BY <2>4
    <3> HIDE DEF n
    <3> QED  BY <2>5, <3>1, OrgAssumption DEF Invites
  <2> QED  BY <2>2, <2>3, <2>4, <2>5, <2>6
<1>5. DOMAIN token = 1..n /\ (\A t \in 1..n : token[t] \in S) /\ \A u \in S : \E t \in 1..n : token[t] = u
  BY DEF Bijection, Injection, Surjection, IsInjective
<1> HIDE DEF S, n, in
<1>6. \A t \in Invites : IF t \in 1..n
        THEN token[t] \in Users /\ invites[t] = [to |-> token[t], role |-> "member",
                                  state |-> IF token[t] \in joined THEN "claimed" ELSE "pending"]
        ELSE invites[t] = NoInvite
  BY <1>1, <1>4, <1>5
<1>7. OrgTypes
  <2>1. invites \in [Invites -> [to : Users \union {None}, role : Roles \union {"none"},
                                 state : {"none", "pending", "claimed", "revoked"}]]
    <3>1. \A t \in Invites : invites[t] \in [to : Users \union {None}, role : Roles \union {"none"},
                                             state : {"none", "pending", "claimed", "revoked"}]
      <4> SUFFICES ASSUME NEW t \in Invites
                   PROVE  invites[t] \in [to : Users \union {None}, role : Roles \union {"none"},
                                         state : {"none", "pending", "claimed", "revoked"}]
        OBVIOUS
      <4>1. CASE t \in 1..n
        <5>1. token[t] \in Users /\ invites[t] = [to |-> token[t], role |-> "member",
                                state |-> IF token[t] \in joined THEN "claimed" ELSE "pending"]
          BY <1>6, <4>1
        <5>2. PICK u \in Users, x \in {"claimed", "pending"} :
                 invites[t] = [to |-> u, role |-> "member", state |-> x]
          BY <5>1
        <5> QED  BY <5>2 DEF Roles
      <4>2. CASE t \notin 1..n
        <5>1. invites[t] = NoInvite
          BY <1>6, <4>2
        <5> QED  BY <5>1 DEF NoInvite, Roles
      <4> QED  BY <4>1, <4>2
    <3> QED  BY <1>1, <3>1
  <2>2. taken \in [Invites -> Nat]
    BY <1>1
  <2>3. members \in [Users -> Roles \union {"none"}]
    BY <1>1 DEF Roles
  <2>4. maxSeats \in Nat
    BY <1>1, <1>3
  <2> QED  BY <1>2, <2>1, <2>2, <2>3, <2>4 DEF OrgTypes
<1>8. PayTypes
  <2>1. subs \in [Subs -> [of : Users \union {None, Org},
                           status : {"none", "active", "canceled"}, seats : Nat]]
    BY <1>1, <1>3 DEF NoSub
  <2>2. ents \subseteq Users \X Subs
    BY <1>1, <1>3 DEF in
  <2>3. userTier \in [Users -> {"free", "pro"}] /\ listed \subseteq Users
    BY <1>1, <1>3
  <2> QED  BY <2>1, <2>2, <2>3 DEF PayTypes
<1>9. InvitesInv
  <2>1. rq \in [Procs -> Requests] /\ \A p \in Procs : rq[p] = Idle
    BY <1>2, IdleIs
  <2>2. RunTypes
    BY <1>2 DEF RunTypes
  <2>3. OrgTypeOK
    BY <1>7, <1>8, <2>1, <2>2, Typed
  <2>4. \A p \in Procs : Carries(rq[p]) /\ Accepts(rq[p])
    BY <2>1, IdleIs DEF Accepts
  <2>5. InviteTypes
    <3> SUFFICES ASSUME NEW t \in Invites
                 PROVE  /\ invites[t].state \in {"none", "pending"} => taken[t] = 0
                        /\ invites[t].state \in {"pending", "claimed"} => invites[t].to \in Users
                        /\ taken[t] <= 1
      BY DEF InviteTypes
    <3>1. taken[t] = IF invites[t].state = "claimed" THEN 1 ELSE 0
      BY <1>1
    <3>2. invites[t].state \in {"pending", "claimed"} => invites[t].to \in Users
      <4>1. CASE t \in 1..n
        <5>1. token[t] \in Users /\ invites[t] = [to |-> token[t], role |-> "member",
                                state |-> IF token[t] \in joined THEN "claimed" ELSE "pending"]
          BY <1>6, <4>1
        <5>2. PICK u \in Users, x \in {"claimed", "pending"} :
                 invites[t] = [to |-> u, role |-> "member", state |-> x]
          BY <5>1
        <5> QED  BY <5>2
      <4>2. CASE t \notin 1..n
        <5>1. invites[t] = NoInvite
          BY <1>6, <4>2
        <5> QED  BY <5>1 DEF NoInvite
      <4> QED  BY <4>1, <4>2
    <3> QED  BY <3>1, <3>2
  <2>6. MembershipSound
    <3>1. members[Owner] = "owner"
      BY <1>1, <1>3
    <3>2. ASSUME NEW u \in Users \ {Owner}, members[u] # "none"
          PROVE  \E t \in Invites : invites[t] = [to |-> u, role |-> members[u], state |-> "claimed"]
      <4>1. u \in joined /\ members[u] = "member"
        BY <1>1, <3>2
      <4>2. PICK t \in 1..n : token[t] = u
        BY <1>5, <4>1 DEF S
      <4> QED  BY <1>4, <1>6, <4>1, <4>2
    <3> QED  BY <1>2, <3>1, <3>2 DEF MembershipSound, MemberSet
  <2> QED  BY <2>3, <2>4, <2>5, <2>6 DEF InvitesInv
<1>10. OneByOne
  <2>1. Busy = {} /\ \A p, q \in Procs : rq[p].pc = "idle"
    BY <1>2, IdleIs DEF Busy
  <2>2. \A s \in Subs : subs[s] = IF s = 1 /\ bought > 0
                                  THEN [of |-> Org, status |-> "active", seats |-> bought] ELSE NoSub
    BY <1>1
  <2>3. \A e \in ents : bought > 0 /\ e[2] = 1 /\ e[1] \in in
    BY <1>1, <1>3 DEF in
  <2>4. \A u \in Users, s \in Subs : <<u, s>> \in ents <=> bought > 0 /\ s = 1 /\ u \in in
    BY <1>1, <1>3 DEF in
  <2>5. Bought
    BY <1>3, <2>2, <2>3 DEF Bought
  <2>6. SeatsKept
    <3> SUFFICES ASSUME NEW s \in Subs PROVE CountEntitlementsBySub(s) <= subs[s].seats
      BY DEF SeatsKept
    <3>1. CASE bought > 0 /\ s = 1
      <4>1. {u \in Users : <<u, s>> \in ents} = in
        BY <1>3, <2>4, <3>1
      <4>2. Cardinality(in) <= bought
        BY <1>1, <1>3, <3>1 DEF in
      <4>3. CountEntitlementsBySub(s) = Cardinality(in)
        BY <4>1 DEF CountEntitlementsBySub
      <4>4. subs[s].seats = bought
        BY <2>2, <3>1
      <4> QED  BY <4>2, <4>3, <4>4
    <3>2. CASE ~(bought > 0 /\ s = 1)
      <4>1. {u \in Users : <<u, s>> \in ents} = {}
        BY <2>4, <3>2
      <4>2. CountEntitlementsBySub(s) = 0
        BY <4>1, FS_EmptySet DEF CountEntitlementsBySub
      <4>3. subs[s] = NoSub
        BY <2>2, <3>2
      <4>4. subs[s].seats = 0
        BY <4>3 DEF NoSub
      <4> QED  BY <4>2, <4>4
    <3> QED  BY <3>1, <3>2
  <2>7. OneSub
    BY <2>2 DEF OneSub, OrgSub, Active, NoSub
  <2>8. TiersRight({})
    <3> SUFFICES ASSUME NEW u \in Users PROVE userTier[u] = "pro" <=> IsUserPro(u)
      BY DEF TiersRight
    <3>1. userTier[u] = "pro" <=> bought > 0 /\ u \in in
      BY <1>1 DEF in
    <3>2. IsUserPro(u) <=> bought > 0 /\ u \in in
      <4>1. IsUserPro(u) => bought > 0 /\ u \in in
        BY <2>4 DEF IsUserPro
      <4>2. ASSUME bought > 0, u \in in PROVE IsUserPro(u)
        <5>1. <<u, 1>> \in ents
          BY <1>3, <2>4, <4>2
        <5>2. subs[1].status = "active"
          BY <1>3, <2>2, <4>2
        <5> QED  BY <1>3, <5>1, <5>2 DEF IsUserPro
      <4> QED  BY <4>1, <4>2
    <3> QED  BY <3>1, <3>2
  <2>9. Follow({})
    BY <1>1 DEF Follow, MemberSet
  <2>10. Unsettled(Idle) = {} /\ Unlisted(Idle) = {} /\ Knows(Idle)
    BY IdleIs DEF Unsettled, Unlisted, Knows
  <2>11. Sound(Idle)
    BY <2>5, <2>6, <2>7, <2>8, <2>9, <2>10 DEF Sound
  <2> QED  BY <2>1, <2>11 DEF OneByOne
<1> QED  BY <1>9, <1>10 DEF OrgInv
-----------------------------------------------------------------------------
(* What the invariant says *)

LEMMA OrgInvariant == OrgSpec => []OrgInv
BY OrgStarts, OrgInvStays, PTL DEF OrgSpec

LEMMA QuietFollows == OrgInv => QuietConsistent
<1> SUFFICES ASSUME OrgInv, clean, Busy = {}
             PROVE  /\ \A u \in Users : userTier[u] = "pro" <=> IsUserPro(u)
                    /\ \A s \in Subs : CountEntitlementsBySub(s) <= subs[s].seats
                    /\ Cardinality({s \in Subs : subs[s].of = Org /\ subs[s].status = "active"}) <= 1
                    /\ org = "live" => listed \ {Owner} = MemberSet \ {Owner}
  BY DEF QuietConsistent
<1>1. Sound(Idle) /\ Unsettled(Idle) = {} /\ Unlisted(Idle) = {}
  BY IdleIs DEF OrgInv, OneByOne, Unsettled, Unlisted
<1>2. \A u \in Users : userTier[u] = "pro" <=> IsUserPro(u)
  BY <1>1 DEF Sound, TiersRight
<1>3. \A s \in Subs : CountEntitlementsBySub(s) <= subs[s].seats
  BY <1>1 DEF Sound, SeatsKept
<1>4. Cardinality({s \in Subs : subs[s].of = Org /\ subs[s].status = "active"}) <= 1
  <2> DEFINE A == {s \in Subs : subs[s].of = Org /\ subs[s].status = "active"}
  <2>1. \A s, t \in A : s = t
    BY <1>1 DEF Sound, OneSub, OrgSub, Active
  <2>2. CASE A = {}
    BY <2>2, FS_EmptySet
  <2>3. ASSUME NEW s \in A PROVE Cardinality(A) <= 1
    <3>1. A = {s}
      BY <2>1, <2>3
    <3>2. Cardinality({s}) = 1
      BY FS_Singleton
    <3> HIDE DEF A
    <3> QED  BY <3>1, <3>2
  <2> QED  BY <2>2, <2>3
<1>5. org = "live" => listed \ {Owner} = MemberSet \ {Owner}
  BY <1>1, OrgTables DEF Sound, Follow, PayTypes, MemberSet
<1> QED  BY <1>2, <1>3, <1>4, <1>5

\* The tables hold rows of their columns' types and a request is in one place,
\* whatever users, seats, requests and failures there are.
THEOREM OrgTypesHold == OrgSpec => []OrgTypeOK
<1>1. OrgInv => OrgTypeOK
  BY DEF OrgInv, InvitesInv
<1> QED  BY <1>1, OrgInvariant, PTL

\* Nobody is a member of the organisation but by an invite that was his and was
\* used once, whatever requests interleave, calls fail and restarts come between
\* (ConsumeOrgInvite, AddOrgMember, RemoveOrgMember, DeleteOrg).
THEOREM MembersWereInvited == OrgSpec => []ByInvitation
<1>1. OrgInv => ByInvitation
  BY DEF OrgInv, InvitesInv, InviteTypes, InviteOnce, ByInvitation
<1> QED  BY <1>1, OrgInvariant, PTL

\* Requests that come one at a time and whose calls succeed leave tiers,
\* entitlements, seats, the organisation's subscription and its streams in
\* agreement, after every grant, revocation, upgrade, cancellation and restart
\* (org.go, app_handlers.go).
THEOREM OneAtATimeIsConsistent == OrgSpec => []QuietConsistent
BY OrgInvariant, QuietFollows, PTL
-----------------------------------------------------------------------------
(* Logins *)

\* An account of this id is there.
Known(id) == \E u \in users : u.id = id

\* What a request has read by each of its steps.
Carried(r) ==
    /\ r.pc = "idle" <=> r.op = "none"
    /\ r.op = "oauth" => r.pc \in {"find", "save", "session"} /\ r.of \in People /\ r.key = 0
    /\ r.op = "magic" => r.pc \in {"consume", "find", "save", "session"} /\ r.of \in People /\ r.key \in Ids
    /\ r.op = "claim" => r.pc \in {"read", "claim"} /\ r.key \in Ids /\ r.id \in Ids
    /\ r.op = "token" => r.pc = "issue" /\ r.key \in Ids /\ r.id \in Ids
    /\ r.pc = "session" => r.id # 0
    /\ r.op \in {"oauth", "magic"} /\ r.id # 0 => Known(r.id)

\* One account an identity; requests and sessions are of accounts that are there.
Identified ==
    /\ \A u, v \in users : u.of = v.of \/ u.id = v.id => u = v
    /\ \A t \in Ids : Live(t) => Known(sessions[t])
    /\ \A p \in Handlers : Carried(requests[p])

\* A link that was followed is used; whoever used it has yet to open his session.
Following(r) == r.op = "magic" /\ r.pc # "consume"
LinksOnce ==
    /\ \A l \in Ids : opened[l] <= 1 /\ (opened[l] = 1 => links[l].used)
    /\ \A p \in Handlers : Following(requests[p]) =>
          /\ links[requests[p].key].used /\ opened[requests[p].key] = 0
          /\ \A q \in Handlers : Following(requests[q]) /\ requests[q].key = requests[p].key => p = q

\* A code is one person's from the moment it is claimed.
CodesOnce ==
    /\ \A c \in Ids :
          /\ codes[c].state \in {"none", "open"} => told[c] = {}
          /\ codes[c].state = "claimed" => codes[c].by \in Ids /\ told[c] = {codes[c].by}
          /\ told[c] = {} \/ \E id \in Ids : told[c] = {id}
    /\ \A p \in Handlers : requests[p].pc = "issue" => told[requests[p].key] = {requests[p].id}
    /\ \A k \in tokens : told[k.code] = {k.id}

\* What was learnt of a session was true when it was asked: an answer is not
\* younger than the session's end by more than a request's flight.
Aging ==
    /\ \A t \in Ids : sessions[t] # -1 => gone[t] = 0
    /\ \A v \in Looks : look[v].pc # "idle" => look[v].token \in Ids
    /\ \A v \in Looks : look[v].pc # "idle" /\ look[v].id # 0 /\ sessions[look[v].token] = -1 =>
          gone[look[v].token] <= look[v].age
    /\ \A t \in Ids : cache[t].id # 0 /\ sessions[t] = -1 => gone[t] <= cache[t].age + Flight

LoginsInv == LoginsTypeOK /\ Identified /\ LinksOnce /\ CodesOnce /\ Aging /\ ListedOnce
-----------------------------------------------------------------------------
(* Steps *)

USE DEF tableVars, edgeVars, streamVars, history

LEMMA IdsAre == Ids \subseteq Nat \ {0} /\ 0 \notin Ids /\ -1 \notin Ids
BY FS_CardinalityType, LoginsAssumption

\* What a step leaves alone it does not disturb.
LEMMA IdentifiedStays ==
    ASSUME Identified, UNCHANGED <<users, sessions, requests>> PROVE Identified'
BY DEF Identified, Live, Known, Carried
LEMMA LinksStay == ASSUME LinksOnce, UNCHANGED <<links, opened, requests>> PROVE LinksOnce'
BY DEF LinksOnce, Following
LEMMA CodesStay == ASSUME CodesOnce, UNCHANGED <<codes, told, tokens, requests>> PROVE CodesOnce'
BY DEF CodesOnce
LEMMA AgingStays == ASSUME Aging, UNCHANGED <<sessions, cache, look, gone>> PROVE Aging'
BY DEF Aging
LEMMA ListedStays == ASSUME ListedOnce, UNCHANGED <<stream, index>> PROVE ListedOnce'
BY DEF ListedOnce, Listed

\* One request changes.
LEMMA RequestIs ==
    ASSUME LoginsTypeOK, NEW p \in Handlers, NEW r \in LoginRequests,
           requests' = [requests EXCEPT ![p] = r]
    PROVE  /\ requests' \in [Handlers -> LoginRequests] /\ requests'[p] = r
           /\ \A q \in Handlers : q # p => requests'[q] = requests[q]
BY DEF LoginsTypeOK

LEMMA EndsIs ==
    ASSUME LoginsTypeOK, NEW p \in Handlers, Ends(p)
    PROVE  /\ requests' \in [Handlers -> LoginRequests] /\ requests'[p] = IdleRequest
           /\ \A q \in Handlers : q # p => requests'[q] = requests[q]
<1>1. IdleRequest \in LoginRequests
  BY DEF IdleRequest, LoginRequests
<1> QED  BY <1>1, RequestIs DEF Ends

LEMMA ContinueIs ==
    ASSUME LoginsTypeOK, NEW p \in Handlers, NEW id \in Ids \union {0},
           NEW step \in {"find", "save", "session", "claim"}, Continue(p, step, id)
    PROVE  /\ requests' \in [Handlers -> LoginRequests]
           /\ requests'[p].op = requests[p].op /\ requests'[p].pc = step /\ requests'[p].id = id
           /\ requests'[p].of = requests[p].of /\ requests'[p].key = requests[p].key
           /\ \A q \in Handlers : q # p => requests'[q] = requests[q]
<1> DEFINE r == [requests[p] EXCEPT !.pc = step, !.id = id]
<1>1. requests[p] \in LoginRequests
  BY DEF LoginsTypeOK
<1>2. r \in LoginRequests /\ r.op = requests[p].op /\ r.pc = step /\ r.id = id
      /\ r.of = requests[p].of /\ r.key = requests[p].key
  BY <1>1 DEF LoginRequests
<1>3. requests' = [requests EXCEPT ![p] = r]
  BY DEF Continue, LoginsTypeOK
<1> HIDE DEF r
<1>4. requests' \in [Handlers -> LoginRequests] /\ requests'[p] = r
      /\ \A q \in Handlers : q # p => requests'[q] = requests[q]
  BY <1>2, <1>3, RequestIs
<1> QED  BY <1>2, <1>4 DEF r

LEMMA ArrivesIs ==
    ASSUME LoginsTypeOK, NEW p \in Handlers, NEW op \in {"oauth", "magic", "claim", "token"},
           NEW step \in {"find", "consume", "read", "issue"}, NEW who \in People \union {Nobody},
           NEW key \in Ids \union {0}, NEW id \in Ids \union {0}, Arrives(p, op, step, who, key, id)
    PROVE  /\ requests' \in [Handlers -> LoginRequests] /\ requests[p] = IdleRequest
           /\ requests'[p].op = op /\ requests'[p].pc = step /\ requests'[p].id = id
           /\ requests'[p].of = who /\ requests'[p].key = key
           /\ \A q \in Handlers : q # p => requests'[q] = requests[q]
<1> DEFINE r == [op |-> op, pc |-> step, of |-> who, key |-> key, id |-> id]
<1>1. r \in LoginRequests
  BY DEF LoginRequests
<1>2. requests' = [requests EXCEPT ![p] = r] /\ requests[p] = IdleRequest
  BY DEF Arrives
<1> HIDE DEF r
<1>3. requests' \in [Handlers -> LoginRequests] /\ requests'[p] = r
      /\ \A q \in Handlers : q # p => requests'[q] = requests[q]
  BY <1>1, <1>2, RequestIs
<1> QED  BY <1>2, <1>3 DEF r

\* A request that is over disturbs nothing.
LEMMA OverIdentified ==
    ASSUME LoginsTypeOK, Identified, NEW p \in Handlers, Ends(p), UNCHANGED <<users, sessions>>
    PROVE  Identified'
<1>1. \A q \in Handlers : requests'[q] \in {IdleRequest, requests[q]}
  BY EndsIs
<1>2. Carried(IdleRequest)
  BY DEF Carried, IdleRequest
<1> QED  BY <1>1, <1>2 DEF Identified, Live, Known, Carried
LEMMA OverLinks ==
    ASSUME LoginsTypeOK, LinksOnce, NEW p \in Handlers, Ends(p), UNCHANGED <<links, opened>>
    PROVE  LinksOnce'
<1>1. \A q \in Handlers : requests'[q] \in {IdleRequest, requests[q]}
  BY EndsIs
<1> QED  BY <1>1 DEF LinksOnce, Following, IdleRequest
LEMMA OverCodes ==
    ASSUME LoginsTypeOK, CodesOnce, NEW p \in Handlers, Ends(p), UNCHANGED <<codes, told, tokens>>
    PROVE  CodesOnce'
<1>1. \A q \in Handlers : requests'[q] \in {IdleRequest, requests[q]}
  BY EndsIs
<1> QED  BY <1>1 DEF CodesOnce, IdleRequest

\* A request of op that has come, or goes on, and is itself as it should be.
LEMMA OneIdentified ==
    ASSUME Identified, NEW p \in Handlers, UNCHANGED <<users, sessions>>,
           \A q \in Handlers : q # p => requests'[q] = requests[q], Carried(requests[p])'
    PROVE  Identified'
BY DEF Identified, Live, Known, Carried
LEMMA OneLinks ==
    ASSUME LinksOnce, NEW p \in Handlers, UNCHANGED <<links, opened>>,
           \A q \in Handlers : q # p => requests'[q] = requests[q],
           Following(requests[p])' => Following(requests[p]) /\ requests'[p].key = requests[p].key
    PROVE  LinksOnce'
BY DEF LinksOnce, Following
LEMMA OneCodes ==
    ASSUME CodesOnce, NEW p \in Handlers, UNCHANGED <<codes, told, tokens>>,
           \A q \in Handlers : q # p => requests'[q] = requests[q],
           requests'[p].pc = "issue" => told[requests'[p].key] = {requests'[p].id}
    PROVE  CodesOnce'
BY DEF CodesOnce
-----------------------------------------------------------------------------
(* The beginning *)
LEMMA LoginsStart == LoginsInit => LoginsInv
<1> SUFFICES ASSUME LoginsInit PROVE LoginsInv
  OBVIOUS
<1>1. PICK known \in [1..left.known -> People] :
         /\ \A i, j \in DOMAIN known : known[i] = known[j] => i = j
         /\ users = {[id |-> i, of |-> known[i]] : i \in DOMAIN known}
         /\ sessions = [t \in Ids |-> IF t \in DOMAIN known THEN t ELSE 0]
  BY DEF LoginsInit
<1>2. DOMAIN known \subseteq Ids /\ left.known \in Nat
  BY FS_CardinalityType, LoginsAssumption DEF LoginsInit
<1>3. users \subseteq [id : Ids, of : People]
  BY <1>1, <1>2
<1>k. \A i \in DOMAIN known : Known(i)
  <2> TAKE i \in DOMAIN known
  <2>1. [id |-> i, of |-> known[i]] \in users /\ [id |-> i, of |-> known[i]].id = i
    BY <1>1
  <2> QED  BY <2>1 DEF Known
<1>4. \A u, v \in users : u.of = v.of \/ u.id = v.id => u = v
  BY <1>1
<1>5. /\ member \subseteq Ids /\ sessions \in [Ids -> Ids \union {0, -1}]
      /\ \A t \in Ids : Live(t) => Known(sessions[t])
  <2>1. {u.id : u \in users} \subseteq Ids
    BY <1>3
  <2>2. member \subseteq Ids
    BY <2>1 DEF LoginsInit
  <2>3. sessions \in [Ids -> Ids \union {0, -1}]
    BY <1>1, <1>2
  <2>4. ASSUME NEW t \in Ids, Live(t) PROVE Known(sessions[t])
    <3>1. t \in DOMAIN known /\ sessions[t] = t
      BY <1>1, <2>4 DEF Live
    <3> QED  BY <1>k, <3>1
  <2> QED  BY <2>2, <2>3, <2>4
<1>6. LoginsTypeOK
  <2>1. /\ IdleRequest \in LoginRequests /\ NoEntry \in Answers /\ TTL - 1 \in Nat /\ Flight \in Nat
    BY LoginsAssumption DEF IdleRequest, LoginRequests, NoEntry, Answers
  <2>2. /\ requests \in [Handlers -> LoginRequests] /\ cache \in [Ids -> Answers]
    BY <2>1 DEF LoginsInit
  <2>3. look \in [Looks -> Questions] /\ jobs \in [Jobs -> Refreshes]
    BY <2>1 DEF LoginsInit, IdleLook, IdleJob, Questions, Refreshes
  <2>4. /\ orgSync \in [pc : {"idle", "read", "apply"}, asked : SUBSET Ids, in : SUBSET Ids]
        /\ stream \in [Streams -> Dashboards] /\ index \in [Streams -> Nat]
    BY DEF LoginsInit, IdleSync, Off, Dashboards
  <2>5. /\ links \in [Ids -> [to : People \union {Nobody}, used : BOOLEAN]]
        /\ codes \in [Ids -> [state : {"none", "open", "claimed", "expired"}, by : Ids \union {0}]]
        /\ tokens \subseteq [code : Ids, id : Ids]
        /\ told \in [Ids -> SUBSET Ids] /\ opened \in [Ids -> Nat] /\ gone \in [Ids -> Nat]
    BY DEF LoginsInit
  <2> QED  BY <1>3, <1>5, <2>2, <2>3, <2>4, <2>5 DEF LoginsTypeOK
<1>7. Identified
  BY <1>4, <1>5 DEF Identified, Carried, LoginsInit, IdleRequest
<1>8. LinksOnce /\ CodesOnce
  BY DEF LinksOnce, CodesOnce, Following, LoginsInit, IdleRequest
<1>9. Aging
  BY LoginsAssumption, IdsAre DEF Aging, LoginsInit, IdleLook, NoEntry
<1>10. ListedOnce
  BY DEF ListedOnce, Listed, LoginsInit, Off
<1> QED  BY <1>6, <1>7, <1>8, <1>9, <1>10 DEF LoginsInv
-----------------------------------------------------------------------------
(* Login *)

LEMMA MagicLinkInv == ASSUME LoginsInv, NEW who \in People, MagicLink(who) PROVE LoginsInv'
<1> USE DEF LoginsInv
<1>1. LoginsTypeOK'
  <2>1. PICK l \in Ids : links' = [links EXCEPT ![l].to = who]
    BY DEF MagicLink
  <2>2. links' \in [Ids -> [to : People \union {Nobody}, used : BOOLEAN]]
    <3>1. \A k \in Ids : links[k] \in [to : People \union {Nobody}, used : BOOLEAN]
      BY DEF LoginsTypeOK
    <3>2. [links[l] EXCEPT !.to = who] \in [to : People \union {Nobody}, used : BOOLEAN]
      BY <3>1
    <3> QED  BY <2>1, <3>2 DEF LoginsTypeOK
  <2> QED  BY <2>2 DEF MagicLink, LoginsTypeOK
<1>2. Identified'
  BY IdentifiedStays DEF MagicLink
<1>3. LinksOnce'
  <2>1. \A l \in Ids : links'[l].used = links[l].used
    BY DEF MagicLink, LoginsTypeOK
  <2>2. \A q \in Handlers : Following(requests[q]) => requests[q].key \in Ids
    BY DEF Following, Identified, Carried, LoginsTypeOK, LoginRequests
  <2> QED  BY <2>1, <2>2 DEF MagicLink, LinksOnce, Following
<1>4. CodesOnce'
  BY CodesStay DEF MagicLink
<1>5. Aging'
  BY AgingStays DEF MagicLink
<1>6. ListedOnce'
  BY ListedStays DEF MagicLink
<1> QED  BY <1>1, <1>2, <1>3, <1>4, <1>5, <1>6

LEMMA OAuthInv == ASSUME LoginsInv, NEW p \in Handlers, NEW who \in People, OAuth(p, who) PROVE LoginsInv'
<1> USE DEF LoginsInv
<1>r. /\ requests' \in [Handlers -> LoginRequests]
      /\ requests[p] = IdleRequest /\ requests'[p].op = "oauth" /\ requests'[p].pc = "find"
      /\ requests'[p].of = who /\ requests'[p].key = 0 /\ requests'[p].id = 0
      /\ \A q \in Handlers : q # p => requests'[q] = requests[q]
  <2>1. who \in People \union {Nobody} /\ 0 \in Ids \union {0} /\ 0 \in Ids \union {0}
    OBVIOUS
  <2> QED  BY <2>1, ArrivesIs DEF OAuth
<1>1. LoginsTypeOK'
  BY <1>r DEF OAuth, LoginsTypeOK
<1>2. Identified'
  <2>1. Carried(requests[p])'
    BY <1>r DEF OAuth, Carried, LoginsTypeOK, Identified, Known, Live
  <2> QED  BY <1>r, <2>1, OneIdentified DEF OAuth
<1>3. LinksOnce'
  BY <1>r, OneLinks DEF OAuth, Following
<1>4. CodesOnce'
  BY <1>r, OneCodes DEF OAuth
<1>5. Aging'
  BY AgingStays DEF OAuth
<1>6. ListedOnce'
  BY ListedStays DEF OAuth
<1> QED  BY <1>1, <1>2, <1>3, <1>4, <1>5, <1>6

LEMMA MagicVerifyInv == ASSUME LoginsInv, NEW p \in Handlers, NEW l \in Ids, MagicVerify(p, l) PROVE LoginsInv'
<1> USE DEF LoginsInv
<1>r. /\ requests' \in [Handlers -> LoginRequests]
      /\ requests[p] = IdleRequest /\ requests'[p].op = "magic" /\ requests'[p].pc = "consume"
      /\ requests'[p].of = links[l].to /\ requests'[p].key = l /\ requests'[p].id = 0
      /\ \A q \in Handlers : q # p => requests'[q] = requests[q]
  <2>1. links[l].to \in People \union {Nobody} /\ l \in Ids \union {0} /\ 0 \in Ids \union {0}
    BY DEF LoginsTypeOK
  <2> QED  BY <2>1, ArrivesIs DEF MagicVerify
<1>1. LoginsTypeOK'
  BY <1>r DEF MagicVerify, LoginsTypeOK
<1>2. Identified'
  <2>1. Carried(requests[p])'
    BY <1>r DEF MagicVerify, Carried, LoginsTypeOK, Identified, Known, Live
  <2> QED  BY <1>r, <2>1, OneIdentified DEF MagicVerify
<1>3. LinksOnce'
  BY <1>r, OneLinks DEF MagicVerify, Following
<1>4. CodesOnce'
  BY <1>r, OneCodes DEF MagicVerify
<1>5. Aging'
  BY AgingStays DEF MagicVerify
<1>6. ListedOnce'
  BY ListedStays DEF MagicVerify
<1> QED  BY <1>1, <1>2, <1>3, <1>4, <1>5, <1>6

LEMMA AuthClaimInv == ASSUME LoginsInv, NEW p \in Handlers, NEW c \in Ids, NEW t \in Ids, AuthClaim(p, c, t) PROVE LoginsInv'
<1> USE DEF LoginsInv
<1>r. /\ requests' \in [Handlers -> LoginRequests]
      /\ requests[p] = IdleRequest /\ requests'[p].op = "claim" /\ requests'[p].pc = "read"
      /\ requests'[p].of = Nobody /\ requests'[p].key = c /\ requests'[p].id = sessions[t]
      /\ \A q \in Handlers : q # p => requests'[q] = requests[q]
  <2>1. Nobody \in People \union {Nobody} /\ c \in Ids \union {0} /\ sessions[t] \in Ids \union {0}
    BY IdsAre DEF LoginsTypeOK, AuthClaim, Live
  <2> QED  BY <2>1, ArrivesIs DEF AuthClaim
<1>1. LoginsTypeOK'
  BY <1>r DEF AuthClaim, LoginsTypeOK
<1>2. Identified'
  <2>1. Carried(requests[p])'
    BY <1>r DEF AuthClaim, Carried, LoginsTypeOK, Identified, Known, Live
  <2> QED  BY <1>r, <2>1, OneIdentified DEF AuthClaim
<1>3. LinksOnce'
  BY <1>r, OneLinks DEF AuthClaim, Following
<1>4. CodesOnce'
  BY <1>r, OneCodes DEF AuthClaim
<1>5. Aging'
  BY AgingStays DEF AuthClaim
<1>6. ListedOnce'
  BY ListedStays DEF AuthClaim
<1> QED  BY <1>1, <1>2, <1>3, <1>4, <1>5, <1>6

LEMMA CallFailsInv == ASSUME LoginsInv, NEW p \in Handlers, CallFails(p) PROVE LoginsInv'
<1> USE DEF LoginsInv
<1>1. LoginsTypeOK'
  BY EndsIs DEF CallFails, LoginsTypeOK
<1>2. Identified'
  BY OverIdentified DEF CallFails
<1>3. LinksOnce'
  BY OverLinks DEF CallFails
<1>4. CodesOnce'
  BY OverCodes DEF CallFails
<1>5. Aging'
  BY AgingStays DEF CallFails
<1>6. ListedOnce'
  BY ListedStays DEF CallFails
<1> QED  BY <1>1, <1>2, <1>3, <1>4, <1>5, <1>6

LEMMA ReadCodeInv == ASSUME LoginsInv, NEW p \in Handlers, ReadCode(p) PROVE LoginsInv'
<1> USE DEF LoginsInv
<1>c. requests[p].id \in Ids \union {0}
  BY DEF LoginsTypeOK, LoginRequests
<1>r. requests' \in [Handlers -> LoginRequests]
  BY <1>c, EndsIs, ContinueIs DEF ReadCode
<1>1. LoginsTypeOK'
  BY <1>r DEF ReadCode, LoginsTypeOK
<1>2. Identified'
  <2>1. CASE Ends(p)
    BY <2>1, OverIdentified DEF ReadCode
  <2>2. CASE Continue(p, "claim", requests[p].id)
    <3>1. Carried(requests[p])'
      BY <1>c, <2>2, ContinueIs DEF ReadCode, Carried, Identified
    <3> QED  BY <1>c, <2>2, <3>1, ContinueIs, OneIdentified DEF ReadCode
  <2> QED  BY <2>1, <2>2 DEF ReadCode
<1>3. LinksOnce'
  <2>1. CASE Ends(p)
    BY <2>1, OverLinks DEF ReadCode
  <2>2. CASE Continue(p, "claim", requests[p].id)
    BY <1>c, <2>2, ContinueIs, OneLinks DEF ReadCode, Following
  <2> QED  BY <2>1, <2>2 DEF ReadCode
<1>4. CodesOnce'
  <2>1. CASE Ends(p)
    BY <2>1, OverCodes DEF ReadCode
  <2>2. CASE Continue(p, "claim", requests[p].id)
    BY <1>c, <2>2, ContinueIs, OneCodes DEF ReadCode
  <2> QED  BY <2>1, <2>2 DEF ReadCode
<1>5. Aging'
  BY AgingStays DEF ReadCode
<1>6. ListedOnce'
  BY ListedStays DEF ReadCode
<1> QED  BY <1>1, <1>2, <1>3, <1>4, <1>5, <1>6

LEMMA FindUserInv == ASSUME LoginsInv, NEW p \in Handlers, FindUser(p) PROVE LoginsInv'
<1> USE DEF LoginsInv
<1>g. requests[p].pc = "find" /\ requests[p].op \in {"oauth", "magic"}
  BY DEF FindUser, Identified, Carried, LoginsTypeOK, LoginRequests
<1>r. /\ requests' \in [Handlers -> LoginRequests]
      /\ requests'[p].op = requests[p].op /\ requests'[p].of = requests[p].of
      /\ requests'[p].key = requests[p].key
      /\ requests'[p].pc \in {"save", "session"}
      /\ (requests'[p].id = 0 /\ requests'[p].pc = "save") \/ \E u \in users : u.id = requests'[p].id
      /\ \A q \in Handlers : q # p => requests'[q] = requests[q]
  <2>1. \E step \in {"save", "session"}, id \in Ids \union {0} :
           /\ Continue(p, step, id)
           /\ (id = 0 /\ step = "save") \/ \E u \in users : u.id = id
    BY DEF FindUser, LoginsTypeOK
  <2>2. PICK step \in {"save", "session"}, id \in Ids \union {0} :
           /\ Continue(p, step, id)
           /\ (id = 0 /\ step = "save") \/ \E u \in users : u.id = id
    BY <2>1
  <2>3. step \in {"find", "save", "session", "claim"}
    OBVIOUS
  <2>4. /\ requests' \in [Handlers -> LoginRequests]
        /\ requests'[p].op = requests[p].op /\ requests'[p].pc = step /\ requests'[p].id = id
        /\ requests'[p].of = requests[p].of /\ requests'[p].key = requests[p].key
        /\ \A q \in Handlers : q # p => requests'[q] = requests[q]
    BY <2>2, <2>3, ContinueIs
  <2> QED  BY <2>2, <2>4
<1>1. LoginsTypeOK'
  BY <1>r DEF FindUser, LoginsTypeOK
<1>2. Identified'
  <2>1. Carried(requests[p])'
    BY <1>g, <1>r, <1>1, IdsAre DEF FindUser, Carried, Identified, Known, LoginsTypeOK
  <2> QED  BY <1>r, <2>1, OneIdentified DEF FindUser
<1>3. LinksOnce'
  BY <1>g, <1>r, OneLinks DEF FindUser, Following
<1>4. CodesOnce'
  BY <1>r, OneCodes DEF FindUser
<1>5. Aging'
  BY AgingStays DEF FindUser
<1>6. ListedOnce'
  BY ListedStays DEF FindUser
<1> QED  BY <1>1, <1>2, <1>3, <1>4, <1>5, <1>6

LEMMA ConsumeMagicLinkInv == ASSUME LoginsInv, NEW p \in Handlers, ConsumeMagicLink(p) PROVE LoginsInv'
<1> USE DEF LoginsInv
<1>g. requests[p].pc = "consume" /\ requests[p].op = "magic" /\ requests[p].key \in Ids
  BY DEF ConsumeMagicLink, Identified, Carried, LoginsTypeOK, LoginRequests
<1>c. ASSUME Continue(p, "find", 0)
      PROVE  /\ requests' \in [Handlers -> LoginRequests] /\ requests'[p].id = 0 /\ requests'[p].pc = "find"
             /\ requests'[p].op = "magic" /\ requests'[p].of = requests[p].of
             /\ requests'[p].key = requests[p].key
             /\ \A q \in Handlers : q # p => requests'[q] = requests[q]
  <2>1. 0 \in Ids \union {0} /\ "find" \in {"find", "save", "session", "claim"}
    OBVIOUS
  <2> QED  BY <1>c, <1>g, <2>1, ContinueIs
<1>r. requests' \in [Handlers -> LoginRequests]
  BY <1>c, EndsIs DEF ConsumeMagicLink
<1>1. LoginsTypeOK'
  <2>1. links' \in [Ids -> [to : People \union {Nobody}, used : BOOLEAN]]
    <3>1. links' \in {links, [links EXCEPT ![requests[p].key].used = TRUE]}
      BY DEF ConsumeMagicLink
    <3>2. \A k \in Ids : links[k] \in [to : People \union {Nobody}, used : BOOLEAN]
      BY DEF LoginsTypeOK
    <3>3. [links[requests[p].key] EXCEPT !.used = TRUE] \in [to : People \union {Nobody}, used : BOOLEAN]
      BY <1>g, <3>2
    <3> QED  BY <1>g, <3>1, <3>3 DEF LoginsTypeOK
  <2> QED  BY <1>r, <2>1 DEF ConsumeMagicLink, LoginsTypeOK
<1>2. Identified'
  <2>1. CASE Ends(p)
    BY <2>1, OverIdentified DEF ConsumeMagicLink
  <2>2. CASE Continue(p, "find", 0)
    <3>1. Carried(requests[p])'
      BY <1>g, <1>c, <2>2 DEF Carried, Identified
    <3> QED  BY <1>c, <2>2, <3>1, OneIdentified DEF ConsumeMagicLink
  <2> QED  BY <2>1, <2>2 DEF ConsumeMagicLink
<1>3. LinksOnce'
  <2> DEFINE l == requests[p].key
  <2>1. CASE links[l].used
    BY <2>1, OverLinks DEF ConsumeMagicLink
  <2>2. CASE ~links[l].used
    <3>1. Continue(p, "find", 0) /\ links' = [links EXCEPT ![l].used = TRUE] /\ opened' = opened
      BY <2>2 DEF ConsumeMagicLink
    <3>2. links'[l].used /\ \A k \in Ids : links[k].used => links'[k].used
      BY <3>1, <1>g DEF LoginsTypeOK
    <3>3. opened[l] = 0
      <4>1. l \in Ids /\ opened[l] \in Nat
        BY <1>g DEF LoginsTypeOK
      <4>2. opened[l] <= 1 /\ opened[l] # 1
        BY <2>2, <4>1 DEF LinksOnce
      <4> QED  BY <4>1, <4>2
    <3>4. \A q \in Handlers : Following(requests[q]) => requests[q].key \in Ids /\ requests[q].key # l
      BY <1>g, <2>2 DEF LinksOnce, Identified, Carried, Following
    <3> HIDE DEF l
    <3>5. requests'[p].key = l /\ \A q \in Handlers : q # p => requests'[q] = requests[q]
      BY <1>c, <3>1 DEF l
    <3>6. \A k \in Ids : opened'[k] <= 1 /\ (opened'[k] = 1 => links'[k].used)
      BY <3>1, <3>2 DEF LinksOnce
    <3>7. ASSUME NEW q \in Handlers, Following(requests'[q])
          PROVE  /\ links'[requests'[q].key].used /\ opened'[requests'[q].key] = 0
                 /\ \A o \in Handlers : Following(requests'[o]) /\ requests'[o].key = requests'[q].key => q = o
      BY <3>1, <3>2, <3>3, <3>4, <3>5, <3>7 DEF LinksOnce
    <3> QED  BY <3>6, <3>7 DEF LinksOnce, Following
  <2> QED  BY <2>1, <2>2
<1>4. CodesOnce'
  <2>1. CASE Ends(p)
    BY <2>1, OverCodes DEF ConsumeMagicLink
  <2>2. CASE Continue(p, "find", 0)
    BY <1>c, <2>2, OneCodes DEF ConsumeMagicLink
  <2> QED  BY <2>1, <2>2 DEF ConsumeMagicLink
<1>5. Aging'
  BY AgingStays DEF ConsumeMagicLink
<1>6. ListedOnce'
  BY ListedStays DEF ConsumeMagicLink
<1> QED  BY <1>1, <1>2, <1>3, <1>4, <1>5, <1>6

\* There is an id for everybody: the next account gets one of its own.
LEMMA AccountIs ==
    ASSUME LoginsTypeOK, Identified, NEW who \in People, ~\E u \in users : u.of = who
    PROVE  Account \in Ids /\ ~Known(Account)
<1> SUFFICES \E i \in Ids : ~Known(i)
  <2>1. ASSUME NEW i \in Ids, ~Known(i) PROVE i \notin {u.id : u \in users}
    BY <2>1 DEF Known
  <2>2. ASSUME NEW i \in Ids, i \notin {u.id : u \in users} PROVE ~Known(i)
    BY <2>2 DEF Known
  <2> QED  BY <2>1, <2>2 DEF Account
<1> SUFFICES ASSUME \A i \in Ids : Known(i) PROVE FALSE
  OBVIOUS
<1> DEFINE of(i) == (CHOOSE u \in users : u.id = i).of
           f == [i \in Ids |-> of(i)]
<1>1. \A i \in Ids : \E u \in users : u.id = i /\ u.of = of(i)
  BY DEF Known
<1>2. \A i \in Ids : of(i) \in People \ {who}
  BY <1>1 DEF LoginsTypeOK
<1>3. \A i, j \in Ids : of(i) = of(j) => i = j
  BY <1>1 DEF Identified
<1> HIDE DEF of
<1>4. f \in [Ids -> People \ {who}] /\ \A i, j \in Ids : f[i] = f[j] => i = j
  BY <1>2, <1>3
<1>5. IsFiniteSet(People \ {who}) /\ Cardinality(People \ {who}) = Cardinality(People) - 1
  BY FS_RemoveElement, LoginsAssumption
<1>6. /\ IsFiniteSet(Ids) /\ Cardinality(People) \in Nat /\ Cardinality(Ids) \in Nat
      /\ Cardinality(People) <= Cardinality(Ids)
  BY LoginsAssumption, FS_CardinalityType
<1>7. Cardinality(People \ {who}) < Cardinality(Ids)
  BY <1>5, <1>6
<1> HIDE DEF f
<1> QED  BY <1>4, <1>5, <1>6, <1>7, FS_PigeonHole

LEMMA UpsertUserInv == ASSUME LoginsInv, NEW p \in Handlers, UpsertUser(p) PROVE LoginsInv'
<1> USE DEF LoginsInv
<1>g. /\ requests[p].pc = "save" /\ requests[p].op \in {"oauth", "magic"} /\ requests[p].of \in People
      /\ requests[p].id \in Ids \union {0} /\ (requests[p].id # 0 => Known(requests[p].id))
  BY DEF UpsertUser, Identified, Carried, LoginsTypeOK, LoginRequests
<1>s. \/ Ends(p) /\ users' = users
      \/ \E id \in Ids : Continue(p, "session", id) /\ Known(id) /\ Known(id)' /\ users' = users
      \/ /\ \A u \in users : u.of # requests[p].of
         /\ \E id \in Ids : /\ Continue(p, "session", id) /\ ~Known(id) /\ Known(id)'
                            /\ users' = users \union {[id |-> id, of |-> requests[p].of]}
  <2>1. CASE requests[p].id # 0
    <3>1. PICK id \in Ids : id = requests[p].id
      BY <2>1, <1>g
    <3>2. Continue(p, "session", id) /\ users' = users
      BY <2>1, <3>1 DEF UpsertUser
    <3>3. Known(id)
      BY <2>1, <3>1, <1>g
    <3>4. Known(id)'
      BY <3>2, <3>3 DEF Known
    <3> QED  BY <3>2, <3>3, <3>4
  <2>2. CASE requests[p].id = 0 /\ \E u \in users : u.of = requests[p].of
    BY <2>2 DEF UpsertUser
  <2>3. CASE requests[p].id = 0 /\ ~\E u \in users : u.of = requests[p].of
    <3>1. Account \in Ids /\ ~Known(Account)
      BY <1>g, <2>3, AccountIs
    <3> DEFINE new == [id |-> Account, of |-> requests[p].of]
    <3>2. users' = users \union {new} /\ Continue(p, "session", Account)
      BY <2>3 DEF UpsertUser
    <3>3. new.id = Account /\ new \in users'
      BY <3>2
    <3> QED  BY <2>3, <3>1, <3>2, <3>3 DEF Known
  <2> QED  BY <2>1, <2>2, <2>3
<1>r. /\ requests' \in [Handlers -> LoginRequests]
      /\ \A q \in Handlers : q # p => requests'[q] = requests[q]
      /\ Ends(p) \/ /\ requests'[p].op = requests[p].op /\ requests'[p].pc = "session"
                    /\ requests'[p].key = requests[p].key
  <2>1. CASE Ends(p)
    BY <2>1, EndsIs
  <2>2. CASE ~Ends(p)
    <3>1. PICK id \in Ids : Continue(p, "session", id)
      BY <1>s, <2>2
    <3>2. "session" \in {"find", "save", "session", "claim"} /\ id \in Ids \union {0}
      OBVIOUS
    <3> QED  BY <3>1, <3>2, ContinueIs
  <2> QED  BY <2>1, <2>2
<1>1. LoginsTypeOK'
  <2>1. users' \subseteq [id : Ids, of : People]
    BY <1>g, <1>s DEF LoginsTypeOK
  <2> QED  BY <1>r, <2>1 DEF UpsertUser, LoginsTypeOK
<1>2. Identified'
  <2>1. \A i : Known(i) => Known(i)'
    BY <1>s DEF Known
  <2>2. \A u, v \in users' : u.of = v.of \/ u.id = v.id => u = v
    BY <1>s DEF Identified, Known
  <2>3. \A t \in Ids : Live(t)' => Known(sessions[t])'
    BY <2>1 DEF UpsertUser, Live, Identified
  <2>4. ASSUME NEW q \in Handlers PROVE Carried(requests[q])'
    <3>1. CASE Ends(p)
      BY <2>1, <3>1, EndsIs DEF Carried, Identified, IdleRequest
    <3>2. CASE q # p
      BY <2>1, <3>2, <1>r DEF Carried, Identified
    <3>3. CASE q = p /\ ~Ends(p)
      <4>1. PICK id \in Ids : Continue(p, "session", id) /\ Known(id)'
        BY <1>s, <3>3
      <4>2. "session" \in {"find", "save", "session", "claim"} /\ id \in Ids \union {0} /\ id # 0
        BY IdsAre
      <4>3. /\ requests'[p].op = requests[p].op /\ requests'[p].pc = "session" /\ requests'[p].id = id
            /\ requests'[p].of = requests[p].of /\ requests'[p].key = requests[p].key
        BY <4>1, <4>2, ContinueIs
      <4>4. Carried(requests[p])
        BY DEF Identified
      <4> QED  BY <1>g, <3>3, <4>1, <4>2, <4>3, <4>4 DEF Carried
    <3> QED  BY <3>1, <3>2, <3>3
  <2> QED  BY <2>2, <2>3, <2>4 DEF Identified
<1>3. LinksOnce'
  <2>1. CASE Ends(p)
    BY <2>1, OverLinks DEF UpsertUser
  <2>2. CASE ~Ends(p)
    BY <1>g, <1>r, <2>2, OneLinks DEF UpsertUser, Following
  <2> QED  BY <2>1, <2>2
<1>4. CodesOnce'
  <2>1. CASE Ends(p)
    BY <2>1, OverCodes DEF UpsertUser
  <2>2. CASE ~Ends(p)
    BY <1>g, <1>r, <2>2, OneCodes DEF UpsertUser
  <2> QED  BY <2>1, <2>2
<1>5. Aging'
  BY AgingStays DEF UpsertUser
<1>6. ListedOnce'
  BY ListedStays DEF UpsertUser
<1> QED  BY <1>1, <1>2, <1>3, <1>4, <1>5, <1>6

LEMMA CreateSessionInv == ASSUME LoginsInv, NEW p \in Handlers, CreateSession(p) PROVE LoginsInv'
<1> USE DEF LoginsInv
<1>g. /\ requests[p].pc = "session" /\ requests[p].op \in {"oauth", "magic"}
      /\ requests[p].id \in Ids /\ Known(requests[p].id)
      /\ requests[p].key # 0 => requests[p].op = "magic" /\ requests[p].key \in Ids
  BY DEF CreateSession, Identified, Carried, LoginsTypeOK, LoginRequests
<1>t. PICK t \in Ids : sessions[t] = 0 /\ sessions' = [sessions EXCEPT ![t] = requests[p].id]
  BY DEF CreateSession
<1>r. /\ requests' \in [Handlers -> LoginRequests] /\ requests'[p] = IdleRequest
      /\ \A q \in Handlers : q # p => requests'[q] = requests[q]
  BY EndsIs DEF CreateSession
<1>1. LoginsTypeOK'
  <2>1. sessions' \in [Ids -> Ids \union {0, -1}]
    BY <1>g, <1>t DEF LoginsTypeOK
  <2>2. opened' \in [Ids -> Nat]
    BY <1>g DEF CreateSession, LoginsTypeOK
  <2> QED  BY <1>r, <2>1, <2>2 DEF CreateSession, LoginsTypeOK
<1>2. Identified'
  <2>1. \A s \in Ids : Live(s)' => Known(sessions'[s])
    BY <1>g, <1>t DEF LoginsTypeOK, Live, Identified
  <2>2. \A q \in Handlers : Carried(requests'[q])
    BY <1>r DEF Carried, Identified, IdleRequest
  <2> QED  BY <2>1, <2>2 DEF CreateSession, Identified, Known, Carried
<1>3. LinksOnce'
  <2>1. CASE requests[p].key = 0
    BY <2>1, OverLinks DEF CreateSession
  <2>2. CASE requests[p].key # 0
    <3> DEFINE l == requests[p].key
    <3>1. l \in Ids /\ links[l].used /\ opened[l] = 0 /\ Following(requests[p])
      BY <1>g, <2>2 DEF LinksOnce, Following
    <3>2. opened' = [opened EXCEPT ![l] = 1] /\ links' = links
      BY <2>2, <3>1 DEF CreateSession, LoginsTypeOK
    <3>3. ASSUME NEW k \in Ids PROVE opened'[k] <= 1 /\ (opened'[k] = 1 => links'[k].used)
      BY <3>1, <3>2 DEF LinksOnce, LoginsTypeOK
    <3>4. ASSUME NEW q \in Handlers, Following(requests'[q])
          PROVE  q # p /\ requests'[q] = requests[q] /\ requests[q].key # l
                 /\ links'[requests[q].key].used /\ opened'[requests[q].key] = 0
      <4>1. q # p /\ requests'[q] = requests[q]
        BY <1>r, <3>4 DEF Following, IdleRequest
      <4>2. requests[q].key # l
        BY <3>1, <3>4, <4>1 DEF LinksOnce
      <4>3. requests[q].key \in Ids
        BY <3>4, <4>1 DEF Following, Identified, Carried
      <4> QED  BY <3>2, <3>4, <4>1, <4>2, <4>3 DEF LinksOnce, LoginsTypeOK
    <3> HIDE DEF l
    <3> QED  BY <3>3, <3>4 DEF LinksOnce, Following
  <2> QED  BY <2>1, <2>2
<1>4. CodesOnce'
  BY OverCodes DEF CreateSession
<1>5. Aging'
  <2>1. \A s \in Ids : sessions'[s] = -1 <=> sessions[s] = -1
    BY <1>g, <1>t, IdsAre DEF LoginsTypeOK
  <2> QED  BY <2>1 DEF CreateSession, Aging
<1>6. ListedOnce'
  BY ListedStays DEF CreateSession
<1> QED  BY <1>1, <1>2, <1>3, <1>4, <1>5, <1>6

LEMMA LogoutInv == ASSUME LoginsInv, NEW t \in Ids, Logout(t) PROVE LoginsInv'
<1> USE DEF LoginsInv
<1>1. LoginsTypeOK'
  <2>1. sessions' \in [Ids -> Ids \union {0, -1}]
    BY DEF Logout, LoginsTypeOK
  <2> QED  BY <2>1 DEF Logout, LoginsTypeOK
<1>2. Identified'
  <2>1. \A s \in Ids : Live(s)' => Live(s) /\ sessions'[s] = sessions[s]
    BY DEF Logout, LoginsTypeOK, Live
  <2> QED  BY <2>1 DEF Logout, Identified, Known, Carried
<1>3. LinksOnce'
  BY LinksStay DEF Logout
<1>4. CodesOnce'
  BY CodesStay DEF Logout
<1>5. Aging'
  <2>1. gone' = gone /\ look' = look /\ cache' = cache
    BY DEF Logout
  <2>2. sessions'[t] = -1 /\ \A s \in Ids : s # t => sessions'[s] = sessions[s]
    BY DEF Logout, LoginsTypeOK
  <2>3. gone[t] = 0
    BY IdsAre DEF Logout, Live, Aging
  <2>4. \A s \in Ids : sessions'[s] # -1 => gone'[s] = 0
    BY <2>1, <2>2 DEF Aging
  <2>5. \A v \in Looks : look[v].pc # "idle" /\ look[v].id # 0 /\ sessions'[look[v].token] = -1 =>
           gone[look[v].token] <= look[v].age
    <3> TAKE v \in Looks
    <3>1. look[v].age \in Nat
      BY LoginsAssumption DEF LoginsTypeOK, Questions
    <3>2. CASE look[v].token = t
      BY <2>3, <3>1, <3>2
    <3>3. CASE look[v].token # t
      BY <2>2, <3>3 DEF Aging
    <3> QED  BY <3>2, <3>3
  <2>6. \A s \in Ids : cache[s].id # 0 /\ sessions'[s] = -1 => gone[s] <= cache[s].age + Flight
    BY <2>2, <2>3, LoginsAssumption DEF Aging, LoginsTypeOK, Answers
  <2> QED  BY <2>1, <2>4, <2>5, <2>6 DEF Aging
<1>6. ListedOnce'
  BY ListedStays DEF Logout
<1> QED  BY <1>1, <1>2, <1>3, <1>4, <1>5, <1>6

LEMMA AuthDeviceInv == ASSUME LoginsInv, NEW c \in Ids, AuthDevice(c) PROVE LoginsInv'
<1> USE DEF LoginsInv
<1>1. LoginsTypeOK'
  <2>1. codes' \in [Ids -> [state : {"none", "open", "claimed", "expired"}, by : Ids \union {0}]]
    <3>1. \A d \in Ids : codes[d] \in [state : {"none", "open", "claimed", "expired"}, by : Ids \union {0}]
      BY DEF LoginsTypeOK
    <3>2. [codes[c] EXCEPT !.state = "open"] \in [state : {"none", "open", "claimed", "expired"}, by : Ids \union {0}]
      BY <3>1
    <3> QED  BY <3>1, <3>2 DEF AuthDevice, LoginsTypeOK
  <2> QED  BY <2>1 DEF AuthDevice, LoginsTypeOK
<1>2. Identified'
  BY IdentifiedStays DEF AuthDevice
<1>3. LinksOnce'
  BY LinksStay DEF AuthDevice
<1>4. CodesOnce'
  <2>1. codes'[c].state = "open" /\ \A d \in Ids : d # c => codes'[d] = codes[d]
    BY DEF AuthDevice, LoginsTypeOK
  <2> QED  BY <2>1 DEF AuthDevice, CodesOnce
<1>5. Aging'
  BY AgingStays DEF AuthDevice
<1>6. ListedOnce'
  BY ListedStays DEF AuthDevice
<1> QED  BY <1>1, <1>2, <1>3, <1>4, <1>5, <1>6

LEMMA CodeExpiresInv == ASSUME LoginsInv, NEW c \in Ids, CodeExpires(c) PROVE LoginsInv'
<1> USE DEF LoginsInv
<1>1. LoginsTypeOK'
  <2>1. codes' \in [Ids -> [state : {"none", "open", "claimed", "expired"}, by : Ids \union {0}]]
    <3>1. \A d \in Ids : codes[d] \in [state : {"none", "open", "claimed", "expired"}, by : Ids \union {0}]
      BY DEF LoginsTypeOK
    <3>2. [codes[c] EXCEPT !.state = "expired"] \in [state : {"none", "open", "claimed", "expired"}, by : Ids \union {0}]
      BY <3>1
    <3> QED  BY <3>1, <3>2 DEF CodeExpires, LoginsTypeOK
  <2> QED  BY <2>1 DEF CodeExpires, LoginsTypeOK
<1>2. Identified'
  BY IdentifiedStays DEF CodeExpires
<1>3. LinksOnce'
  BY LinksStay DEF CodeExpires
<1>4. CodesOnce'
  <2>1. codes'[c].state = "expired" /\ \A d \in Ids : d # c => codes'[d] = codes[d]
    BY DEF CodeExpires, LoginsTypeOK
  <2> QED  BY <2>1 DEF CodeExpires, CodesOnce
<1>5. Aging'
  BY AgingStays DEF CodeExpires
<1>6. ListedOnce'
  BY ListedStays DEF CodeExpires
<1> QED  BY <1>1, <1>2, <1>3, <1>4, <1>5, <1>6

LEMMA ClaimDeviceCodeInv == ASSUME LoginsInv, NEW p \in Handlers, ClaimDeviceCode(p) PROVE LoginsInv'
<1> USE DEF LoginsInv
<1>g. requests[p].pc = "claim" /\ requests[p].id \in Ids /\ requests[p].key \in Ids
  BY DEF ClaimDeviceCode, Identified, Carried, LoginsTypeOK, LoginRequests
<1>r. /\ requests' \in [Handlers -> LoginRequests] /\ requests'[p] = IdleRequest
      /\ \A q \in Handlers : q # p => requests'[q] = requests[q]
  BY EndsIs DEF ClaimDeviceCode
<1>1. LoginsTypeOK'
  <2>1. /\ codes' \in [Ids -> [state : {"none", "open", "claimed", "expired"}, by : Ids \union {0}]]
        /\ told' \in [Ids -> SUBSET Ids]
    <3>1. [state |-> "claimed", by |-> requests[p].id]
             \in [state : {"none", "open", "claimed", "expired"}, by : Ids \union {0}]
      BY <1>g
    <3>2. told[requests[p].key] \union {requests[p].id} \in SUBSET Ids
      BY <1>g DEF LoginsTypeOK
    <3> DEFINE D == [state : {"none", "open", "claimed", "expired"}, by : Ids \union {0}]
               d == [state |-> "claimed", by |-> requests[p].id]
    <3>3. codes \in [Ids -> D] /\ d \in D /\ told \in [Ids -> SUBSET Ids]
      BY <3>1 DEF LoginsTypeOK
    <3>4. codes' = codes \/ codes' = [codes EXCEPT ![requests[p].key] = d]
      BY DEF ClaimDeviceCode
    <3>5. told' = told \/ told' = [told EXCEPT ![requests[p].key] = told[requests[p].key] \union {requests[p].id}]
      BY DEF ClaimDeviceCode
    <3>6. told' \in [Ids -> SUBSET Ids]
      BY <1>g, <3>2, <3>3, <3>5
    <3> HIDE DEF D, d
    <3>7. codes' \in [Ids -> D]
      BY <1>g, <3>3, <3>4
    <3> QED  BY <3>6, <3>7 DEF D
  <2> QED  BY <1>r, <2>1 DEF ClaimDeviceCode, LoginsTypeOK
<1>2. Identified'
  BY OverIdentified DEF ClaimDeviceCode
<1>3. LinksOnce'
  BY OverLinks DEF ClaimDeviceCode
<1>4. CodesOnce'
  <2> DEFINE c == requests[p].key
             id == requests[p].id
  <2>1. CASE codes[c].state # "open"
    BY <2>1, OverCodes DEF ClaimDeviceCode
  <2>2. CASE codes[c].state = "open"
    <3>1. /\ codes' = [codes EXCEPT ![c] = [state |-> "claimed", by |-> id]]
          /\ told' = [told EXCEPT ![c] = {id}] /\ told[c] = {}
      BY <1>g, <2>2 DEF ClaimDeviceCode, CodesOnce, LoginsTypeOK
    <3>2. /\ codes'[c].state = "claimed" /\ codes'[c].by = id /\ told'[c] = {id}
          /\ \A d \in Ids : d # c => codes'[d] = codes[d] /\ told'[d] = told[d]
      BY <1>g, <3>1 DEF LoginsTypeOK
    <3>3. ASSUME NEW q \in Handlers, requests'[q].pc = "issue"
          PROVE  told'[requests'[q].key] = {requests'[q].id}
      <4>1. requests'[q] = requests[q] /\ told[requests[q].key] = {requests[q].id}
        BY <1>r, <3>3 DEF CodesOnce, IdleRequest
      <4>2. requests[q].key \in Ids /\ requests[q].key # c
        BY <3>1, <3>3, <4>1 DEF Identified, Carried, LoginsTypeOK, LoginRequests
      <4> QED  BY <3>2, <4>1, <4>2
    <3>4. ASSUME NEW k \in tokens PROVE told'[k.code] = {k.id}
      <4>1. told[k.code] = {k.id} /\ k.code \in Ids
        BY DEF CodesOnce, LoginsTypeOK
      <4> QED  BY <3>1, <3>2, <4>1
    <3> HIDE DEF c, id
    <3>5. tokens' = tokens /\ id \in Ids /\ c \in Ids
      BY <1>g DEF ClaimDeviceCode, c, id
    <3>6. ASSUME NEW d \in Ids
          PROVE  /\ codes'[d].state \in {"none", "open"} => told'[d] = {}
                 /\ codes'[d].state = "claimed" => codes'[d].by \in Ids /\ told'[d] = {codes'[d].by}
                 /\ told'[d] = {} \/ \E i \in Ids : told'[d] = {i}
      BY <3>2, <3>5 DEF CodesOnce
    <3> QED  BY <3>3, <3>4, <3>5, <3>6 DEF CodesOnce
  <2> QED  BY <2>1, <2>2
<1>5. Aging'
  BY AgingStays DEF ClaimDeviceCode
<1>6. ListedOnce'
  BY ListedStays DEF ClaimDeviceCode
<1> QED  BY <1>1, <1>2, <1>3, <1>4, <1>5, <1>6

LEMMA AuthTokenInv == ASSUME LoginsInv, NEW p \in Handlers, NEW c \in Ids, AuthToken(p, c) PROVE LoginsInv'
<1> USE DEF LoginsInv
<1>r. /\ requests' \in [Handlers -> LoginRequests]
      /\ requests' = requests \/
           /\ codes[c].state = "claimed"
           /\ requests'[p].op = "token" /\ requests'[p].pc = "issue"
           /\ requests'[p].key = c /\ requests'[p].id = codes[c].by
           /\ \A q \in Handlers : q # p => requests'[q] = requests[q]
  <2>1. CASE codes[c].state # "claimed"
    BY <2>1 DEF AuthToken, LoginsTypeOK
  <2>2. CASE codes[c].state = "claimed"
    <3>1. Arrives(p, "token", "issue", Nobody, c, codes[c].by)
      BY <2>2 DEF AuthToken
    <3>2. Nobody \in People \union {Nobody} /\ c \in Ids \union {0} /\ codes[c].by \in Ids \union {0}
      BY DEF LoginsTypeOK
    <3> QED  BY <2>2, <3>1, <3>2, ArrivesIs
  <2> QED  BY <2>1, <2>2
<1>1. LoginsTypeOK'
  BY <1>r DEF AuthToken, LoginsTypeOK
<1>2. Identified'
  <2>1. CASE requests' = requests
    BY <2>1, IdentifiedStays DEF AuthToken
  <2>2. CASE requests' # requests
    <3>1. Carried(requests[p])'
      BY <1>r, <2>2 DEF Carried, CodesOnce
    <3> QED  BY <1>r, <2>2, <3>1, OneIdentified DEF AuthToken
  <2> QED  BY <2>1, <2>2
<1>3. LinksOnce'
  <2>1. CASE requests' = requests
    BY <2>1, LinksStay DEF AuthToken
  <2>2. CASE requests' # requests
    BY <1>r, <2>2, OneLinks DEF AuthToken, Following
  <2> QED  BY <2>1, <2>2
<1>4. CodesOnce'
  <2>1. CASE requests' = requests
    BY <2>1, CodesStay DEF AuthToken
  <2>2. CASE requests' # requests
    <3>1. told[requests'[p].key] = {requests'[p].id}
      BY <1>r, <2>2 DEF CodesOnce
    <3> QED  BY <1>r, <2>2, <3>1, OneCodes DEF AuthToken
  <2> QED  BY <2>1, <2>2
<1>5. Aging'
  BY AgingStays DEF AuthToken
<1>6. ListedOnce'
  BY ListedStays DEF AuthToken
<1> QED  BY <1>1, <1>2, <1>3, <1>4, <1>5, <1>6

LEMMA IssueWingJWTInv == ASSUME LoginsInv, NEW p \in Handlers, IssueWingJWT(p) PROVE LoginsInv'
<1> USE DEF LoginsInv
<1>g. requests[p].pc = "issue" /\ requests[p].id \in Ids /\ requests[p].key \in Ids
  BY DEF IssueWingJWT, Identified, Carried, LoginsTypeOK, LoginRequests
<1>r. /\ requests' \in [Handlers -> LoginRequests] /\ requests'[p] = IdleRequest
      /\ \A q \in Handlers : q # p => requests'[q] = requests[q]
  BY EndsIs DEF IssueWingJWT
<1>1. LoginsTypeOK'
  <2>1. tokens' \subseteq [code : Ids, id : Ids]
    BY <1>g DEF IssueWingJWT, LoginsTypeOK
  <2> QED  BY <1>r, <2>1 DEF IssueWingJWT, LoginsTypeOK
<1>2. Identified'
  BY OverIdentified DEF IssueWingJWT
<1>3. LinksOnce'
  BY OverLinks DEF IssueWingJWT
<1>4. CodesOnce'
  <2>1. told[requests[p].key] = {requests[p].id}
    BY <1>g DEF CodesOnce
  <2>2. ASSUME NEW k \in tokens' PROVE told[k.code] = {k.id}
    BY <2>1 DEF IssueWingJWT, CodesOnce
  <2>3. \A q \in Handlers : requests'[q].pc = "issue" => requests'[q] = requests[q]
    BY <1>r DEF IdleRequest
  <2> QED  BY <2>2, <2>3 DEF IssueWingJWT, CodesOnce
<1>5. Aging'
  BY AgingStays DEF IssueWingJWT
<1>6. ListedOnce'
  BY ListedStays DEF IssueWingJWT
<1> QED  BY <1>1, <1>2, <1>3, <1>4, <1>5, <1>6
-----------------------------------------------------------------------------
(* The edge's cache of sessions *)

\* A question of the edge changes, and is no older than the session's end.
LEMMA QuestionIs ==
    ASSUME LoginsTypeOK, Aging, NEW v \in Looks, NEW l \in Questions, look' = [look EXCEPT ![v] = l],
           l.pc # "idle" => l.token \in Ids /\ (l.id # 0 /\ sessions[l.token] = -1 => gone[l.token] <= l.age),
           UNCHANGED <<sessions, cache, gone>>
    PROVE  look' \in [Looks -> Questions] /\ Aging'
<1>1. look' \in [Looks -> Questions] /\ look'[v] = l /\ \A w \in Looks : w # v => look'[w] = look[w]
  BY DEF LoginsTypeOK
<1>2. ASSUME NEW w \in Looks, look'[w].pc # "idle"
      PROVE  /\ look'[w].token \in Ids
             /\ look'[w].id # 0 /\ sessions[look'[w].token] = -1 => gone[look'[w].token] <= look'[w].age
  BY <1>1, <1>2 DEF Aging
<1> QED  BY <1>1, <1>2 DEF Aging

LEMMA ValidateInv == ASSUME LoginsInv, NEW v \in Looks, NEW t \in Ids, Validate(v, t) PROVE LoginsInv'
<1> USE DEF LoginsInv
<1>r. look' \in [Looks -> Questions] /\ Aging'
  <2> DEFINE l == [IdleLook EXCEPT !.pc = "user", !.token = t]
  <2>1. l \in Questions /\ l.token = t /\ l.id = 0
    <3>1. IdleLook \in Questions /\ IdleLook.id = 0
      BY LoginsAssumption DEF IdleLook, Questions
    <3>2. l \in Questions /\ l.token = t /\ l.id = IdleLook.id
      BY <3>1 DEF Questions
    <3> QED  BY <3>1, <3>2
  <2> HIDE DEF l
  <2>2. look' = [look EXCEPT ![v] = l] /\ UNCHANGED <<sessions, cache, gone>>
    BY DEF Validate, l
  <2> QED  BY <2>1, <2>2, QuestionIs
<1>1. LoginsTypeOK'
  BY <1>r DEF Validate, LoginsTypeOK
<1>2. Identified'
  BY IdentifiedStays DEF Validate
<1>3. LinksOnce'
  BY LinksStay DEF Validate
<1>4. CodesOnce'
  BY CodesStay DEF Validate
<1>5. Aging'
  BY <1>r
<1>6. ListedOnce'
  BY ListedStays DEF Validate
<1> QED  BY <1>1, <1>2, <1>3, <1>4, <1>5, <1>6

LEMMA InternalSessionInv == ASSUME LoginsInv, NEW v \in Looks, InternalSession(v) PROVE LoginsInv'
<1> USE DEF LoginsInv
<1>r. look' \in [Looks -> Questions] /\ Aging'
  <2>1. look[v] \in Questions /\ look[v].token \in Ids /\ sessions[look[v].token] \in Ids \union {0, -1}
    BY DEF InternalSession, Aging, LoginsTypeOK
  <2>2. CASE Live(look[v].token) /\ look' = [look EXCEPT ![v].pc = "orgs", ![v].id = sessions[look[v].token]]
    <3> DEFINE l == [look[v] EXCEPT !.pc = "orgs", !.id = sessions[look[v].token]]
    <3>1. sessions[look[v].token] \in Ids
      BY <2>1, <2>2 DEF Live
    <3>2. l \in Questions /\ l.token = look[v].token
      BY <2>1, <3>1 DEF Questions
    <3>3. look' = [look EXCEPT ![v] = l] /\ UNCHANGED <<sessions, cache, gone>>
      BY <2>2 DEF InternalSession, LoginsTypeOK
    <3> HIDE DEF l
    <3> QED  BY <2>1, <3>1, <3>2, <3>3, IdsAre, QuestionIs
  <2>3. CASE look' = [look EXCEPT ![v].pc = "answer"]
    <3> DEFINE l == [look[v] EXCEPT !.pc = "answer"]
    <3>1. l \in Questions /\ l.token = look[v].token /\ l.id = look[v].id /\ l.age = look[v].age
      BY <2>1 DEF Questions
    <3>2. look' = [look EXCEPT ![v] = l] /\ UNCHANGED <<sessions, cache, gone>> /\ look[v].pc # "idle"
      BY <2>3 DEF InternalSession, LoginsTypeOK
    <3>3. l.id # 0 /\ sessions[l.token] = -1 => gone[l.token] <= l.age
      BY <3>1, <3>2 DEF Aging
    <3> HIDE DEF l
    <3> QED  BY <2>1, <3>1, <3>2, <3>3, QuestionIs
  <2> QED  BY <2>2, <2>3 DEF InternalSession
<1>1. LoginsTypeOK'
  BY <1>r DEF InternalSession, LoginsTypeOK
<1>2. Identified'
  BY IdentifiedStays DEF InternalSession
<1>3. LinksOnce'
  BY LinksStay DEF InternalSession
<1>4. CodesOnce'
  BY CodesStay DEF InternalSession
<1>5. Aging'
  BY <1>r
<1>6. ListedOnce'
  BY ListedStays DEF InternalSession
<1> QED  BY <1>1, <1>2, <1>3, <1>4, <1>5, <1>6

LEMMA SessionOrgsInv == ASSUME LoginsInv, NEW v \in Looks, SessionOrgs(v) PROVE LoginsInv'
<1> USE DEF LoginsInv
<1>r. look' \in [Looks -> Questions] /\ Aging'
  <2>1. look[v] \in Questions /\ look[v].token \in Ids
    BY DEF SessionOrgs, Aging, LoginsTypeOK
  <2>2. PICK in \in BOOLEAN : look' = [look EXCEPT ![v] = [look[v] EXCEPT !.pc = "answer", !.org = in]]
    <3>1. CASE look' = [look EXCEPT ![v].pc = "answer", ![v].org = look[v].id \in member]
      <4>1. (look[v].id \in member) \in BOOLEAN
        OBVIOUS
      <4> QED  BY <3>1, <4>1
    <3>2. CASE look' = [look EXCEPT ![v].pc = "answer"]
      <4>1. [look[v] EXCEPT !.pc = "answer"] = [look[v] EXCEPT !.pc = "answer", !.org = look[v].org]
            /\ look[v].org \in BOOLEAN
        BY <2>1 DEF Questions
      <4> QED  BY <3>2, <4>1 DEF LoginsTypeOK
    <3> QED  BY <3>1, <3>2 DEF SessionOrgs
  <2> DEFINE l == [look[v] EXCEPT !.pc = "answer", !.org = in]
  <2>3. l \in Questions /\ l.token = look[v].token /\ l.id = look[v].id /\ l.age = look[v].age
    BY <2>1 DEF Questions
  <2>4. UNCHANGED <<sessions, cache, gone>> /\ look[v].pc # "idle"
    BY DEF SessionOrgs
  <2>5. l.id # 0 /\ sessions[l.token] = -1 => gone[l.token] <= l.age
    BY <2>3, <2>4 DEF Aging
  <2>6. look' = [look EXCEPT ![v] = l]
    BY <2>2
  <2> HIDE DEF l
  <2> QED  BY <2>1, <2>3, <2>4, <2>5, <2>6, QuestionIs
<1>1. LoginsTypeOK'
  BY <1>r DEF SessionOrgs, LoginsTypeOK
<1>2. Identified'
  BY IdentifiedStays DEF SessionOrgs
<1>3. LinksOnce'
  BY LinksStay DEF SessionOrgs
<1>4. CodesOnce'
  BY CodesStay DEF SessionOrgs
<1>5. Aging'
  BY <1>r
<1>6. ListedOnce'
  BY ListedStays DEF SessionOrgs
<1> QED  BY <1>1, <1>2, <1>3, <1>4, <1>5, <1>6

LEMMA LoseLookInv == ASSUME LoginsInv, NEW v \in Looks, LoseLook(v) PROVE LoginsInv'
<1> USE DEF LoginsInv
<1>r. look' \in [Looks -> Questions] /\ Aging'
  <2>1. IdleLook \in Questions /\ IdleLook.pc = "idle"
    BY LoginsAssumption DEF IdleLook, Questions
  <2>2. look' = [look EXCEPT ![v] = IdleLook] /\ UNCHANGED <<sessions, cache, gone>>
    BY DEF LoseLook
  <2> QED  BY <2>1, <2>2, QuestionIs
<1>1. LoginsTypeOK'
  BY <1>r DEF LoseLook, LoginsTypeOK
<1>2. Identified'
  BY IdentifiedStays DEF LoseLook
<1>3. LinksOnce'
  BY LinksStay DEF LoseLook
<1>4. CodesOnce'
  BY CodesStay DEF LoseLook
<1>5. Aging'
  BY <1>r
<1>6. ListedOnce'
  BY ListedStays DEF LoseLook
<1> QED  BY <1>1, <1>2, <1>3, <1>4, <1>5, <1>6

LEMMA LearnInv == ASSUME LoginsInv, NEW v \in Looks, Learn(v) PROVE LoginsInv'
<1> USE DEF LoginsInv
<1>g. look[v] \in Questions /\ look[v].token \in Ids
  BY DEF Learn, Aging, LoginsTypeOK
<1>l. /\ look' \in [Looks -> Questions]
      /\ \A w \in Looks : look'[w].pc # "idle" => look'[w] = look[w]
  <2>1. IdleLook \in Questions /\ IdleLook.pc = "idle"
    BY LoginsAssumption DEF IdleLook, Questions
  <2> QED  BY <2>1 DEF Learn, LoginsTypeOK
<1>1. LoginsTypeOK'
  <2>1. Answer(look[v].id, look[v].org) \in Answers
    BY <1>g, LoginsAssumption DEF Answer, Answers, Questions
  <2>2. cache' \in [Ids -> Answers]
    BY <2>1 DEF Learn, LoginsTypeOK
  <2> QED  BY <1>l, <2>2 DEF Learn, LoginsTypeOK
<1>2. Identified'
  BY IdentifiedStays DEF Learn
<1>3. LinksOnce'
  BY LinksStay DEF Learn
<1>4. CodesOnce'
  BY CodesStay DEF Learn
<1>5. Aging'
  <2> DEFINE k == look[v].token
  <2>1. look[v].id # 0 /\ sessions[k] = -1 => gone[k] <= Flight
    <3>1. look[v].age \in 0..Flight /\ gone[k] \in Nat
      BY <1>g DEF Questions, LoginsTypeOK
    <3>2. look[v].id # 0 /\ sessions[k] = -1 => gone[k] <= look[v].age
      BY DEF Learn, Aging
    <3> QED  BY <3>1, <3>2, LoginsAssumption
  <2>2. cache' = [cache EXCEPT ![k] = Answer(look[v].id, look[v].org)]
    BY DEF Learn
  <2>3. /\ cache'[k].id = look[v].id /\ cache'[k].age = 0
        /\ \A t \in Ids : t # k => cache'[t] = cache[t]
    BY <1>g, <2>2 DEF LoginsTypeOK, Answer
  <2> HIDE DEF k
  <2>4. ASSUME NEW t \in Ids, cache'[t].id # 0, sessions[t] = -1 PROVE gone[t] <= cache'[t].age + Flight
    <3>1. CASE t = k
      BY <2>1, <2>3, <2>4, <3>1, LoginsAssumption
    <3>2. CASE t # k
      BY <2>3, <2>4, <3>2 DEF Aging
    <3> QED  BY <3>1, <3>2
  <2>5. sessions' = sessions /\ gone' = gone
    BY DEF Learn
  <2>6. \A w \in Looks : look'[w].pc # "idle" => look'[w] = look[w]
    BY <1>l
  <2> QED  BY <2>4, <2>5, <2>6 DEF Aging
<1>6. ListedOnce'
  BY ListedStays DEF Learn
<1> QED  BY <1>1, <1>2, <1>3, <1>4, <1>5, <1>6

LEMMA TickInv == ASSUME LoginsInv, Tick PROVE LoginsInv'
<1> USE DEF LoginsInv
<1>e. \A t \in Ids : cache[t] \in Answers
  BY DEF LoginsTypeOK
<1>q. ASSUME NEW v \in Looks
      PROVE  /\ look'[v] \in Questions /\ look[v].age \in Nat
             /\ look'[v].pc # "idle" =>
                   /\ look[v].pc # "idle" /\ look'[v].token = look[v].token
                   /\ look'[v].id = look[v].id /\ look'[v].age = look[v].age + 1
  <2>0. look[v] \in Questions
    BY DEF LoginsTypeOK
  <2>1. CASE look[v].pc = "idle"
    <3>1. look'[v] = IdleLook
      BY <2>1 DEF Tick
    <3> QED  BY <2>0, <3>1, LoginsAssumption DEF IdleLook, Questions
  <2>2. CASE look[v].pc # "idle"
    <3>1. look'[v] = [look[v] EXCEPT !.age = @ + 1] /\ look[v].age < Flight
      BY <2>2 DEF Tick
    <3>2. look[v].age + 1 \in 0..Flight /\ look[v].age \in Nat
      BY <2>0, <3>1, LoginsAssumption DEF Questions
    <3> QED  BY <2>0, <2>2, <3>1, <3>2 DEF Questions
  <2> QED  BY <2>1, <2>2
<1>1. LoginsTypeOK'
  <2>1. \A t \in Ids : Aged[t] \in Answers
    BY <1>e, LoginsAssumption DEF Answers, NoEntry, Aged
  <2>2. cache' \in [Ids -> Answers]
    BY <2>1 DEF Tick, Aged
  <2>3. look' \in [Looks -> Questions]
    BY <1>q DEF Tick
  <2>4. gone' \in [Ids -> Nat]
    BY DEF Tick, LoginsTypeOK
  <2> QED  BY <2>2, <2>3, <2>4 DEF Tick, LoginsTypeOK
<1>2. Identified'
  BY IdentifiedStays DEF Tick
<1>3. LinksOnce'
  BY LinksStay DEF Tick
<1>4. CodesOnce'
  BY CodesStay DEF Tick
<1>5. Aging'
  <2>1. \A t \in Ids : gone'[t] \in Nat /\ gone[t] \in Nat /\ gone'[t] <= gone[t] + 1
                        /\ (sessions[t] # -1 => gone'[t] = gone[t])
    BY DEF Tick, LoginsTypeOK
  <2>2. ASSUME NEW t \in Ids, cache'[t].id # 0, sessions[t] = -1 PROVE gone'[t] <= cache'[t].age + Flight
    <3>1. cache'[t] = [cache[t] EXCEPT !.age = @ + 1] /\ cache[t] \in Answers
      BY <2>2 DEF Tick, Aged, NoEntry, LoginsTypeOK
    <3>2. cache'[t].id = cache[t].id /\ cache'[t].age = cache[t].age + 1 /\ cache[t].age \in Nat
      BY <3>1, LoginsAssumption DEF Answers
    <3>3. gone[t] <= cache[t].age + Flight
      BY <2>2, <3>2 DEF Aging
    <3> QED  BY <2>1, <3>2, <3>3, LoginsAssumption
  <2>3. ASSUME NEW v \in Looks, look'[v].pc # "idle"
        PROVE  /\ look'[v].token \in Ids
               /\ look'[v].id # 0 /\ sessions[look'[v].token] = -1 => gone'[look'[v].token] <= look'[v].age
    <3>1. look[v].pc # "idle" /\ look'[v].token = look[v].token /\ look'[v].id = look[v].id
          /\ look'[v].age = look[v].age + 1 /\ look[v].age \in Nat
      BY <1>q, <2>3
    <3>2. /\ look[v].token \in Ids
          /\ look[v].id # 0 /\ sessions[look[v].token] = -1 => gone[look[v].token] <= look[v].age
      BY <3>1 DEF Aging
    <3> QED  BY <2>1, <3>1, <3>2
  <2>4. \A t \in Ids : sessions[t] # -1 => gone'[t] = 0
    BY <2>1 DEF Aging
  <2>5. sessions' = sessions
    BY DEF Tick
  <2> QED  BY <2>2, <2>3, <2>4, <2>5 DEF Aging
<1>6. ListedOnce'
  BY ListedStays DEF Tick
<1> QED  BY <1>1, <1>2, <1>3, <1>4, <1>5, <1>6
-----------------------------------------------------------------------------
(* Changes of the organisation, and event streams *)

\* The edge's view of a user's organisations changes, the age of an entry does not.
LEMMA WithOrgsIs ==
    ASSUME LoginsTypeOK, Aging, NEW id, NEW in \in BOOLEAN, cache' = WithOrgs(id, in),
           UNCHANGED <<sessions, look, gone>>
    PROVE  cache' \in [Ids -> Answers] /\ Aging'
<1>1. ASSUME NEW t \in Ids
      PROVE  cache'[t] \in Answers /\ cache'[t].id = cache[t].id /\ cache'[t].age = cache[t].age
  <2>1. cache[t] \in Answers
    BY DEF LoginsTypeOK
  <2>2. cache'[t] = cache[t] \/ cache'[t] = [cache[t] EXCEPT !.org = in]
    BY DEF WithOrgs
  <2> QED  BY <2>1, <2>2 DEF Answers
<1>2. cache' \in [Ids -> Answers]
  BY <1>1 DEF WithOrgs
<1> QED  BY <1>1, <1>2 DEF Aging

\* A refresh under way changes.
LEMMA RefreshIs ==
    ASSUME LoginsTypeOK, NEW j \in Jobs, NEW r \in Refreshes, jobs' = [jobs EXCEPT ![j] = r]
    PROVE  jobs' \in [Jobs -> Refreshes]
BY DEF LoginsTypeOK

LEMMA IdleRefresh == IdleJob \in Refreshes
BY DEF IdleJob, Refreshes

LEMMA OrgChangedInv == ASSUME LoginsInv, NEW id \in Ids, OrgChanged(id) PROVE LoginsInv'
<1> USE DEF LoginsInv
<1>r. jobs' \in [Jobs -> Refreshes] /\ member' \subseteq Ids
  <2>1. member' \subseteq Ids
    BY DEF OrgChanged, LoginsTypeOK
  <2>2. CASE jobs' = jobs
    <3>1. jobs \in [Jobs -> Refreshes]
      BY DEF LoginsTypeOK
    <3> QED  BY <2>1, <2>2, <3>1
  <2>3. ASSUME NEW j \in Jobs, jobs' = [jobs EXCEPT ![j] = [IdleJob EXCEPT !.pc = "read", !.id = id]]
        PROVE  jobs' \in [Jobs -> Refreshes]
    <3>1. [IdleJob EXCEPT !.pc = "read", !.id = id] \in Refreshes
      BY IdleRefresh DEF Refreshes
    <3> QED  BY <2>3, <3>1, RefreshIs
  <2> QED  BY <2>1, <2>2, <2>3 DEF OrgChanged
<1>1. LoginsTypeOK'
  BY <1>r DEF OrgChanged, LoginsTypeOK
<1>2. Identified'
  BY IdentifiedStays DEF OrgChanged
<1>3. LinksOnce'
  BY LinksStay DEF OrgChanged
<1>4. CodesOnce'
  BY CodesStay DEF OrgChanged
<1>5. Aging'
  BY AgingStays DEF OrgChanged
<1>6. ListedOnce'
  BY ListedStays DEF OrgChanged
<1> QED  BY <1>1, <1>2, <1>3, <1>4, <1>5, <1>6

LEMMA InternalUserOrgsInv == ASSUME LoginsInv, NEW j \in Jobs, InternalUserOrgs(j) PROVE LoginsInv'
<1> USE DEF LoginsInv
<1>r. jobs' \in [Jobs -> Refreshes]
  <2>1. jobs[j] \in Refreshes /\ (jobs[j].id \in member) \in BOOLEAN
    BY DEF LoginsTypeOK
  <2>2. CASE jobs' = [jobs EXCEPT ![j].pc = "streams", ![j].org = jobs[j].id \in member]
    <3>1. [jobs[j] EXCEPT !.pc = "streams", !.org = jobs[j].id \in member] \in Refreshes
      BY <2>1 DEF Refreshes
    <3> QED  BY <2>2, <3>1, RefreshIs
  <2>3. CASE jobs' = [jobs EXCEPT ![j].pc = "streams"]
    <3>1. [jobs[j] EXCEPT !.pc = "streams"] \in Refreshes
      BY <2>1 DEF Refreshes
    <3> QED  BY <2>3, <3>1, RefreshIs
  <2> QED  BY <2>2, <2>3 DEF InternalUserOrgs
<1>1. LoginsTypeOK'
  BY <1>r DEF InternalUserOrgs, LoginsTypeOK
<1>2. Identified'
  BY IdentifiedStays DEF InternalUserOrgs
<1>3. LinksOnce'
  BY LinksStay DEF InternalUserOrgs
<1>4. CodesOnce'
  BY CodesStay DEF InternalUserOrgs
<1>5. Aging'
  BY AgingStays DEF InternalUserOrgs
<1>6. ListedOnce'
  BY ListedStays DEF InternalUserOrgs
<1> QED  BY <1>1, <1>2, <1>3, <1>4, <1>5, <1>6

LEMMA RefreshStreamsInv == ASSUME LoginsInv, NEW j \in Jobs, RefreshStreams(j) PROVE LoginsInv'
<1> USE DEF LoginsInv
<1>r. jobs' \in [Jobs -> Refreshes] /\ jobs[j].org \in BOOLEAN
  <2>1. jobs[j] \in Refreshes
    BY DEF LoginsTypeOK
  <2>2. [jobs[j] EXCEPT !.pc = "cache"] \in Refreshes
    BY <2>1 DEF Refreshes
  <2>3. jobs' = [jobs EXCEPT ![j] = [jobs[j] EXCEPT !.pc = "cache"]]
    BY DEF RefreshStreams, LoginsTypeOK
  <2> QED  BY <2>1, <2>2, <2>3, RefreshIs DEF Refreshes
<1>x. ASSUME NEW x \in Streams
      PROVE  /\ stream'[x] \in Dashboards /\ stream'[x].pc = stream[x].pc
             /\ IF stream[x].pc = "on" /\ stream[x].id = jobs[j].id
                THEN stream'[x].org = jobs[j].org ELSE stream'[x].org = stream[x].org
  <2>1. stream[x] \in Dashboards
    BY DEF LoginsTypeOK
  <2>2. stream'[x] = IF stream[x].pc = "on" /\ stream[x].id = jobs[j].id
                     THEN [stream[x] EXCEPT !.org = jobs[j].org] ELSE stream[x]
    BY DEF RefreshStreams
  <2> QED  BY <1>r, <2>1, <2>2 DEF Dashboards
<1>s. stream' \in [Streams -> Dashboards]
  BY <1>x DEF RefreshStreams
<1>i. ASSUME NEW x \in Streams
      PROVE  index'[x] = (IF stream'[x].pc = "on" /\ stream'[x].org THEN 1 ELSE 0)
  <2>1. index[x] = IF stream[x].pc = "on" /\ stream[x].org THEN 1 ELSE 0
    BY DEF ListedOnce, Listed
  <2>2. index'[x] = IF stream[x].pc = "on" /\ stream[x].id = jobs[j].id
                    THEN index[x] - (IF stream[x].pc = "on" /\ stream[x].org THEN 1 ELSE 0)
                         + (IF jobs[j].org THEN 1 ELSE 0)
                    ELSE index[x]
    BY DEF RefreshStreams, Indexed, Listed
  <2> QED  BY <1>x, <2>1, <2>2
<1>1. LoginsTypeOK'
  <2>1. index' \in [Streams -> Nat]
    BY <1>i DEF RefreshStreams, Indexed
  <2> QED  BY <1>r, <1>s, <2>1 DEF RefreshStreams, LoginsTypeOK
<1>2. Identified'
  BY IdentifiedStays DEF RefreshStreams
<1>3. LinksOnce'
  BY LinksStay DEF RefreshStreams
<1>4. CodesOnce'
  BY CodesStay DEF RefreshStreams
<1>5. Aging'
  BY AgingStays DEF RefreshStreams
<1>6. ListedOnce'
  BY <1>i DEF ListedOnce, Listed
<1> QED  BY <1>1, <1>2, <1>3, <1>4, <1>5, <1>6

LEMMA RefreshCacheInv == ASSUME LoginsInv, NEW j \in Jobs, RefreshCache(j) PROVE LoginsInv'
<1> USE DEF LoginsInv
<1>r. jobs' \in [Jobs -> Refreshes]
  BY IdleRefresh, RefreshIs DEF RefreshCache
<1>c. cache' \in [Ids -> Answers] /\ Aging'
  <2>1. jobs[j].org \in BOOLEAN
    BY DEF LoginsTypeOK, Refreshes
  <2> QED  BY <2>1, WithOrgsIs DEF RefreshCache
<1>1. LoginsTypeOK'
  BY <1>r, <1>c DEF RefreshCache, LoginsTypeOK
<1>2. Identified'
  BY IdentifiedStays DEF RefreshCache
<1>3. LinksOnce'
  BY LinksStay DEF RefreshCache
<1>4. CodesOnce'
  BY CodesStay DEF RefreshCache
<1>5. Aging'
  BY <1>c
<1>6. ListedOnce'
  BY ListedStays DEF RefreshCache
<1> QED  BY <1>1, <1>2, <1>3, <1>4, <1>5, <1>6

LEMMA LoseJobInv == ASSUME LoginsInv, NEW j \in Jobs, LoseJob(j) PROVE LoginsInv'
<1> USE DEF LoginsInv
<1>1. LoginsTypeOK'
  <2>1. jobs' \in [Jobs -> Refreshes]
    BY IdleRefresh, RefreshIs DEF LoseJob
  <2> QED  BY <2>1 DEF LoseJob, LoginsTypeOK
<1>2. Identified'
  BY IdentifiedStays DEF LoseJob
<1>3. LinksOnce'
  BY LinksStay DEF LoseJob
<1>4. CodesOnce'
  BY CodesStay DEF LoseJob
<1>5. Aging'
  BY AgingStays DEF LoseJob
<1>6. ListedOnce'
  BY ListedStays DEF LoseJob
<1> QED  BY <1>1, <1>2, <1>3, <1>4, <1>5, <1>6

LEMMA SyncBeginsInv == ASSUME LoginsInv, SyncBegins PROVE LoginsInv'
<1> USE DEF LoginsInv
<1>1. LoginsTypeOK'
  <2>1. ActiveUserIDs \subseteq Ids
    BY DEF ActiveUserIDs, LoginsTypeOK, Answers
  <2>2. orgSync' \in [pc : {"idle", "read", "apply"}, asked : SUBSET Ids, in : SUBSET Ids]
    BY <2>1 DEF SyncBegins
  <2> QED  BY <2>2 DEF SyncBegins, LoginsTypeOK
<1>2. Identified'
  BY IdentifiedStays DEF SyncBegins
<1>3. LinksOnce'
  BY LinksStay DEF SyncBegins
<1>4. CodesOnce'
  BY CodesStay DEF SyncBegins
<1>5. Aging'
  BY AgingStays DEF SyncBegins
<1>6. ListedOnce'
  BY ListedStays DEF SyncBegins
<1> QED  BY <1>1, <1>2, <1>3, <1>4, <1>5, <1>6

LEMMA UserOrgsBulkInv == ASSUME LoginsInv, UserOrgsBulk PROVE LoginsInv'
<1> USE DEF LoginsInv
<1>1. LoginsTypeOK'
  <2> DEFINE O == [pc : {"idle", "read", "apply"}, asked : SUBSET Ids, in : SUBSET Ids]
  <2>1. orgSync \in O
    BY DEF LoginsTypeOK
  <2>2. orgSync' \in O
    <3>1. CASE orgSync' = [orgSync EXCEPT !.pc = "apply", !.in = orgSync.asked \intersect member]
      BY <2>1, <3>1
    <3>2. CASE orgSync' = [orgSync EXCEPT !.pc = "apply"]
      BY <2>1, <3>2
    <3>3. CASE orgSync' = IdleSync
      BY <3>3 DEF IdleSync
    <3> QED  BY <3>1, <3>2, <3>3 DEF UserOrgsBulk
  <2> QED  BY <2>2 DEF UserOrgsBulk, LoginsTypeOK
<1>2. Identified'
  BY IdentifiedStays DEF UserOrgsBulk
<1>3. LinksOnce'
  BY LinksStay DEF UserOrgsBulk
<1>4. CodesOnce'
  BY CodesStay DEF UserOrgsBulk
<1>5. Aging'
  BY AgingStays DEF UserOrgsBulk
<1>6. ListedOnce'
  BY ListedStays DEF UserOrgsBulk
<1> QED  BY <1>1, <1>2, <1>3, <1>4, <1>5, <1>6

LEMMA SyncAppliesInv == ASSUME LoginsInv, SyncApplies PROVE LoginsInv'
<1> USE DEF LoginsInv
<1>i. PICK id \in orgSync.asked :
         /\ cache' = WithOrgs(id, id \in orgSync.in)
         /\ orgSync' = IF orgSync.asked = {id} THEN IdleSync ELSE [orgSync EXCEPT !.asked = @ \ {id}]
  BY DEF SyncApplies
<1>o. orgSync' \in [pc : {"idle", "read", "apply"}, asked : SUBSET Ids, in : SUBSET Ids]
  <2>1. orgSync \in [pc : {"idle", "read", "apply"}, asked : SUBSET Ids, in : SUBSET Ids]
    BY DEF LoginsTypeOK
  <2> QED  BY <1>i, <2>1 DEF IdleSync
<1>c. cache' \in [Ids -> Answers] /\ Aging'
  <2>1. (id \in orgSync.in) \in BOOLEAN
    OBVIOUS
  <2> QED  BY <1>i, <2>1, WithOrgsIs DEF SyncApplies
<1>1. LoginsTypeOK'
  BY <1>o, <1>c DEF SyncApplies, LoginsTypeOK
<1>2. Identified'
  BY IdentifiedStays DEF SyncApplies
<1>3. LinksOnce'
  BY LinksStay DEF SyncApplies
<1>4. CodesOnce'
  BY CodesStay DEF SyncApplies
<1>5. Aging'
  BY <1>c
<1>6. ListedOnce'
  BY ListedStays DEF SyncApplies
<1> QED  BY <1>1, <1>2, <1>3, <1>4, <1>5, <1>6

LEMMA AppWSInv == ASSUME LoginsInv, NEW x \in Streams, NEW t \in Ids, AppWS(x, t) PROVE LoginsInv'
<1> USE DEF LoginsInv
<1>1. LoginsTypeOK'
  <2>1. [pc |-> "resolved", id |-> cache[t].id, org |-> cache[t].org] \in Dashboards
    BY DEF Dashboards, LoginsTypeOK, Answers
  <2>2. stream' \in [Streams -> Dashboards]
    BY <2>1 DEF AppWS, LoginsTypeOK
  <2> QED  BY <2>2 DEF AppWS, LoginsTypeOK
<1>2. Identified'
  BY IdentifiedStays DEF AppWS
<1>3. LinksOnce'
  BY LinksStay DEF AppWS
<1>4. CodesOnce'
  BY CodesStay DEF AppWS
<1>5. Aging'
  BY AgingStays DEF AppWS
<1>6. ListedOnce'
  <2>1. \A y \in Streams : Listed(y)' = Listed(y)
    BY DEF AppWS, Off, Listed, LoginsTypeOK
  <2> QED  BY <2>1 DEF AppWS, ListedOnce
<1> QED  BY <1>1, <1>2, <1>3, <1>4, <1>5, <1>6

LEMMA SubscribeInv == ASSUME LoginsInv, NEW x \in Streams, Subscribe(x) PROVE LoginsInv'
<1> USE DEF LoginsInv
<1>d. stream[x] \in Dashboards
  BY DEF LoginsTypeOK
<1>i. index'[x] = IF stream[x].org THEN 1 ELSE 0
  <2>1. index[x] = IF FALSE THEN 1 ELSE 0
    BY DEF ListedOnce, Listed, Subscribe
  <2> QED  BY <1>d, <2>1 DEF Subscribe, LoginsTypeOK, Listed, Dashboards
<1>1. LoginsTypeOK'
  <2>1. stream' \in [Streams -> Dashboards]
    <3>1. [stream[x] EXCEPT !.pc = "on"] \in Dashboards
      BY <1>d DEF Dashboards
    <3> QED  BY <3>1 DEF Subscribe, LoginsTypeOK
  <2>2. index' \in [Streams -> Nat]
    BY <1>i DEF Subscribe, LoginsTypeOK
  <2> QED  BY <2>1, <2>2 DEF Subscribe, LoginsTypeOK
<1>2. Identified'
  BY IdentifiedStays DEF Subscribe
<1>3. LinksOnce'
  BY LinksStay DEF Subscribe
<1>4. CodesOnce'
  BY CodesStay DEF Subscribe
<1>5. Aging'
  BY AgingStays DEF Subscribe
<1>6. ListedOnce'
  <2>1. stream'[x].pc = "on" /\ stream'[x].org <=> stream[x].org
    BY <1>d DEF Subscribe, LoginsTypeOK, Dashboards
  <2>2. \A y \in Streams : y # x => stream'[y] = stream[y] /\ index'[y] = index[y]
    BY DEF Subscribe, LoginsTypeOK
  <2> QED  BY <1>i, <2>1, <2>2 DEF ListedOnce, Listed
<1> QED  BY <1>1, <1>2, <1>3, <1>4, <1>5, <1>6

LEMMA UnsubscribeInv == ASSUME LoginsInv, NEW x \in Streams, Unsubscribe(x) PROVE LoginsInv'
<1> USE DEF LoginsInv
<1>d. stream[x] \in Dashboards
  BY DEF LoginsTypeOK
<1>i. index'[x] = IF FALSE THEN 1 ELSE 0
  <2>1. index[x] = IF stream[x].org THEN 1 ELSE 0
    BY DEF ListedOnce, Listed, Unsubscribe
  <2> QED  BY <1>d, <2>1 DEF Unsubscribe, LoginsTypeOK, Listed, Dashboards
<1>1. LoginsTypeOK'
  <2>1. stream' \in [Streams -> Dashboards]
    <3>1. Off \in Dashboards
      BY <1>d DEF Dashboards, Off
    <3> QED  BY <3>1 DEF Unsubscribe, LoginsTypeOK
  <2>2. index' \in [Streams -> Nat]
    BY <1>i DEF Unsubscribe, LoginsTypeOK
  <2> QED  BY <2>1, <2>2 DEF Unsubscribe, LoginsTypeOK
<1>2. Identified'
  BY IdentifiedStays DEF Unsubscribe
<1>3. LinksOnce'
  BY LinksStay DEF Unsubscribe
<1>4. CodesOnce'
  BY CodesStay DEF Unsubscribe
<1>5. Aging'
  BY AgingStays DEF Unsubscribe
<1>6. ListedOnce'
  <2>1. stream'[x].pc = "on" /\ stream'[x].org <=> FALSE
    BY <1>d DEF Unsubscribe, LoginsTypeOK, Dashboards, Off
  <2>2. \A y \in Streams : y # x => stream'[y] = stream[y] /\ index'[y] = index[y]
    BY DEF Unsubscribe, LoginsTypeOK
  <2> QED  BY <1>i, <2>1, <2>2 DEF ListedOnce, Listed
<1> QED  BY <1>1, <1>2, <1>3, <1>4, <1>5, <1>6

LEMMA LoginsStutter == ASSUME LoginsInv, UNCHANGED loginsVars PROVE LoginsInv'
<1> USE DEF LoginsInv
<1>1. LoginsTypeOK'
  BY DEF loginsVars, LoginsTypeOK
<1>2. Identified' /\ LinksOnce' /\ CodesOnce' /\ Aging' /\ ListedOnce'
  BY IdentifiedStays, LinksStay, CodesStay, AgingStays, ListedStays DEF loginsVars
<1> QED  BY <1>1, <1>2

LEMMA LoginsInvStays == ASSUME LoginsInv, [LoginsNext]_loginsVars PROVE LoginsInv'
<1>1. ASSUME NEW p \in Handlers, LoginStep(p) PROVE LoginsInv'
  <2>1. ASSUME NEW who \in People, OAuth(p, who) PROVE LoginsInv'
    BY <2>1, OAuthInv
  <2>2. ASSUME NEW i \in Ids, MagicVerify(p, i) PROVE LoginsInv'
    BY <2>2, MagicVerifyInv
  <2>3. ASSUME NEW i \in Ids, AuthToken(p, i) PROVE LoginsInv'
    BY <2>3, AuthTokenInv
  <2>4. ASSUME NEW i \in Ids, NEW t \in Ids, AuthClaim(p, i, t) PROVE LoginsInv'
    BY <2>4, AuthClaimInv
  <2>5. CASE ConsumeMagicLink(p) \/ FindUser(p) \/ UpsertUser(p) \/ CreateSession(p)
    BY <2>5, ConsumeMagicLinkInv, FindUserInv, UpsertUserInv, CreateSessionInv
  <2>6. CASE ReadCode(p) \/ ClaimDeviceCode(p) \/ IssueWingJWT(p) \/ CallFails(p)
    BY <2>6, ReadCodeInv, ClaimDeviceCodeInv, IssueWingJWTInv, CallFailsInv
  <2> QED  BY <1>1, <2>1, <2>2, <2>3, <2>4, <2>5, <2>6 DEF LoginStep
<1>2. ASSUME NEW who \in People, MagicLink(who) PROVE LoginsInv'
  BY <1>2, MagicLinkInv
<1>3. ASSUME NEW i \in Ids, Logout(i) \/ AuthDevice(i) \/ CodeExpires(i) \/ OrgChanged(i) PROVE LoginsInv'
  BY <1>3, LogoutInv, AuthDeviceInv, CodeExpiresInv, OrgChangedInv
<1>4. ASSUME NEW v \in Looks, LookStep(v) \/ LoseLook(v) PROVE LoginsInv'
  BY <1>4, InternalSessionInv, SessionOrgsInv, LearnInv, LoseLookInv DEF LookStep
<1>5. ASSUME NEW v \in Looks, NEW t \in Ids, Validate(v, t) PROVE LoginsInv'
  BY <1>5, ValidateInv
<1>6. ASSUME NEW j \in Jobs, JobStep(j) \/ LoseJob(j) PROVE LoginsInv'
  BY <1>6, InternalUserOrgsInv, RefreshStreamsInv, RefreshCacheInv, LoseJobInv DEF JobStep
<1>7. CASE SyncStep \/ Tick
  BY <1>7, SyncBeginsInv, UserOrgsBulkInv, SyncAppliesInv, TickInv DEF SyncStep
<1>8. ASSUME NEW x \in Streams, Subscribe(x) \/ Unsubscribe(x) PROVE LoginsInv'
  BY <1>8, SubscribeInv, UnsubscribeInv
<1>9. ASSUME NEW x \in Streams, NEW t \in Ids, AppWS(x, t) PROVE LoginsInv'
  BY <1>9, AppWSInv
<1>10. CASE UNCHANGED loginsVars
  BY <1>10, LoginsStutter
<1> QED  BY <1>1, <1>2, <1>3, <1>4, <1>5, <1>6, <1>7, <1>8, <1>9, <1>10 DEF LoginsNext

LEMMA LoginsInvariant == LoginsSpec => []LoginsInv
BY LoginsStart, LoginsInvStays, PTL DEF LoginsSpec

\* The tables of login, the requests and the edge's cache keep their shape: in
\* particular no cached answer is ever as old as the cache's time.
THEOREM LoginsTypesHold == LoginsSpec => []LoginsTypeOK
<1>1. LoginsInv => LoginsTypeOK
  BY DEF LoginsInv
<1> QED  BY <1>1, LoginsInvariant, PTL

\* However first logins, visits of a link, claims of a code, logouts and refreshes
\* interleave and fail: one account an identity, one session a link, one owner a
\* device code, a deleted session believed no longer than the cache's time and a
\* request's flight, and a dashboard listed once.
THEOREM LoginsAreSound == LoginsSpec => []LoginsHold
<1>1. ASSUME LoginsInv PROVE LoginsHold
  <2> USE <1>1 DEF LoginsInv
  <2>1. OneAccount
    BY DEF OneAccount, Identified, LinksOnce, Known
  <2>2. ClaimOnce
    <3> SUFFICES ASSUME NEW c \in Ids PROVE Cardinality(told[c]) <= 1
      BY DEF ClaimOnce, CodesOnce
    <3>1. Cardinality(told[c]) = 0 \/ Cardinality(told[c]) = 1
      BY FS_Singleton, FS_EmptySet DEF CodesOnce
    <3> QED  BY <3>1
  <2>3. LogoutBites
    <3> SUFFICES ASSUME NEW t \in Ids, cache[t].id # 0, sessions[t] = -1 PROVE gone[t] < TTL + Flight
      BY DEF LogoutBites
    <3>1. gone[t] <= cache[t].age + Flight
      BY DEF Aging
    <3>2. cache[t].age \in 0..TTL-1 /\ gone[t] \in Nat
      BY DEF LoginsTypeOK, Answers
    <3> QED  BY <3>1, <3>2, LoginsAssumption
  <2> QED  BY <2>1, <2>2, <2>3 DEF LoginsHold
<1> QED  BY <1>1, LoginsInvariant, PTL
=============================================================================
