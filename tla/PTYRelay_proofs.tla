-------------------------- MODULE PTYRelay_proofs --------------------------
(***************************************************************************)
(* PTYRelay's type invariant and RouteSound: who is in the routing table,   *)
(* for any finite number of connections.                                    *)
(***************************************************************************)
EXTENDS PTYRelay, SequenceTheorems, FiniteSetTheorems, TLAPS

(* The inductive invariant *)

WingMsgs == [kind : {"data", "exited"}, to : Conns \union {None}, key : Conns \union {None}]
Requests == [kind : {"start", "attach", "spectate", "kill", "detach", "none"}, conn : Conns]

\* The exit message that takes an entry out of the table.
Final(m) == m.kind = "exited" /\ m.to = None

Types ==
    /\ TypeOK
    /\ ask \in [Conns -> {"start", "attach", "spectate", "kill", "detach", "none"}]
    /\ toWing \in Seq(Requests) /\ fromWing \in Seq(WingMsgs)
    /\ fwd \in [pc : {"idle", "have", "tell", "over", "remove"}, entry : 0..made,
                msg : Msgs, to : SUBSET Conns]
    /\ fwd.pc # "idle" => fwd.entry # 0 /\ fwd.msg \in WingMsgs
    /\ \A c \in Conns : pc[c] = "detach" => held[c] # 0

\* The connections that have made an entry, or will make none.
Started == {c \in Conns : role[c] # "none" /\ pc[c] # "attach"}
Counted == made <= Cardinality(Started)

\* Who attaches has said so.
Asked == \A c \in Conns : pc[c] = "attach" => role[c] # "none"

\* Nobody is in an entry that is not made yet.
Unmade == \A e \in Entries : e > made => bc[e] = None /\ viewers[e] = {}

\* The last exit message is sent when the session has ended.
Ended ==
    /\ owed # {} => sess = "ended"
    /\ \A i \in 1..Len(fromWing) : Final(fromWing[i]) => sess = "ended"
    /\ fwd.pc # "idle" /\ Final(fwd.msg) => sess = "ended"
    /\ fwd.pc = "remove" => Final(fwd.msg)

IInv == Types /\ Counted /\ Asked /\ Unmade /\ Ended /\ ClosedForgotten

LEMMA ConnsCounted ==
    /\ Cardinality(Conns) \in Nat
    /\ \A S \in SUBSET Conns : Cardinality(S) \in Nat /\ Cardinality(S) <= Cardinality(Conns)
<1>1. IsFiniteSet(Conns)
  BY RelayAssumption
<1> QED  BY <1>1, FS_CardinalityType, FS_Subset

LEMMA InitInv == Init => IInv
<1> SUFFICES ASSUME Init PROVE IInv
  OBVIOUS
<1>1. TypeOK
  BY ConnsCounted DEF Init, TypeOK, Rest, NoMsg, Msgs
<1>2. Types
  <2>1. toWing \in Seq(Requests) /\ fromWing \in Seq(WingMsgs)
    BY DEF Init
  <2>2. fwd \in [pc : {"idle", "have", "tell", "over", "remove"}, entry : 0..made,
                 msg : Msgs, to : SUBSET Conns] /\ fwd.pc = "idle"
    BY DEF Init, Rest, NoMsg, Msgs
  <2>3. ask \in [Conns -> {"start", "attach", "spectate", "kill", "detach", "none"}]
        /\ \A c \in Conns : pc[c] = "idle"
    BY DEF Init
  <2> QED  BY <1>1, <2>1, <2>2, <2>3 DEF Types
<1>3. Counted
  <2>1. Started = {}
    BY DEF Init, Started
  <2> QED  BY <2>1, FS_EmptySet DEF Init, Counted
<1>4. Asked /\ Unmade /\ ClosedForgotten
  BY DEF Init, Asked, Unmade, ClosedForgotten
<1>5. Ended
  BY DEF Init, Ended, Rest
<1> QED  BY <1>2, <1>3, <1>4, <1>5 DEF IInv

\* A connection that was not among those that started, and that makes an entry,
\* is counted with it.
LEMMA OneMore ==
    ASSUME IInv, NEW c \in Conns, c \notin Started, Started' = Started \union {c},
           made' = made + 1
    PROVE  Counted' /\ made' \in 0..Cardinality(Conns)
<1>1. Started \in SUBSET Conns /\ Started' \in SUBSET Conns
  BY DEF Started
<1>2. IsFiniteSet(Started)
  BY <1>1, FS_Subset, RelayAssumption
<1>3. Cardinality(Started') = Cardinality(Started) + 1
  BY <1>2, FS_AddElement
<1>4. made \in Nat /\ made <= Cardinality(Started) /\ Cardinality(Started) \in Nat
  BY <1>1, ConnsCounted DEF IInv, Types, TypeOK, Counted
<1>5. Cardinality(Started') <= Cardinality(Conns) /\ Cardinality(Conns) \in Nat
  BY <1>1, ConnsCounted
<1> QED  BY <1>3, <1>4, <1>5 DEF Counted

\* No entry is made, and who has started has not begun again.
LEMMA NoneMade ==
    ASSUME IInv, made' = made, Started \subseteq Started'
    PROVE  Counted'
<1>1. Started \in SUBSET Conns /\ Started' \in SUBSET Conns
  BY DEF Started
<1>2. Cardinality(Started) <= Cardinality(Started')
      /\ Cardinality(Started) \in Nat /\ Cardinality(Started') \in Nat
  BY <1>1, FS_Subset, ConnsCounted, RelayAssumption
<1> QED  BY <1>2 DEF IInv, Types, TypeOK, Counted

\* What a new entry does to the table.
LEMMA SetEntryTable ==
    ASSUME IInv, NEW c \in Conns, SetEntry(c), made' \in 0..Cardinality(Conns), pc'[c] # "closed",
           \A d \in Conns : pc'[d] = "closed" => pc[d] = "closed"
    PROVE  /\ route' \in 1..made' /\ made' = made + 1 /\ made' \in Entries
           /\ bc' \in [Entries -> Conns \union {None}]
           /\ viewers' \in [Entries -> SUBSET Conns]
           /\ Unmade' /\ ClosedForgotten'
<1>1. /\ made' = made + 1 /\ route' = made' /\ viewers' = viewers
      /\ bc' = [bc EXCEPT ![made'] = c]
  BY DEF SetEntry
<1>2. made \in Nat /\ made' \in Entries /\ route' \in 1..made'
  BY <1>1, ConnsCounted DEF IInv, Types, TypeOK, Entries
<1>3. viewers[made'] = {} /\ bc'[made'] = c
  BY <1>1, <1>2 DEF IInv, Unmade, Types, TypeOK
<1>4. Unmade'
  BY <1>1, <1>2 DEF IInv, Unmade, Types, TypeOK, Entries
<1>5. ClosedForgotten'
  BY <1>1, <1>3 DEF ClosedForgotten
<1>6. bc' \in [Entries -> Conns \union {None}] /\ viewers' \in [Entries -> SUBSET Conns]
  BY <1>1 DEF IInv, Types, TypeOK
<1> QED  BY <1>1, <1>2, <1>4, <1>5, <1>6

\* Nothing about sessions, messages and the wing's reader changes.
LEMMA WingFrame ==
    ASSUME IInv, UNCHANGED <<sess, owed, fromWing, fwd>> PROVE Ended'
  BY DEF IInv, Ended, Final

\* Nothing about the table and the connections changes.
LEMMA ConnFrame ==
    ASSUME IInv, UNCHANGED <<route, made, bc, viewers, pc, role>>
    PROVE  Counted' /\ Asked' /\ Unmade' /\ ClosedForgotten'
<1>1. Started' = Started
  BY DEF Started
<1>2. Counted'
  BY <1>1, NoneMade
<1> QED  BY <1>2 DEF IInv, Asked, Unmade, ClosedForgotten

(* A connection's steps *)

LEMMA StartInv == ASSUME IInv, NEW c \in Conns, Start(c) PROVE IInv'
<1>1. /\ pc[c] = "idle" /\ role[c] = "none" /\ SetEntry(c)
      /\ role' = [role EXCEPT ![c] = "controller"] /\ pc' = [pc EXCEPT ![c] = "forward"]
      /\ ask' = [ask EXCEPT ![c] = "start"]
      /\ UNCHANGED <<held, got, sess, ctrl, owed, watching, toWing, fromWing, fwd>>
  BY DEF Start, Asks, Goes, connFrame, wingVars
<1>2. Started' = Started \union {c} /\ c \notin Started
  BY <1>1 DEF IInv, Types, TypeOK, Started
<1>3. Counted' /\ made' \in 0..Cardinality(Conns)
  BY <1>1, <1>2, OneMore DEF SetEntry
<1>4. /\ route' \in 1..made' /\ made' = made + 1
      /\ bc' \in [Entries -> Conns \union {None}] /\ viewers' \in [Entries -> SUBSET Conns]
      /\ Unmade' /\ ClosedForgotten'
  <2>1. pc'[c] # "closed" /\ \A d \in Conns : pc'[d] = "closed" => pc[d] = "closed"
    BY <1>1 DEF IInv, Types, TypeOK
  <2> QED  BY <1>1, <1>3, <2>1, SetEntryTable
<1>5. Types'
  BY <1>1, <1>3, <1>4 DEF IInv, Types, TypeOK
<1>6. Asked' /\ Ended'
  BY <1>1, WingFrame DEF IInv, Asked, Types, TypeOK
<1> QED  BY <1>3, <1>4, <1>5, <1>6 DEF IInv

LEMMA AttachInv ==
    ASSUME IInv, NEW c \in Conns, NEW kind \in {"attach", "spectate"}, Attach(c, kind) PROVE IInv'
<1>1. /\ pc[c] = "idle" /\ role[c] = "none" /\ UNCHANGED <<route, made, bc, viewers>>
      /\ role' = [role EXCEPT ![c] = IF kind = "attach" THEN "controller" ELSE "viewer"]
      /\ pc' = [pc EXCEPT ![c] = IF kind = "attach" THEN "attach" ELSE "view"]
      /\ ask' = [ask EXCEPT ![c] = kind] /\ held' = [held EXCEPT ![c] = route]
      /\ UNCHANGED <<got, sess, ctrl, owed, watching, toWing, fromWing, fwd>>
  BY DEF Attach, Asks, Goes, connFrame, wingVars, tblVars
<1>2. Started \subseteq Started'
  BY <1>1 DEF IInv, Types, TypeOK, Started
<1>3. Counted' /\ Ended'
  BY <1>1, <1>2, NoneMade, WingFrame
<1>4. Types'
  BY <1>1 DEF IInv, Types, TypeOK
<1>5. Asked' /\ Unmade' /\ ClosedForgotten'
  BY <1>1 DEF IInv, Types, TypeOK, Asked, Unmade, ClosedForgotten
<1> QED  BY <1>3, <1>4, <1>5 DEF IInv

LEMMA TakeControlInv == ASSUME IInv, NEW c \in Conns, TakeControl(c) PROVE IInv'
<1>1. /\ pc[c] = "attach" /\ pc' = [pc EXCEPT ![c] = "forward"]
      /\ UNCHANGED <<ask, held, role, got, sess, ctrl, owed, watching, toWing, fromWing, fwd>>
  BY DEF TakeControl, Goes, connFrame, wingVars
<1>2. Asked' /\ Ended'
  BY <1>1, WingFrame DEF IInv, Asked, Types, TypeOK
<1>3. Started' = Started \union {c} /\ c \notin Started
  BY <1>1 DEF IInv, Types, TypeOK, Started, Asked
<1>4. pc'[c] # "closed" /\ \A d \in Conns : pc'[d] = "closed" => pc[d] = "closed"
  BY <1>1 DEF IInv, Types, TypeOK
<1>5. CASE held[c] # 0
  <2>1. bc' = [bc EXCEPT ![held[c]] = c] /\ UNCHANGED <<route, made, viewers>>
    BY <1>5 DEF TakeControl
  <2>2. held[c] \in Entries /\ held[c] <= made
    BY <1>5, ConnsCounted DEF IInv, Types, TypeOK, Entries
  <2>3. Types'
    BY <1>1, <2>1 DEF IInv, Types, TypeOK
  <2>4. Counted'
    BY <1>3, <2>1, NoneMade
  <2>5. Unmade'
    BY <2>1, <2>2 DEF IInv, Types, TypeOK, Unmade
  <2>6. ClosedForgotten'
    BY <1>1, <1>4, <2>1, <2>2 DEF IInv, Types, TypeOK, ClosedForgotten, Entries
  <2> QED  BY <1>2, <2>3, <2>4, <2>5, <2>6 DEF IInv
<1>6. CASE held[c] = 0
  <2>1. SetEntry(c)
    BY <1>6 DEF TakeControl
  <2>2. Counted' /\ made' \in 0..Cardinality(Conns)
    BY <1>3, <2>1, OneMore DEF SetEntry
  <2>3. /\ route' \in 1..made' /\ made' = made + 1
        /\ bc' \in [Entries -> Conns \union {None}] /\ viewers' \in [Entries -> SUBSET Conns]
        /\ Unmade' /\ ClosedForgotten'
    BY <1>4, <2>1, <2>2, SetEntryTable
  <2>4. Types'
    BY <1>1, <2>2, <2>3 DEF IInv, Types, TypeOK
  <2> QED  BY <1>2, <2>2, <2>3, <2>4 DEF IInv
<1> QED  BY <1>5, <1>6

LEMMA AddViewerInv == ASSUME IInv, NEW c \in Conns, AddViewer(c) PROVE IInv'
<1>1. /\ pc[c] = "view" /\ pc' = [pc EXCEPT ![c] = "forward"]
      /\ viewers' = IF held[c] # 0 THEN [viewers EXCEPT ![held[c]] = @ \union {c}] ELSE viewers
      /\ UNCHANGED <<route, made, bc, ask, held, role, got>>
      /\ UNCHANGED <<sess, ctrl, owed, watching, toWing, fromWing, fwd>>
  BY DEF AddViewer, Goes, connFrame, wingVars
<1>2. held[c] \in 0..made /\ made \in Nat
  BY ConnsCounted DEF IInv, Types, TypeOK
<1>3. Types'
  BY <1>1 DEF IInv, Types, TypeOK
<1>4. Counted' /\ Ended' /\ Asked'
  <2>1. Started \subseteq Started'
    BY <1>1 DEF IInv, Types, TypeOK, Started
  <2> QED  BY <1>1, <2>1, NoneMade, WingFrame DEF IInv, Asked, Types, TypeOK
<1>5. Unmade'
  BY <1>1, <1>2 DEF IInv, Types, TypeOK, Unmade, Entries
<1>6. \A e \in Entries : viewers'[e] \subseteq viewers[e] \union {c}
  BY <1>1, <1>2 DEF IInv, Types, TypeOK
<1>7. ClosedForgotten'
  <2>1. route # 0 => route \in Entries
    BY ConnsCounted DEF IInv, Types, TypeOK, Entries
  <2>2. \A d \in Conns : pc'[d] = "closed" => pc[d] = "closed" /\ d # c
    BY <1>1 DEF IInv, Types, TypeOK
  <2> QED  BY <1>1, <1>6, <2>1, <2>2 DEF IInv, ClosedForgotten
<1> QED  BY <1>3, <1>4, <1>5, <1>7 DEF IInv

LEMMA KillInv == ASSUME IInv, NEW c \in Conns, Kill(c) PROVE IInv'
<1>1. /\ pc[c] = "idle" /\ role[c] # "none" /\ pc' = [pc EXCEPT ![c] = "forward"]
      /\ role' = [role EXCEPT ![c] = "left"] /\ ask' = [ask EXCEPT ![c] = "kill"]
      /\ UNCHANGED <<route, made, bc, viewers, held, got>>
      /\ UNCHANGED <<sess, ctrl, owed, watching, toWing, fromWing, fwd>>
  BY DEF Kill, Asks, Present, Goes, connFrame, wingVars, tblVars
<1>2. Types'
  BY <1>1 DEF IInv, Types, TypeOK
<1>3. Started \subseteq Started'
  BY <1>1 DEF IInv, Types, TypeOK, Started
<1>4. Counted' /\ Ended'
  BY <1>1, <1>3, NoneMade, WingFrame
<1>5. Asked' /\ Unmade' /\ ClosedForgotten'
  BY <1>1 DEF IInv, Types, TypeOK, Asked, Unmade, ClosedForgotten
<1> QED  BY <1>2, <1>4, <1>5 DEF IInv

LEMMA AskDetachInv == ASSUME IInv, NEW c \in Conns, AskDetach(c) PROVE IInv'
<1>1. /\ pc[c] = "idle" /\ role[c] # "none" /\ pc' = [pc EXCEPT ![c] = "detach"]
      /\ role' = [role EXCEPT ![c] = "left"] /\ ask' = [ask EXCEPT ![c] = "detach"]
      /\ held' = [held EXCEPT ![c] = route] /\ route # 0
      /\ UNCHANGED <<route, made, bc, viewers, got>>
      /\ UNCHANGED <<sess, ctrl, owed, watching, toWing, fromWing, fwd>>
  BY DEF AskDetach, Asks, Present, Goes, connFrame, wingVars, tblVars
<1>2. Types'
  BY <1>1 DEF IInv, Types, TypeOK
<1>3. Started \subseteq Started'
  BY <1>1 DEF IInv, Types, TypeOK, Started
<1>4. Counted' /\ Ended'
  BY <1>1, <1>3, NoneMade, WingFrame
<1>5. Asked' /\ Unmade' /\ ClosedForgotten'
  BY <1>1 DEF IInv, Types, TypeOK, Asked, Unmade, ClosedForgotten
<1> QED  BY <1>2, <1>4, <1>5 DEF IInv

LEMMA ForwardInv == ASSUME IInv, NEW c \in Conns, Forward(c) PROVE IInv'
<1>1. /\ pc[c] = "forward" /\ pc' = [pc EXCEPT ![c] = "idle"]
      /\ toWing' = Append(toWing, [kind |-> ask[c], conn |-> c])
      /\ ask' = [ask EXCEPT ![c] = "none"] /\ held' = [held EXCEPT ![c] = 0]
      /\ UNCHANGED <<route, made, bc, viewers, role, got>>
      /\ UNCHANGED <<sess, ctrl, owed, watching, fromWing, fwd>>
  BY DEF Forward, Done, Goes, tblVars, wingVars
<1>2. toWing' \in Seq(Requests)
  <2>1. [kind |-> ask[c], conn |-> c] \in Requests /\ toWing \in Seq(Requests)
    BY DEF IInv, Types, Requests
  <2> QED  BY <1>1, <2>1, AppendProperties
<1>3. Types'
  BY <1>1, <1>2 DEF IInv, Types, TypeOK
<1>4. Started \subseteq Started'
  BY <1>1 DEF IInv, Types, TypeOK, Started
<1>5. Counted' /\ Ended'
  BY <1>1, <1>4, NoneMade, WingFrame
<1>6. Asked' /\ Unmade' /\ ClosedForgotten'
  BY <1>1 DEF IInv, Types, TypeOK, Asked, Unmade, ClosedForgotten
<1> QED  BY <1>3, <1>5, <1>6 DEF IInv

\* An entry forgets a connection.
LEMMA ForgetTable ==
    ASSUME IInv, NEW c \in Conns, NEW e \in Entries, Forget(c, e), UNCHANGED <<route, made>>
    PROVE  /\ bc' \in [Entries -> Conns \union {None}] /\ viewers' \in [Entries -> SUBSET Conns]
           /\ Unmade'
           /\ \A d \in Conns, x \in Entries :
                /\ bc'[x] = d => bc[x] = d /\ ~(d = c /\ x = e)
                /\ d \in viewers'[x] => d \in viewers[x] /\ ~(d = c /\ x = e)
<1>1. bc' = [bc EXCEPT ![e] = IF @ = c THEN None ELSE @] /\ viewers' = [viewers EXCEPT ![e] = @ \ {c}]
  BY DEF Forget
<1>2. bc \in [Entries -> Conns \union {None}] /\ viewers \in [Entries -> SUBSET Conns]
  BY DEF IInv, Types, TypeOK
<1>3. bc' \in [Entries -> Conns \union {None}] /\ viewers' \in [Entries -> SUBSET Conns]
  BY <1>1, <1>2
<1>4. Unmade'
  BY <1>1, <1>2 DEF IInv, Unmade
<1>5. None \notin Conns
  BY RelayAssumption
<1> QED  BY <1>1, <1>2, <1>3, <1>4, <1>5

LEMMA DetachInv == ASSUME IInv, NEW c \in Conns, Detach(c) PROVE IInv'
<1>1. /\ pc[c] = "detach" /\ pc' = [pc EXCEPT ![c] = "idle"] /\ Forget(c, held[c])
      /\ ask' = [ask EXCEPT ![c] = "none"] /\ held' = [held EXCEPT ![c] = 0]
      /\ UNCHANGED <<route, made, role, got>>
      /\ UNCHANGED <<sess, ctrl, owed, watching, toWing, fromWing, fwd>>
  BY DEF Detach, Done, Goes, connFrame, wingVars
<1>2. held[c] \in Entries
  BY <1>1, ConnsCounted DEF IInv, Types, TypeOK, Entries
<1>3. /\ bc' \in [Entries -> Conns \union {None}] /\ viewers' \in [Entries -> SUBSET Conns] /\ Unmade'
      /\ \A d \in Conns, x \in Entries :
           (bc'[x] = d => bc[x] = d) /\ (d \in viewers'[x] => d \in viewers[x])
  BY <1>1, <1>2, ForgetTable
<1>4. Types'
  BY <1>1, <1>3 DEF IInv, Types, TypeOK
<1>5. Started \subseteq Started'
  BY <1>1 DEF IInv, Types, TypeOK, Started
<1>6. Counted' /\ Ended'
  BY <1>1, <1>5, NoneMade, WingFrame
<1>7. Asked'
  BY <1>1 DEF IInv, Types, TypeOK, Asked
<1>8. ClosedForgotten'
  <2>1. route # 0 => route \in Entries
    BY ConnsCounted DEF IInv, Types, TypeOK, Entries
  <2>2. \A d \in Conns : pc'[d] = "closed" => pc[d] = "closed"
    BY <1>1 DEF IInv, Types, TypeOK
  <2> QED  BY <1>1, <1>3, <2>1, <2>2 DEF IInv, ClosedForgotten
<1> QED  BY <1>3, <1>4, <1>6, <1>7, <1>8 DEF IInv

LEMMA CloseInv == ASSUME IInv, NEW c \in Conns, Close(c) PROVE IInv'
<1>1. /\ pc[c] = "idle" /\ pc' = [pc EXCEPT ![c] = "closed"]
      /\ IF route # 0 THEN Forget(c, route) ELSE UNCHANGED <<bc, viewers>>
      /\ UNCHANGED <<route, made, ask, held, role, got>>
      /\ UNCHANGED <<sess, ctrl, owed, watching, toWing, fromWing, fwd>>
  BY DEF Close, Goes, connFrame, wingVars
<1>2. Started \subseteq Started'
  BY <1>1 DEF IInv, Types, TypeOK, Started
<1>3. Counted' /\ Ended'
  BY <1>1, <1>2, NoneMade, WingFrame
<1>4. Asked'
  BY <1>1 DEF IInv, Types, TypeOK, Asked
<1>5. CASE route = 0
  <2>1. Types'
    BY <1>1, <1>5 DEF IInv, Types, TypeOK
  <2>2. Unmade' /\ ClosedForgotten'
    BY <1>1, <1>5 DEF IInv, Unmade, ClosedForgotten
  <2> QED  BY <1>3, <1>4, <2>1, <2>2 DEF IInv
<1>6. CASE route # 0
  <2>1. route \in Entries
    BY <1>6, ConnsCounted DEF IInv, Types, TypeOK, Entries
  <2>2. /\ bc' \in [Entries -> Conns \union {None}] /\ viewers' \in [Entries -> SUBSET Conns] /\ Unmade'
        /\ \A d \in Conns, x \in Entries :
             /\ bc'[x] = d => bc[x] = d /\ ~(d = c /\ x = route)
             /\ d \in viewers'[x] => d \in viewers[x] /\ ~(d = c /\ x = route)
    BY <1>1, <1>6, <2>1, ForgetTable
  <2>3. Types'
    BY <1>1, <2>2 DEF IInv, Types, TypeOK
  <2>4. \A d \in Conns : pc'[d] = "closed" => pc[d] = "closed" \/ d = c
    BY <1>1 DEF IInv, Types, TypeOK
  <2>5. ClosedForgotten'
    BY <1>1, <2>1, <2>2, <2>4 DEF IInv, ClosedForgotten
  <2> QED  BY <1>3, <1>4, <2>2, <2>3, <2>5 DEF IInv
<1> QED  BY <1>5, <1>6

(* The wing's steps *)

\* Taking a request off the queue.
LEMMA TakesOne ==
    ASSUME IInv, toWing # <<>>
    PROVE  Head(toWing).conn \in Conns /\ Tail(toWing) \in Seq(Requests)
<1>1. toWing \in Seq(Requests)
  BY DEF IInv, Types
<1>2. Head(toWing) \in Requests /\ Tail(toWing) \in Seq(Requests)
  BY <1>1, HeadTailProperties
<1> QED  BY <1>2 DEF Requests

\* The wing sends m: all but a final message goes at any time.
LEMMA Sends ==
    ASSUME IInv, NEW m \in WingMsgs, fromWing' = Append(fromWing, m), UNCHANGED fwd,
           Final(m) => sess' = "ended", owed' # {} => sess' = "ended",
           sess = "ended" => sess' = "ended"
    PROVE  fromWing' \in Seq(WingMsgs) /\ Ended'
<1>1. fromWing \in Seq(WingMsgs)
  BY DEF IInv, Types
<1>2. /\ fromWing' \in Seq(WingMsgs) /\ Len(fromWing') = Len(fromWing) + 1
      /\ \A i \in 1..Len(fromWing) : fromWing'[i] = fromWing[i]
      /\ fromWing'[Len(fromWing) + 1] = m /\ Len(fromWing) \in Nat
  BY <1>1, AppendProperties, LenProperties
<1>3. \A i \in 1..Len(fromWing') : i \in 1..Len(fromWing) \/ i = Len(fromWing) + 1
  BY <1>2
<1>4. \A i \in 1..Len(fromWing') : Final(fromWing'[i]) => sess' = "ended"
  BY <1>2, <1>3 DEF IInv, Ended
<1> QED  BY <1>2, <1>4 DEF IInv, Ended, Final

\* The session ends.
LEMMA EndsEnded ==
    ASSUME IInv, sess' = "ended", UNCHANGED <<fromWing, fwd>> PROVE Ended'
  BY DEF IInv, Ended, Final

LEMMA WingTakesControlInv == ASSUME IInv, WingTakesControl PROVE IInv'
<1> DEFINE m == Msg("data", None, ctrl')
<1>1. /\ toWing # <<>> /\ toWing' = Tail(toWing) /\ sess \in {"none", "live"}
      /\ sess' = "live" /\ ctrl' = Head(toWing).conn /\ fromWing' = Append(fromWing, m)
      /\ UNCHANGED <<owed, watching, route, made, bc, viewers, pc, ask, held, role, got, fwd>>
  BY DEF WingTakesControl, Takes, wingFrame, tblVars, connVars
<1>2. ctrl' \in Conns /\ toWing' \in Seq(Requests)
  BY <1>1, TakesOne
<1>3. m \in WingMsgs /\ ~Final(m)
  BY <1>2 DEF Msg, WingMsgs, Final
<1>4. owed = {}
  BY <1>1 DEF IInv, Ended
<1>5. fromWing' \in Seq(WingMsgs) /\ Ended'
  BY <1>1, <1>3, <1>4, Sends
<1>6. Types'
  BY <1>1, <1>2, <1>5 DEF IInv, Types, TypeOK
<1> QED  BY <1>1, <1>5, <1>6, ConnFrame DEF IInv

LEMMA WingTakesViewerInv == ASSUME IInv, WingTakesViewer PROVE IInv'
<1> DEFINE c == Head(toWing).conn
<1>1. /\ toWing # <<>> /\ toWing' = Tail(toWing)
      /\ UNCHANGED <<sess, ctrl, owed, route, made, bc, viewers, pc, ask, held, role, got, fwd>>
  BY DEF WingTakesViewer, Takes, wingFrame, tblVars, connVars
<1>2. c \in Conns /\ toWing' \in Seq(Requests)
  BY <1>1, TakesOne
<1>3. watching' \subseteq Conns
  BY <1>2 DEF WingTakesViewer, IInv, Types, TypeOK
<1>4. \E kind \in {"data", "exited"} : fromWing' = Append(fromWing, Msg(kind, c, c))
  BY DEF WingTakesViewer
<1>5. \A kind \in {"data", "exited"} : Msg(kind, c, c) \in WingMsgs /\ ~Final(Msg(kind, c, c))
  BY <1>2, RelayAssumption DEF Msg, WingMsgs, Final
<1>6. fromWing' \in Seq(WingMsgs) /\ Ended'
  <2>1. PICK kind \in {"data", "exited"} : fromWing' = Append(fromWing, Msg(kind, c, c))
    BY <1>4
  <2>2. owed' # {} => sess' = "ended"
    BY <1>1 DEF IInv, Ended
  <2> QED  BY <1>1, <1>5, <2>1, <2>2, Sends
<1>7. Types'
  BY <1>1, <1>2, <1>3, <1>6 DEF IInv, Types, TypeOK
<1> QED  BY <1>1, <1>6, <1>7, ConnFrame DEF IInv

LEMMA WingEndsInv ==
    ASSUME IInv, WingTakesKill \/ WingIgnores \/ AgentExits PROVE IInv'
<1>1. /\ UNCHANGED <<ctrl, watching, fromWing, route, made, bc, viewers, pc, ask, held, role, got, fwd>>
      /\ sess' = "ended" /\ owed' \in SUBSET (Conns \union {None})
  BY DEF WingTakesKill, WingIgnores, AgentExits, Ends, wingFrame, wingVars, tblVars, connVars,
         IInv, Types, TypeOK
<1>2. toWing' \in Seq(Requests)
  <2>1. toWing' = toWing \/ (toWing # <<>> /\ toWing' = Tail(toWing))
    BY DEF WingTakesKill, WingIgnores, AgentExits, Takes
  <2> QED  BY <2>1, TakesOne DEF IInv, Types
<1>3. Types'
  BY <1>1, <1>2 DEF IInv, Types, TypeOK
<1>4. Ended'
  BY <1>1, EndsEnded
<1> QED  BY <1>1, <1>3, <1>4, ConnFrame DEF IInv

LEMMA SendExitedInv ==
    ASSUME IInv, NEW x \in Conns \union {None}, SendExited(x) PROVE IInv'
<1>1. /\ x \in owed /\ owed' = owed \ {x} /\ fromWing' = Append(fromWing, Msg("exited", x, x))
      /\ UNCHANGED <<sess, ctrl, watching, toWing>>
      /\ UNCHANGED <<route, made, bc, viewers, pc, ask, held, role, got, fwd>>
  BY DEF SendExited, wingFrame, tblVars, connVars
<1>2. Msg("exited", x, x) \in WingMsgs
  BY DEF Msg, WingMsgs
<1>3. sess' = "ended"
  BY <1>1 DEF IInv, Ended
<1>4. fromWing' \in Seq(WingMsgs) /\ Ended'
  BY <1>1, <1>2, <1>3, Sends
<1>5. Types'
  BY <1>1, <1>4 DEF IInv, Types, TypeOK
<1> QED  BY <1>1, <1>4, <1>5, ConnFrame DEF IInv

(* The steps of the reader of the wing's connection *)

FwdType == [pc : {"idle", "have", "tell", "over", "remove"}, entry : Nat,
            msg : Msgs, to : SUBSET Conns]

LEMMA RestType == Rest.pc = "idle" /\ Rest.entry = 0 /\ Rest \in FwdType
  BY DEF Rest, NoMsg, Msgs, FwdType

LEMMA FetchInv == ASSUME IInv, Fetch PROVE IInv'
<1>1. /\ fromWing # <<>> /\ fromWing' = Tail(fromWing)
      /\ fwd' = IF route = 0 THEN Rest
                ELSE [Rest EXCEPT !.pc = "have", !.entry = route, !.msg = Head(fromWing)]
      /\ UNCHANGED <<route, made, bc, viewers, got, pc, ask, held, role>>
      /\ UNCHANGED <<sess, ctrl, owed, watching, toWing>>
  BY DEF Fetch, fwdFrame, tblVars, connVars, wingVars
<1>2. fromWing \in Seq(WingMsgs)
  BY DEF IInv, Types
<1>3. Head(fromWing) \in WingMsgs /\ Tail(fromWing) \in Seq(WingMsgs)
  BY <1>1, <1>2, HeadTailProperties
<1>4. /\ Len(Tail(fromWing)) = Len(fromWing) - 1 /\ Len(fromWing) \in Nat \ {0}
      /\ \A i \in 1..Len(Tail(fromWing)) : Tail(fromWing)[i] = fromWing[i + 1]
      /\ Head(fromWing) = fromWing[1]
  BY <1>1, <1>2, HeadTailProperties, EmptySeq, LenProperties
<1>5. CASE route = 0
  <2>1. Types'
    BY <1>1, <1>3, <1>5, RestType DEF IInv, Types, TypeOK, FwdType
  <2>2. Ended'
    BY <1>1, <1>4, <1>5, RestType DEF IInv, Ended, Final
  <2> QED  BY <1>1, <2>1, <2>2, ConnFrame DEF IInv
<1>6. CASE route # 0
  <2>1. fwd' = [pc |-> "have", entry |-> route, msg |-> Head(fromWing), to |-> {}]
    BY <1>1, <1>6 DEF Rest
  <2>2. Head(fromWing) \in Msgs
    BY <1>3 DEF WingMsgs, Msgs
  <2>3. /\ fwd'.pc = "have" /\ fwd'.entry = route /\ fwd'.to = {}
        /\ fwd'.msg = Head(fromWing)
    BY <2>1
  <2>4. fwd' \in [pc : {"idle", "have", "tell", "over", "remove"}, entry : 0..made',
                 msg : Msgs, to : SUBSET Conns]
    <3>1. route \in 0..made'
      BY <1>1 DEF IInv, Types, TypeOK
    <3> QED  BY <2>1, <2>2, <3>1
  <2>5. Types'
    BY <1>1, <1>3, <1>6, <2>2, <2>3, <2>4 DEF IInv, Types, TypeOK
  <2>6. Ended'
    BY <1>1, <1>4, <2>3 DEF IInv, Ended, Final
  <2> QED  BY <1>1, <2>5, <2>6, ConnFrame DEF IInv
<1> QED  BY <1>5, <1>6

LEMMA PickInv == ASSUME IInv, Pick PROVE IInv'
<1> DEFINE e == fwd.entry
           m == fwd.msg
<1>1. /\ fwd.pc = "have"
      /\ fwd' = [fwd EXCEPT !.pc = "tell", !.to = Addressees(e, m)]
      /\ viewers' = IF m.kind = "exited" THEN [viewers EXCEPT ![e] = @ \ {m.to}] ELSE viewers
      /\ UNCHANGED <<route, made, bc, got, fromWing, pc, ask, held, role>>
      /\ UNCHANGED <<sess, ctrl, owed, watching, toWing>>
  BY DEF Pick, fwdFrame, connVars, wingVars
<1>2. e \in Entries
  BY <1>1, ConnsCounted DEF IInv, Types, TypeOK, Entries
<1>3. Addressees(e, m) \subseteq Conns
  <2>1. bc[e] \in Conns \union {None} /\ viewers[e] \subseteq Conns
    BY <1>2 DEF IInv, Types, TypeOK
  <2> QED  BY <2>1 DEF Addressees
<1>4. viewers' \in [Entries -> SUBSET Conns] /\ \A x \in Entries : viewers'[x] \subseteq viewers[x]
  BY <1>1 DEF IInv, Types, TypeOK
<1>5. /\ fwd'.pc = "tell" /\ fwd'.entry = e /\ fwd'.msg = m
      /\ fwd' \in [pc : {"idle", "have", "tell", "over", "remove"}, entry : 0..made,
                   msg : Msgs, to : SUBSET Conns]
  <2> DEFINE told == [fwd EXCEPT !.pc = "tell"]
  <2>1. fwd' = [told EXCEPT !.to = Addressees(e, m)]
    BY <1>1
  <2>2. told.pc = "tell" /\ told.entry = e /\ told.msg = m
        /\ told \in [pc : {"idle", "have", "tell", "over", "remove"}, entry : 0..made,
                     msg : Msgs, to : SUBSET Conns]
    BY DEF IInv, Types
  <2> HIDE DEF told, e, m
  <2> QED  BY <1>3, <2>1, <2>2
<1>6. Types'
  BY <1>1, <1>4, <1>5 DEF IInv, Types, TypeOK
<1>7. Counted'
  <2>1. Started' = Started
    BY <1>1 DEF Started
  <2> QED  BY <1>1, <2>1, NoneMade
<1>8. Asked' /\ Unmade'
  BY <1>1, <1>4 DEF IInv, Asked, Unmade
<1>9. ClosedForgotten'
  <2>1. route # 0 => route \in Entries
    BY ConnsCounted DEF IInv, Types, TypeOK, Entries
  <2> QED  BY <1>1, <1>4, <2>1 DEF IInv, ClosedForgotten
<1>10. Ended'
  BY <1>1, <1>5 DEF IInv, Ended, Final
<1> QED  BY <1>6, <1>7, <1>8, <1>9, <1>10 DEF IInv

\* What the reader tells is of its message's kind.
LEMMA KindKept == ASSUME IInv, fwd.pc # "idle" PROVE fwd.msg.kind \in {"data", "exited"}
  BY DEF IInv, Types, WingMsgs

LEMMA TellInv == ASSUME IInv, Tell PROVE IInv'
<1>1. /\ fwd.pc = "tell"
      /\ got' = [c \in Conns |->
                  got[c] \union (IF c \in fwd.to /\ (fwd.msg.kind = "exited" \/ fwd.msg.key = c)
                                 THEN {fwd.msg.kind} ELSE {})]
      /\ fwd' = IF Final(fwd.msg) THEN [fwd EXCEPT !.pc = "remove"] ELSE Rest
      /\ UNCHANGED <<route, made, bc, viewers, fromWing, pc, ask, held, role>>
      /\ UNCHANGED <<sess, ctrl, owed, watching, toWing>>
  BY DEF Tell, Final, fwdFrame, tblVars, connVars, wingVars
<1>2. got' \in [Conns -> SUBSET Kinds]
  BY <1>1, KindKept DEF IInv, Types, TypeOK, Kinds
<1>3. CASE Final(fwd.msg)
  <2>1. fwd' = [fwd EXCEPT !.pc = "remove"]
    BY <1>1, <1>3
  <2>2. Types'
    BY <1>1, <1>2, <2>1 DEF IInv, Types, TypeOK
  <2>3. Ended'
    BY <1>1, <1>3, <2>1 DEF IInv, Ended, Final, Types
  <2> QED  BY <1>1, <2>2, <2>3, ConnFrame DEF IInv
<1>4. CASE ~Final(fwd.msg)
  <2>1. fwd' = Rest
    BY <1>1, <1>4
  <2>2. Types'
    BY <1>1, <1>2, <2>1, RestType DEF IInv, Types, TypeOK, FwdType
  <2>3. Ended'
    BY <1>1, <2>1, RestType DEF IInv, Ended, Final
  <2> QED  BY <1>1, <2>2, <2>3, ConnFrame DEF IInv
<1> QED  BY <1>3, <1>4

LEMMA ExceedInv == ASSUME IInv, Exceed PROVE IInv'
<1>1. /\ fwd.pc = "tell" /\ fwd' = [fwd EXCEPT !.pc = "over"]
      /\ got' = [c \in Conns |-> got[c] \union (IF c \in fwd.to THEN {"exceeded"} ELSE {})]
      /\ UNCHANGED <<route, made, bc, viewers, fromWing, pc, ask, held, role>>
      /\ UNCHANGED <<sess, ctrl, owed, watching, toWing>>
  BY DEF Exceed, fwdFrame, tblVars, connVars, wingVars
<1>2. got' \in [Conns -> SUBSET Kinds]
  BY <1>1 DEF IInv, Types, TypeOK, Kinds
<1>3. Types'
  BY <1>1, <1>2 DEF IInv, Types, TypeOK
<1>4. Ended'
  BY <1>1 DEF IInv, Ended, Final, Types
<1> QED  BY <1>1, <1>3, <1>4, ConnFrame DEF IInv

LEMMA DetachExceededInv == ASSUME IInv, DetachExceeded PROVE IInv'
<1>1. /\ fwd.pc = "over" /\ fwd' = Rest /\ bc' = [bc EXCEPT ![fwd.entry] = None]
      /\ UNCHANGED <<route, made, viewers, got, fromWing, pc, ask, held, role>>
      /\ UNCHANGED <<sess, ctrl, owed, watching, toWing>>
  BY DEF DetachExceeded, fwdFrame, connVars, wingVars
<1>2. bc' \in [Entries -> Conns \union {None}] /\ \A x \in Entries : bc'[x] \in {bc[x], None}
  BY <1>1 DEF IInv, Types, TypeOK
<1>3. Types'
  BY <1>1, <1>2, RestType DEF IInv, Types, TypeOK, FwdType
<1>4. Ended'
  BY <1>1, RestType DEF IInv, Ended, Final
<1>5. Counted'
  <2>1. Started' = Started
    BY <1>1 DEF Started
  <2> QED  BY <1>1, <2>1, NoneMade
<1>6. Asked' /\ Unmade'
  BY <1>1, <1>2 DEF IInv, Asked, Unmade
<1>7. ClosedForgotten'
  <2>1. route # 0 => route \in Entries
    BY ConnsCounted DEF IInv, Types, TypeOK, Entries
  <2> QED  BY <1>1, <1>2, <2>1, RelayAssumption DEF IInv, ClosedForgotten
<1> QED  BY <1>3, <1>4, <1>5, <1>6, <1>7 DEF IInv

LEMMA RemoveEntryInv == ASSUME IInv, RemoveEntry PROVE IInv'
<1>1. /\ fwd.pc = "remove" /\ fwd' = Rest /\ route' = 0
      /\ UNCHANGED <<made, bc, viewers, got, fromWing, pc, ask, held, role>>
      /\ UNCHANGED <<sess, ctrl, owed, watching, toWing>>
  BY DEF RemoveEntry, fwdFrame, connVars, wingVars
<1>2. Types'
  BY <1>1, RestType, ConnsCounted DEF IInv, Types, TypeOK, FwdType
<1>3. Ended'
  BY <1>1, RestType DEF IInv, Ended, Final
<1>4. Counted'
  <2>1. Started' = Started
    BY <1>1 DEF Started
  <2> QED  BY <1>1, <2>1, NoneMade
<1>5. Asked' /\ Unmade' /\ ClosedForgotten'
  BY <1>1 DEF IInv, Asked, Unmade, ClosedForgotten
<1> QED  BY <1>2, <1>3, <1>4, <1>5 DEF IInv

LEMMA StepInv == ASSUME IInv, [Next]_vars PROVE IInv'
<1>1. CASE UNCHANGED vars
  <2>1. UNCHANGED <<route, made, bc, viewers, pc, ask, held, role, got>>
        /\ UNCHANGED <<sess, ctrl, owed, watching, toWing, fromWing, fwd>>
    BY <1>1 DEF vars, tblVars, connVars, wingVars
  <2>2. Types'
    BY <2>1 DEF IInv, Types, TypeOK
  <2> QED  BY <2>1, <2>2, ConnFrame, WingFrame DEF IInv
<1>2. ASSUME NEW c \in Conns,
             \/ Start(c) \/ Attach(c, "attach") \/ Attach(c, "spectate")
             \/ Kill(c) \/ AskDetach(c) \/ Close(c) \/ Handles(c)
      PROVE  IInv'
  BY <1>2, StartInv, AttachInv, KillInv, AskDetachInv, CloseInv, TakeControlInv, AddViewerInv,
     ForwardInv, DetachInv DEF Handles
<1>3. CASE WingWorks \/ AgentExits
  BY <1>3, WingTakesControlInv, WingTakesViewerInv, WingEndsInv DEF WingWorks
<1>4. ASSUME NEW x \in Conns \union {None}, SendExited(x) PROVE IInv'
  BY <1>4, SendExitedInv
<1>5. CASE Reads
  BY <1>5, FetchInv, PickInv, TellInv, ExceedInv, DetachExceededInv, RemoveEntryInv DEF Reads
<1> QED  BY <1>1, <1>2, <1>3, <1>4, <1>5 DEF Next

LEMMA Invariant == Spec => []IInv
<1>1. IInv /\ [Next]_vars => IInv'
  BY StepInv
<1> QED  BY <1>1, InitInv, PTL DEF Spec

\* The routing table, the requests and the messages keep their types: an entry
\* is only ever one that was made, and there are no more than connections.
THEOREM TypeCorrect == Spec => []TypeOK
<1>1. IInv => TypeOK
  BY DEF IInv, Types
<1> QED  BY <1>1, Invariant, PTL

(* What a step may do to the table *)

\* Who loses the control of an entry, and how.
LosesControl(e) ==
    bc[e] # None /\ bc'[e] # bc[e] =>
        \/ (bc'[e] # None /\ pc[bc'[e]] = "attach")
        \/ pc[bc[e]] = "detach" \/ pc'[bc[e]] = "closed"
        \/ fwd.pc = "over"

LEMMA SetKeeps ==
    ASSUME IInv, NEW c \in Conns, SetEntry(c), made' \in 0..Cardinality(Conns),
           NEW e \in Entries, bc[e] # None
    PROVE  bc'[e] = bc[e]
<1>1. made' = made + 1 /\ bc' = [bc EXCEPT ![made'] = c] /\ made \in Nat
  BY ConnsCounted DEF SetEntry, IInv, Types, TypeOK
<1>2. e <= made
  BY <1>1 DEF IInv, Unmade, Entries
<1> QED  BY <1>1, <1>2 DEF IInv, Types, TypeOK, Entries

LEMMA ControlStep ==
    ASSUME IInv, IInv', [Next]_vars, NEW e \in Entries PROVE LosesControl(e)
<1> SUFFICES ASSUME bc[e] # None, bc'[e] # bc[e]
             PROVE  \/ (bc'[e] # None /\ pc[bc'[e]] = "attach")
                    \/ pc[bc[e]] = "detach" \/ pc'[bc[e]] = "closed"
                    \/ fwd.pc = "over"
  BY DEF LosesControl
<1>1. bc \in [Entries -> Conns \union {None}] /\ made' \in 0..Cardinality(Conns)
  BY DEF IInv, Types, TypeOK
<1>2. ASSUME NEW c \in Conns, TakeControl(c) PROVE bc'[e] # None /\ pc[bc'[e]] = "attach"
  <2>1. pc[c] = "attach" /\ c # None
    BY <1>2, RelayAssumption DEF TakeControl
  <2>2. CASE held[c] # 0
    <3>1. bc'[e] = c
      BY <1>1, <1>2, <2>2 DEF TakeControl
    <3> QED  BY <2>1, <3>1
  <2>3. CASE held[c] = 0
    <3>1. SetEntry(c)
      BY <1>2, <2>3 DEF TakeControl
    <3> QED  BY <1>1, <3>1, SetKeeps
  <2> QED  BY <2>2, <2>3
<1>3. ASSUME NEW c \in Conns, Detach(c) PROVE pc[bc[e]] = "detach"
  BY <1>1, <1>3 DEF Detach, Forget
<1>4. ASSUME NEW c \in Conns, Close(c) PROVE pc'[bc[e]] = "closed"
  <2>1. bc[e] = c
    BY <1>1, <1>4 DEF Close, Forget
  <2>2. pc' = [pc EXCEPT ![c] = "closed"]
    BY <1>4 DEF Close, Goes
  <2> QED  BY <2>1, <2>2 DEF IInv, Types, TypeOK
<1>5. ASSUME NEW c \in Conns,
             \/ Start(c) \/ Attach(c, "attach") \/ Attach(c, "spectate") \/ Kill(c)
             \/ AskDetach(c) \/ AddViewer(c) \/ Forward(c)
      PROVE  FALSE
  <2>1. CASE Start(c)
    BY <1>1, <2>1, SetKeeps DEF Start
  <2>2. CASE ~Start(c)
    <3>1. bc' = bc
      BY <1>5, <2>2 DEF Attach, Kill, AskDetach, AddViewer, Forward, tblVars
    <3> QED  BY <3>1
  <2> QED  BY <2>1, <2>2
<1>6. CASE UNCHANGED vars \/ WingWorks \/ AgentExits \/ (\E x \in Conns \union {None} : SendExited(x))
  <2>1. bc' = bc
    BY <1>6 DEF vars, WingWorks, WingTakesControl, WingTakesViewer, WingTakesKill, WingIgnores,
       AgentExits, SendExited, wingFrame, tblVars
  <2> QED  BY <2>1
<1>7. CASE Reads
  <2>1. CASE DetachExceeded
    BY <2>1 DEF DetachExceeded
  <2>2. CASE ~DetachExceeded
    <3>1. bc' = bc
      BY <1>7, <2>2 DEF Reads, Fetch, Pick, Tell, Exceed, RemoveEntry, tblVars
    <3> QED  BY <3>1
  <2> QED  BY <2>1, <2>2
<1> QED  BY <1>2, <1>3, <1>4, <1>5, <1>6, <1>7 DEF Next, Handles

LEMMA RemoveStep ==
    ASSUME IInv, IInv', [Next]_vars PROVE route # 0 /\ route' = 0 => sess = "ended"
<1> SUFFICES ASSUME route # 0, route' = 0 PROVE sess = "ended"
  OBVIOUS
<1>1. CASE RemoveEntry
  BY <1>1 DEF RemoveEntry, IInv, Ended
<1>2. ASSUME NEW c \in Conns, Start(c) \/ TakeControl(c) PROVE FALSE
  <2>1. SetEntry(c)
    BY <1>2 DEF Start, TakeControl
  <2>2. made' = made + 1 /\ route' = made' /\ made \in Nat
    BY <2>1, ConnsCounted DEF SetEntry, IInv, Types, TypeOK
  <2> QED  BY <2>2
<1>3. ASSUME NEW c \in Conns,
             \/ Attach(c, "attach") \/ Attach(c, "spectate") \/ Kill(c) \/ AskDetach(c)
             \/ AddViewer(c) \/ Forward(c) \/ Detach(c) \/ Close(c)
      PROVE  FALSE
  BY <1>3 DEF Attach, Kill, AskDetach, AddViewer, Forward, Detach, Close, tblVars
<1>4. CASE UNCHANGED vars \/ WingWorks \/ AgentExits \/ (\E x \in Conns \union {None} : SendExited(x))
  BY <1>4 DEF vars, WingWorks, WingTakesControl, WingTakesViewer, WingTakesKill, WingIgnores,
     AgentExits, SendExited, wingFrame, tblVars
<1>5. CASE Reads /\ ~RemoveEntry
  BY <1>5 DEF Reads, Fetch, Pick, Tell, Exceed, DetachExceeded, tblVars
<1> QED  BY <1>1, <1>2, <1>3, <1>4, <1>5 DEF Next, Handles

\* Whatever connections do at the same time, none that has ended is in the
\* table, none loses its control to a step of someone else's but an attach and
\* the bandwidth limit, and no entry leaves before its session has ended.
THEOREM RoutingIsSound == Spec => RouteSound
<1>1. IInv => ClosedForgotten
  BY DEF IInv
<1>2. IInv /\ IInv' /\ [Next]_vars =>
        [\A e \in Entries : bc[e] # None /\ bc'[e] # bc[e] =>
            \/ (bc'[e] # None /\ pc[bc'[e]] = "attach")
            \/ pc[bc[e]] = "detach" \/ pc'[bc[e]] = "closed"
            \/ fwd.pc = "over"]_vars
  BY ControlStep DEF LosesControl
<1>3. IInv /\ IInv' /\ [Next]_vars => [route # 0 /\ route' = 0 => sess = "ended"]_vars
  BY RemoveStep
<1> QED  BY <1>1, <1>2, <1>3, Invariant, PTL DEF Spec, RouteSound, ControllerKept, EntryKept
=============================================================================
