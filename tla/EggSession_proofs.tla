------------------------- MODULE EggSession_proofs -------------------------
(***************************************************************************)
(* EggSession's type invariant, SnapshotAccounted and ExitAfterLogged, for  *)
(* any number of streams, any capacity of vtermCh and any bounds.           *)
(***************************************************************************)
EXTENDS EggSession, SequenceTheorems, TLAPS

(* The inductive invariant *)

\* The indices of vtermCh that hold a chunk, and the chunks readPTY is done
\* with.
DataAt == {i \in 1..Len(vtermCh) : vtermCh[i].kind = "data"}
Posted == IF reader = "post" THEN logged - 1 ELSE logged

Types ==
    /\ egg \in {"running", "exited", "done", "closed", "stopping", "stopped"}
    /\ logged \in 0..MaxOutput /\ unread \in 0..(MaxOutput - logged)
    /\ egg = "running" => unread = 0
    /\ loggedAtDone \in 0..logged
    /\ reader \in {"read", "post", "gone"}
    /\ reader = "post" => logged > 0
    /\ vloop \in {"run", "gone"}
    /\ vtermCh \in Seq(Message) /\ Len(vtermCh) <= VtermCap
    /\ screen \subseteq 1..logged /\ dropped \subseteq 1..logged
    /\ lastOffset \in 0..logged
    /\ attaches \in Nat /\ resizes \in Nat

StreamTypes ==
    /\ st \in [Streams -> {"none", "enqueue", "await", "snap", "first", "open"}]
    /\ out \in [Streams -> {"none", "read", "send", "wait", "drain", "exit"}]
    /\ fence \in [Streams -> 0..attaches]
    /\ snap \in [Streams -> SUBSET (1..logged)]
    /\ start \in [Streams -> 0..logged]
    /\ cursor \in [Streams -> 0..logged]
    /\ sent \in [Streams -> 0..logged]
    /\ told \in [Streams -> BOOLEAN]
    /\ result \in [Streams -> [chunks : SUBSET (1..logged), offset : 0..logged]
                                 \union {NoResult}]

\* A set of chunks that accounts for everything up to an offset.
Accounted(chunks, offset) ==
    chunks \subseteq 1..offset /\ (1..offset) \ chunks \subseteq dropped

\* What is past lastOffset is queued, in order, or was dropped.
Queue ==
    /\ lastOffset <= Posted
    /\ \A i \in DataAt : lastOffset < vtermCh[i].n /\ vtermCh[i].n <= Posted
    /\ \A i, j \in DataAt : i < j => vtermCh[i].n < vtermCh[j].n
    /\ \A k \in (lastOffset + 1)..Posted :
         k \in dropped \/ \E j \in DataAt : vtermCh[j].n = k

Pictures ==
    /\ Accounted(screen, lastOffset)
    /\ \A r \in Streams :
         /\ result[r] # NoResult => Accounted(result[r].chunks, result[r].offset)
         /\ st[r] = "snap" => Accounted(snap[r], start[r])

\* How far an output goroutine and its client are.
EndOf(r) ==
    /\ st[r] \in {"enqueue", "await", "snap", "first"} => out[r] = "none"
    /\ st[r] = "open" /\ out[r] \in {"read", "wait", "exit"} => sent[r] = cursor[r]
    /\ out[r] \in {"drain", "exit"} => Done /\ cursor[r] >= loggedAtDone
    /\ told[r] => st[r] = "open" /\ Done /\ out[r] = "none" /\ sent[r] >= loggedAtDone

Ends == \A r \in Streams : EndOf(r)

IInv == Types /\ StreamTypes /\ Queue /\ Pictures /\ Ends
-----------------------------------------------------------------------------
(* Frames *)

\* Queue only reads the reader's and the VTerm's state.
LEMMA QueueFrame ==
    ASSUME Queue, UNCHANGED <<logged, vtermCh, lastOffset, dropped>>, Posted' = Posted
    PROVE  Queue'
BY DEF Queue, DataAt

\* What Append and Tail do to a channel.
LEMMA Appended ==
    ASSUME NEW q \in Seq(Message), NEW m \in Message
    PROVE  /\ Append(q, m) \in Seq(Message) /\ Len(Append(q, m)) = Len(q) + 1
           /\ Append(q, m)[Len(q) + 1] = m
           /\ \A i \in 1..Len(q) : Append(q, m)[i] = q[i]
BY DEF Message

LEMMA Taken ==
    ASSUME NEW q \in Seq(Message), q # <<>>
    PROVE  /\ Len(q) \in Nat \ {0} /\ Head(q) = q[1] /\ Head(q) \in Message
           /\ Tail(q) \in Seq(Message) /\ Len(Tail(q)) = Len(q) - 1
           /\ \A i \in 1..(Len(q) - 1) : Tail(q)[i] = q[i + 1]
<1>1. /\ Head(q) \in Message /\ Tail(q) \in Seq(Message) /\ Len(Tail(q)) = Len(q) - 1
      /\ \A i \in 1..Len(Tail(q)) : Tail(q)[i] = q[i + 1]
    BY HeadTailProperties
<1>2. Len(q) \in Nat /\ Len(q) # 0 /\ Head(q) = q[1]
    BY EmptySeq
<1> QED
    BY <1>1, <1>2

\* Types only reads a stream's counter.
LEMMA TypesFrame ==
    ASSUME Types, UNCHANGED <<envVars, vtermVars>>, attaches' \in Nat
    PROVE  Types'
BY DEF Types, envVars, ptyVars, vtermVars

LEMMA InitIInv == Init => IInv
<1> SUFFICES ASSUME Init PROVE IInv
    OBVIOUS
<1> USE EggAssumption DEF EggAssumption
<1>1. Types
    BY DEF Init, Types
<1>2. StreamTypes
    BY DEF Init, StreamTypes
<1>3. Queue
  <2>1. Posted = 0 /\ lastOffset = 0
      BY DEF Init, Posted
  <2>2. DataAt = {}
      BY DEF Init, DataAt
  <2> QED
      BY <2>1, <2>2 DEF Queue
<1>4. Pictures
    BY DEF Init, Pictures, Accounted
<1>5. Ends
    BY DEF Init, Ends, EndOf
<1> QED
    BY <1>1, <1>2, <1>3, <1>4, <1>5 DEF IInv
-----------------------------------------------------------------------------
(* Types *)

LEMMA TypesKept ==
    ASSUME IInv, [Next]_vars
    PROVE  Types'
<1> USE EggAssumption DEF EggAssumption
<1>0. Types /\ StreamTypes /\ Queue
    BY DEF IInv
<1>1. CASE ProcessExits
    BY <1>0, <1>1 DEF Types, ProcessExits, vtermVars, streamVars
<1>2. CASE ReadPTY
    BY <1>0, <1>2 DEF Types, ReadPTY, vtermVars, streamVars
<1>3. CASE PostToVTerm
  <2> DEFINE m == [kind |-> "data", n |-> logged]
  <2>1. m \in Message
      BY <1>0 DEF Types, Message
  <2>2. Append(vtermCh, m) \in Seq(Message) /\ Len(Append(vtermCh, m)) = Len(vtermCh) + 1
      BY <1>0, <2>1, Appended DEF Types
  <2>3. vtermCh' \in Seq(Message) /\ Len(vtermCh') <= VtermCap
      BY <1>0, <1>3, <2>2 DEF Types, PostToVTerm
  <2>4. dropped' \subseteq 1..logged
    <3>1. logged \in Nat /\ logged > 0
        BY <1>0, <1>3 DEF Types, PostToVTerm
    <3>2. logged \in 1..logged
        BY ONLY <3>1
    <3>3. dropped' = dropped \/ dropped' = dropped \union {logged}
        BY <1>3 DEF PostToVTerm
    <3> QED
        BY <1>0, <3>2, <3>3 DEF Types
  <2>5. reader' = "read"
        /\ UNCHANGED <<egg, logged, unread, vloop, screen, lastOffset, attaches, loggedAtDone, resizes>>
      BY <1>3 DEF PostToVTerm, streamVars
  <2> QED
      BY <1>0, <2>3, <2>4, <2>5 DEF Types
<1>4. CASE ReaderStops
    BY <1>0, <1>4 DEF Types, ReaderStops, vtermVars, streamVars
<1>5. CASE WaiterStep
  <2>1. CASE CloseDone
    <3>1. logged \in Nat /\ logged' = logged /\ loggedAtDone' = logged
        BY <1>0, <2>1 DEF Types, CloseDone, ptyVars
    <3>2. loggedAtDone' \in 0..logged'
        BY <3>1
    <3> QED
        BY <1>0, <2>1, <3>2 DEF Types, CloseDone, ptyVars, vtermVars, streamVars
  <2>2. CASE ClosePTY \/ GracefulStop \/ Stopped
      BY <1>0, <2>2 DEF Types, ClosePTY, GracefulStop, Stopped, ptyVars, vtermVars, streamVars
  <2> QED
      BY <1>5, <2>1, <2>2 DEF WaiterStep
<1>6. CASE Render
  <2>1. /\ Head(vtermCh) \in Message /\ Head(vtermCh) = vtermCh[1] /\ Len(vtermCh) \in Nat \ {0}
        /\ vtermCh' \in Seq(Message) /\ Len(vtermCh') = Len(vtermCh) - 1
      BY <1>0, <1>6, Taken DEF Types, Render
  <2>2. ASSUME Head(vtermCh).kind = "data" PROVE Head(vtermCh).n \in 1..logged
    <3>1. 1 \in DataAt
        BY <2>1, <2>2 DEF DataAt
    <3>2. lastOffset < Head(vtermCh).n /\ Head(vtermCh).n <= Posted
        BY ONLY <1>0, <2>1, <3>1 DEF Queue
    <3>3. Head(vtermCh).n \in Nat /\ lastOffset \in Nat /\ logged \in Nat /\ Posted <= logged
        BY <1>0, <2>1 DEF Types, Message, Posted
    <3>4. Posted \in Int
        BY <3>3 DEF Posted
    <3> QED
        BY ONLY <3>2, <3>3, <3>4
  <2>3. screen' \subseteq 1..logged /\ lastOffset' \in 0..logged
    <3>1. CASE Head(vtermCh).kind = "data"
      <4>1. screen' = screen \union {Head(vtermCh).n} /\ lastOffset' = Head(vtermCh).n
          BY <1>6, <3>1 DEF Render
      <4>2. screen \subseteq 1..logged /\ logged \in Nat /\ Head(vtermCh).n \in 1..logged
          BY <1>0, <2>2, <3>1 DEF Types
      <4>3. Head(vtermCh).n \in 0..logged
          BY ONLY <4>2
      <4> QED
          BY ONLY <4>1, <4>2, <4>3
    <3>2. CASE Head(vtermCh).kind # "data"
        BY <1>0, <1>6, <3>2 DEF Types, Render
    <3> QED
        BY <3>1, <3>2
  <2>4. UNCHANGED <<egg, logged, unread, reader, vloop, dropped, attaches, loggedAtDone, resizes>>
      BY <1>6 DEF Render, ptyVars
  <2>5. Len(vtermCh') <= VtermCap
      BY <1>0, <2>1 DEF Types
  <2> QED
      BY <1>0, <2>1, <2>3, <2>4, <2>5 DEF Types
<1>7. CASE VTermStops
    BY <1>0, <1>7 DEF Types, VTermStops, ptyVars, streamVars
<1>8. CASE Resize
  <2> DEFINE m == [kind |-> "resize", n |-> resizes']
  <2>1. m \in Message /\ resizes' \in Nat
      BY <1>0, <1>8 DEF Types, Message, Resize
  <2>2. Append(vtermCh, m) \in Seq(Message) /\ Len(Append(vtermCh, m)) = Len(vtermCh) + 1
      BY <1>0, <2>1, Appended DEF Types
  <2>3. vtermCh' \in Seq(Message) /\ Len(vtermCh') <= VtermCap
      BY <1>0, <1>8, <2>2 DEF Types, Resize
  <2> QED
      BY <1>0, <1>8, <2>1, <2>3 DEF Types, Resize, ptyVars, streamVars
<1>9. ASSUME NEW r \in Streams, Opening(r) \/ FenceAnswers(r) \/ FallBack(r) \/ Open(r)
      PROVE  Types'
  <2>1. UNCHANGED <<envVars, vtermVars>>
      BY <1>9 DEF Opening, Attach, Start, FenceAnswers, FallBack, Open
  <2>2. attaches' = attaches \/ attaches' = attaches + 1
      BY <1>9 DEF Opening, Attach, Start, FenceAnswers, FallBack, Open
  <2> QED
      BY <1>0, <2>1, <2>2, TypesFrame DEF Types
<1>12. ASSUME NEW r \in Streams, EnqueueFence(r)
       PROVE  Types'
  <2> DEFINE m == [kind |-> "fence", n |-> fence[r]]
  <2>1. m \in Message
      BY <1>0 DEF Types, StreamTypes, Message
  <2>2. Append(vtermCh, m) \in Seq(Message) /\ Len(Append(vtermCh, m)) = Len(vtermCh) + 1
      BY <1>0, <2>1, Appended DEF Types
  <2>3. vtermCh' \in Seq(Message) /\ Len(vtermCh') <= VtermCap
      BY <1>0, <1>12, <2>2 DEF Types, EnqueueFence
  <2> QED
      BY <1>0, <1>12, <2>3 DEF Types, EnqueueFence, envVars, ptyVars
<1>10. ASSUME NEW r \in Streams, Leave(r) \/ Output(r)
       PROVE  Types'
    BY <1>0, <1>10 DEF Types, Leave, Output, ReadAfter, Notified, DrainAfterExit, SendSucceeds,
        OutputBreaks, SendExitCode, outFrame, envVars, vtermVars, ptyVars
<1>11. CASE UNCHANGED vars
    BY <1>0, <1>11 DEF Types, vars, ptyVars, vtermVars, streamVars
<1> QED
    BY <1>1, <1>2, <1>3, <1>4, <1>5, <1>6, <1>7, <1>8, <1>9, <1>10, <1>11, <1>12
    DEF Next, ReaderStep, VTermStep, Handshake, Finished
-----------------------------------------------------------------------------
(* StreamTypes *)

\* What every other step leaves alone.
LEMMA StreamTypesFrame ==
    ASSUME StreamTypes, UNCHANGED <<logged, streamVars>>
    PROVE  StreamTypes'
BY DEF StreamTypes, streamVars

\* The bounds of a stream's data only grow.
LEMMA StreamTypesGrow ==
    ASSUME StreamTypes, logged \in Nat, attaches \in Nat, logged' = logged + 1,
           UNCHANGED streamVars
    PROVE  StreamTypes'
<1>1. 1..logged \subseteq 1..logged' /\ 0..logged \subseteq 0..logged'
    OBVIOUS
<1>2. UNCHANGED <<st, fence, result, snap, start, out, cursor, sent, told, attaches>>
    BY DEF streamVars
<1>3. snap' \in [Streams -> SUBSET (1..logged')]
    BY <1>1, <1>2 DEF StreamTypes
<1>4. /\ start' \in [Streams -> 0..logged'] /\ cursor' \in [Streams -> 0..logged']
      /\ sent' \in [Streams -> 0..logged']
    BY <1>1, <1>2 DEF StreamTypes
<1>5. [chunks : SUBSET (1..logged), offset : 0..logged]
        \subseteq [chunks : SUBSET (1..logged'), offset : 0..logged']
    BY <1>1
<1>6. result' \in [Streams -> [chunks : SUBSET (1..logged'), offset : 0..logged']
                                 \union {NoResult}]
    BY <1>2, <1>5 DEF StreamTypes
<1> QED
    BY <1>2, <1>3, <1>4, <1>6 DEF StreamTypes

LEMMA StreamTypesKept ==
    ASSUME IInv, [Next]_vars
    PROVE  StreamTypes'
<1>0. StreamTypes /\ screen \subseteq 1..logged /\ lastOffset \in 0..logged
      /\ logged \in Nat /\ attaches \in Nat
    BY EggAssumption DEF IInv, Types, EggAssumption
<1>1. CASE ReadPTY
    BY <1>0, <1>1, StreamTypesGrow DEF ReadPTY
<1>2. CASE \/ ProcessExits \/ PostToVTerm \/ ReaderStops \/ WaiterStep
           \/ VTermStops \/ Resize \/ UNCHANGED vars
  <2>1. UNCHANGED <<logged, streamVars>>
      BY <1>2 DEF ProcessExits, PostToVTerm, ReaderStops, WaiterStep, CloseDone, ClosePTY,
          GracefulStop, Stopped, VTermStops, Resize, vars, ptyVars
  <2> QED
      BY <1>0, <2>1, StreamTypesFrame
<1>3. CASE Render
  <2>1. [chunks |-> screen, offset |-> lastOffset]
          \in [chunks : SUBSET (1..logged), offset : 0..logged]
      BY <1>0
  <2>2. result' \in [Streams -> [chunks : SUBSET (1..logged), offset : 0..logged]
                                   \union {NoResult}]
      BY <1>0, <1>3, <2>1 DEF Render, StreamTypes
  <2>3. UNCHANGED <<logged, st, fence, snap, start, out, cursor, sent, told, attaches>>
      BY <1>3 DEF Render, ptyVars
  <2> QED
      BY <1>0, <2>2, <2>3 DEF StreamTypes
<1>4. ASSUME NEW r \in Streams, Start(r)
      PROVE  StreamTypes'
  <2>1. 0..attaches \subseteq 0..attaches' /\ logged \in 0..logged
      BY <1>0, <1>4 DEF Start
  <2>2. fence' \in [Streams -> 0..attaches']
      BY <1>0, <1>4, <2>1 DEF Start, StreamTypes
  <2> QED
      BY <1>0, <1>4, <2>1, <2>2 DEF Start, StreamTypes, envVars, ptyVars
<1>5. ASSUME NEW r \in Streams, Attach(r)
      PROVE  StreamTypes'
  <2>1. /\ 0..attaches \subseteq 0..attaches' /\ attaches' \in 0..attaches'
        /\ logged \in 0..logged
      BY <1>0, <1>5 DEF Attach
  <2>2. fence' \in [Streams -> 0..attaches']
      BY <1>0, <1>5, <2>1 DEF Attach, StreamTypes
  <2>3. /\ st' \in [Streams -> {"none", "enqueue", "await", "snap", "first", "open"}]
        /\ start' \in [Streams -> 0..logged] /\ snap' \in [Streams -> SUBSET (1..logged)]
      BY <1>0, <1>5, <2>1 DEF Attach, StreamTypes
  <2>4. UNCHANGED <<logged, result, out, cursor, sent, told>>
      BY <1>5 DEF Attach, envVars, ptyVars
  <2> QED
      BY <1>0, <2>2, <2>3, <2>4 DEF StreamTypes
<1>6. ASSUME NEW r \in Streams, EnqueueFence(r)
      PROVE  StreamTypes'
    BY <1>0, <1>6 DEF EnqueueFence, StreamTypes, envVars, ptyVars
<1>7. ASSUME NEW r \in Streams, FenceAnswers(r)
      PROVE  StreamTypes'
  <2>1. result[r].chunks \subseteq 1..logged /\ result[r].offset \in 0..logged
      BY <1>0, <1>7 DEF FenceAnswers, StreamTypes
  <2>2. 0 \in 0..attaches
      BY <1>0
  <2> QED
      BY <1>0, <1>7, <2>1, <2>2 DEF FenceAnswers, StreamTypes, envVars, ptyVars
<1>8. ASSUME NEW r \in Streams, FallBack(r)
      PROVE  StreamTypes'
  <2>1. 0 \in 0..attaches /\ logged \in 0..logged
      BY <1>0
  <2> QED
      BY <1>0, <1>8, <2>1 DEF FallBack, StreamTypes, envVars, ptyVars
<1>9. ASSUME NEW r \in Streams, Open(r)
      PROVE  StreamTypes'
    BY <1>0, <1>9 DEF Open, StreamTypes, envVars, ptyVars
<1>10. ASSUME NEW r \in Streams, Leave(r)
       PROVE  StreamTypes'
  <2>1. 0 \in 0..logged
      BY <1>0
  <2> QED
      BY <1>0, <1>10, <2>1 DEF Leave, StreamTypes, envVars, ptyVars
<1>11. ASSUME NEW r \in Streams, Output(r)
       PROVE  StreamTypes'
  <2>1. logged \in 0..logged
      BY <1>0
  <2>2. UNCHANGED <<logged, st, fence, result, snap, start, attaches>>
      BY <1>11 DEF Output, ReadAfter, Notified, DrainAfterExit, SendSucceeds, OutputBreaks,
          SendExitCode, outFrame, envVars, ptyVars
  <2>3. out' \in [Streams -> {"none", "read", "send", "wait", "drain", "exit"}]
      BY <1>0, <1>11 DEF Output, ReadAfter, Notified, DrainAfterExit, SendSucceeds,
          OutputBreaks, SendExitCode, StreamTypes
  <2>4. cursor' \in [Streams -> 0..logged] /\ sent' \in [Streams -> 0..logged]
      BY <1>0, <1>11, <2>1 DEF Output, ReadAfter, Notified, DrainAfterExit, SendSucceeds,
          OutputBreaks, SendExitCode, StreamTypes
  <2>5. told' \in [Streams -> BOOLEAN]
      BY <1>0, <1>11 DEF Output, ReadAfter, Notified, DrainAfterExit, SendSucceeds,
          OutputBreaks, SendExitCode, StreamTypes
  <2> QED
      BY <1>0, <2>2, <2>3, <2>4, <2>5 DEF StreamTypes
<1> QED
    BY <1>1, <1>2, <1>3, <1>4, <1>5, <1>6, <1>7, <1>8, <1>9, <1>10, <1>11
    DEF Next, ReaderStep, VTermStep, Opening, Handshake, Finished
-----------------------------------------------------------------------------
(* Queue *)

LEMMA Beyond ==
    ASSUME NEW a \in Int, NEW b \in Int, a < b, NEW c \in Int, NEW k \in (b + 1)..c
    PROVE  k \in (a + 1)..c /\ k # b
OBVIOUS

\* A resize or a fence takes a place, and no chunk's.
LEMMA QueueOther ==
    ASSUME Queue, NEW m \in Message, m.kind # "data", vtermCh \in Seq(Message),
           vtermCh' = Append(vtermCh, m), UNCHANGED <<logged, lastOffset, dropped, reader>>
    PROVE  Queue'
<1>1. /\ Len(vtermCh) \in Nat /\ Len(vtermCh') = Len(vtermCh) + 1
      /\ vtermCh'[Len(vtermCh) + 1] = m
      /\ \A i \in 1..Len(vtermCh) : vtermCh'[i] = vtermCh[i]
    BY Appended, LenProperties
<1>2. DataAt' = DataAt
  <2>1. ASSUME NEW i PROVE i \in DataAt' <=> i \in DataAt
    <3>1. CASE i = Len(vtermCh) + 1
        BY <1>1, <3>1 DEF DataAt
    <3>2. CASE i # Len(vtermCh) + 1
        BY <1>1, <3>2 DEF DataAt
    <3> QED
        BY <3>1, <3>2
  <2> QED
      BY <2>1
<1>3. \A i \in DataAt : vtermCh'[i] = vtermCh[i]
    BY <1>1 DEF DataAt
<1>4. Posted' = Posted
    BY DEF Posted
<1>5. \A i \in DataAt : lastOffset' < vtermCh'[i].n /\ vtermCh'[i].n <= Posted
    BY <1>3 DEF Queue
<1>6. \A i, j \in DataAt : i < j => vtermCh'[i].n < vtermCh'[j].n
    BY <1>3 DEF Queue
<1>7. \A k \in (lastOffset' + 1)..Posted :
        k \in dropped' \/ \E j \in DataAt : vtermCh'[j].n = k
    BY <1>3 DEF Queue
<1>8. lastOffset' <= Posted
    BY DEF Queue
<1> QED
    BY <1>2, <1>4, <1>5, <1>6, <1>7, <1>8 DEF Queue

LEMMA QueueKept ==
    ASSUME IInv, [Next]_vars
    PROVE  Queue'
<1>0. Types /\ StreamTypes /\ Queue
    BY DEF IInv
<1>1. logged \in Nat /\ attaches \in Nat /\ resizes \in Nat /\ lastOffset \in Nat
      /\ vtermCh \in Seq(Message) /\ Len(vtermCh) \in Nat
    BY <1>0, EggAssumption DEF Types, EggAssumption
<1>2. CASE ReadPTY
  <2>1. Posted' = Posted
      BY <1>1, <1>2 DEF ReadPTY, Posted
  <2> QED
      BY <1>0, <1>2, <2>1 DEF ReadPTY, Queue, DataAt, vtermVars
<1>3. CASE PostToVTerm
  <2>1. Posted = logged - 1 /\ Posted' = logged /\ Posted' = Posted + 1 /\ Posted \in Int
      BY <1>1, <1>3 DEF PostToVTerm, Posted
  <2>2. UNCHANGED lastOffset /\ lastOffset <= Posted
      BY <1>0, <1>3 DEF PostToVTerm, Queue
  <2>3. CASE Len(vtermCh) < VtermCap
    <3> DEFINE m == [kind |-> "data", n |-> logged]
               N == Len(vtermCh) + 1
    <3>1. m \in Message /\ m.kind = "data" /\ m.n = logged
        BY <1>1 DEF Message
    <3>2. vtermCh' = Append(vtermCh, m) /\ dropped' = dropped
        BY <1>3, <2>3 DEF PostToVTerm
    <3>3. /\ Len(vtermCh') = N /\ vtermCh'[N] = m
          /\ \A i \in 1..Len(vtermCh) : vtermCh'[i] = vtermCh[i]
        BY <1>1, <3>1, <3>2, Appended
    <3>4. DataAt' = DataAt \union {N}
        BY <1>1, <3>1, <3>3 DEF DataAt
    <3>5. \A i \in DataAt : i \in Nat /\ i < N /\ vtermCh'[i] = vtermCh[i]
                            /\ vtermCh[i].n \in Nat
      <4>1. \A i \in DataAt : vtermCh[i] \in Message
          BY <1>1 DEF DataAt
      <4> QED
          BY <1>1, <3>3, <4>1 DEF DataAt, Message
    <3>6. ASSUME NEW i \in DataAt' PROVE lastOffset' < vtermCh'[i].n /\ vtermCh'[i].n <= Posted'
        BY <1>0, <1>1, <2>1, <2>2, <3>1, <3>3, <3>4, <3>5 DEF Queue
    <3>7. ASSUME NEW i \in DataAt', NEW j \in DataAt', i < j
          PROVE  vtermCh'[i].n < vtermCh'[j].n
      <4>1. i \in DataAt
          BY <3>4, <3>5, <3>7, <1>1
      <4>2. CASE j \in DataAt
          BY <1>0, <3>5, <3>7, <4>1, <4>2 DEF Queue
      <4>3. CASE j = N
        <5>1. vtermCh[i].n <= Posted /\ vtermCh[i].n \in Nat /\ vtermCh'[i].n = vtermCh[i].n
            BY <1>0, <3>5, <4>1 DEF Queue
        <5>2. vtermCh'[j].n = logged
            BY <3>1, <3>3, <4>3
        <5> QED
            BY ONLY <1>1, <2>1, <5>1, <5>2
      <4> QED
          BY <3>4, <4>2, <4>3
    <3>8. ASSUME NEW k \in (lastOffset' + 1)..Posted'
          PROVE  k \in dropped' \/ \E j \in DataAt' : vtermCh'[j].n = k
      <4>1. k \in (lastOffset + 1)..Posted \/ k = logged
          BY <1>1, <2>1, <2>2
      <4>2. CASE k = logged
          BY <3>1, <3>3, <3>4, <4>2
      <4>3. CASE k \in (lastOffset + 1)..Posted
          BY <1>0, <3>2, <3>4, <3>5, <4>3 DEF Queue
      <4> QED
          BY <4>1, <4>2, <4>3
    <3>9. lastOffset' <= Posted'
        BY ONLY <1>1, <2>1, <2>2
    <3> QED
        BY <3>6, <3>7, <3>8, <3>9 DEF Queue
  <2>4. CASE ~(Len(vtermCh) < VtermCap)
    <3>1. vtermCh' = vtermCh /\ dropped' = dropped \union {logged}
        BY <1>3, <2>4 DEF PostToVTerm
    <3>2. DataAt' = DataAt
        BY <3>1 DEF DataAt
    <3>3. ASSUME NEW i \in DataAt
          PROVE  lastOffset' < vtermCh'[i].n /\ vtermCh'[i].n <= Posted'
      <4>1. vtermCh[i] \in Message
          BY <1>1 DEF DataAt
      <4>2. vtermCh[i].n \in Nat /\ lastOffset < vtermCh[i].n /\ vtermCh[i].n <= Posted
          BY <1>0, <4>1 DEF Queue, Message
      <4> QED
          BY <2>1, <2>2, <3>1, <4>2
    <3>4. ASSUME NEW k \in (lastOffset' + 1)..Posted'
          PROVE  k \in dropped' \/ \E j \in DataAt : vtermCh'[j].n = k
      <4>1. k \in (lastOffset + 1)..Posted \/ k = logged
          BY <1>1, <2>1, <2>2
      <4> QED
          BY <1>0, <3>1, <4>1 DEF Queue
    <3>5. lastOffset' <= Posted'
        BY ONLY <1>1, <2>1, <2>2
    <3> QED
        BY <1>0, <3>1, <3>2, <3>3, <3>4, <3>5 DEF Queue
  <2> QED
      BY <2>3, <2>4
<1>4. CASE Render
  <2>1. /\ Head(vtermCh) = vtermCh[1] /\ Head(vtermCh) \in Message /\ Len(vtermCh) \in Nat \ {0}
        /\ vtermCh' \in Seq(Message) /\ Len(vtermCh') = Len(vtermCh) - 1
        /\ \A i \in 1..(Len(vtermCh) - 1) : vtermCh'[i] = vtermCh[i + 1]
      BY <1>1, <1>4, Taken DEF Render
  <2>2. UNCHANGED <<logged, dropped>> /\ Posted' = Posted /\ Posted \in Int
      BY <1>1, <1>4 DEF Render, ptyVars, Posted
  <2>3. ASSUME NEW i \in DataAt'
        PROVE  i \in Nat /\ i + 1 \in DataAt /\ 1 < i + 1 /\ vtermCh'[i] = vtermCh[i + 1]
      BY <2>1 DEF DataAt
  <2>4. ASSUME NEW i \in DataAt, i # 1
        PROVE  i \in Nat /\ 1 < i /\ i - 1 \in DataAt' /\ vtermCh'[i - 1] = vtermCh[i]
      BY <2>1, <2>4 DEF DataAt
  <2>5. ASSUME NEW i \in DataAt PROVE vtermCh[i].n \in Nat
    <3>1. vtermCh[i] \in Message
        BY <1>1 DEF DataAt
    <3> QED
        BY <3>1 DEF Message
  <2>6. ASSUME NEW i \in DataAt', NEW j \in DataAt', i < j
        PROVE  vtermCh'[i].n < vtermCh'[j].n
    <3>1. i + 1 \in DataAt /\ j + 1 \in DataAt /\ i + 1 < j + 1
        BY <2>3, <2>6
    <3> QED
        BY <1>0, <2>3, <3>1 DEF Queue
  <2>7. CASE Head(vtermCh).kind = "data"
    <3>1. 1 \in DataAt /\ lastOffset' = vtermCh[1].n
        BY <1>4, <2>1, <2>7 DEF DataAt, Render
    <3>2. lastOffset < lastOffset' /\ lastOffset' <= Posted /\ lastOffset' \in Nat
        BY <1>0, <2>5, <3>1 DEF Queue
    <3>3. ASSUME NEW i \in DataAt'
          PROVE  lastOffset' < vtermCh'[i].n /\ vtermCh'[i].n <= Posted'
      <4> DEFINE j == i + 1
      <4>1. j \in DataAt /\ 1 < j /\ vtermCh'[i] = vtermCh[j]
          BY <2>3, <3>3
      <4> HIDE DEF j
      <4>2. vtermCh[1].n < vtermCh[j].n /\ vtermCh[j].n <= Posted
        <5>1. \A x, y \in DataAt : x < y => vtermCh[x].n < vtermCh[y].n
            BY <1>0 DEF Queue
        <5>2. vtermCh[j].n <= Posted
            BY <1>0, <4>1 DEF Queue
        <5> QED
            BY ONLY <3>1, <4>1, <5>1, <5>2
      <4> QED
          BY <2>2, <3>1, <4>1, <4>2
    <3>4. ASSUME NEW k \in (lastOffset' + 1)..Posted
          PROVE  k \in dropped' \/ \E j \in DataAt' : vtermCh'[j].n = k
      <4>1. k \in (lastOffset + 1)..Posted /\ k # lastOffset'
        <5>1. /\ lastOffset \in Int /\ lastOffset' \in Int /\ Posted \in Int
              /\ lastOffset < lastOffset'
            BY <1>1, <2>2, <3>2
        <5> QED
            BY <3>4, <5>1, Beyond
      <4>2. CASE k \in dropped
          BY <2>2, <4>2
      <4>3. ASSUME NEW j \in DataAt, vtermCh[j].n = k
            PROVE  \E i \in DataAt' : vtermCh'[i].n = k
        <5>1. j # 1
            BY <3>1, <4>1, <4>3
        <5> QED
            BY <2>4, <4>3, <5>1
      <4> QED
          BY <1>0, <4>1, <4>2, <4>3 DEF Queue
    <3>5. lastOffset' <= Posted'
        BY <2>2, <3>2
    <3> QED
        BY <2>2, <2>6, <3>3, <3>4, <3>5 DEF Queue
  <2>8. CASE Head(vtermCh).kind # "data"
    <3>1. 1 \notin DataAt /\ lastOffset' = lastOffset
        BY <1>4, <2>1, <2>8 DEF DataAt, Render
    <3>2. ASSUME NEW i \in DataAt'
          PROVE  lastOffset' < vtermCh'[i].n /\ vtermCh'[i].n <= Posted'
        BY <1>0, <2>2, <2>3, <3>1 DEF Queue
    <3>3. ASSUME NEW k \in (lastOffset' + 1)..Posted'
          PROVE  k \in dropped' \/ \E j \in DataAt' : vtermCh'[j].n = k
      <4>1. ASSUME NEW j \in DataAt, vtermCh[j].n = k
            PROVE  \E i \in DataAt' : vtermCh'[i].n = k
          BY <2>4, <3>1, <4>1
      <4> QED
          BY <1>0, <2>2, <3>1, <4>1 DEF Queue
    <3> QED
        BY <1>0, <2>2, <2>6, <3>1, <3>2, <3>3 DEF Queue
  <2> QED
      BY <2>7, <2>8
<1>5. CASE Resize
  <2> DEFINE m == [kind |-> "resize", n |-> resizes']
  <2>1. m \in Message /\ m.kind # "data"
      BY <1>1, <1>5 DEF Resize, Message
  <2>2. UNCHANGED <<logged, lastOffset, dropped, reader>>
      BY <1>5 DEF Resize, ptyVars
  <2>3. vtermCh' = Append(vtermCh, m) \/ vtermCh' = vtermCh
      BY <1>5 DEF Resize
  <2>4. CASE vtermCh' = Append(vtermCh, m)
      BY <1>0, <1>1, <2>1, <2>2, <2>4, QueueOther
  <2>5. CASE vtermCh' = vtermCh
      BY <1>0, <2>2, <2>5, QueueFrame DEF Posted
  <2> QED
      BY <2>3, <2>4, <2>5
<1>6. ASSUME NEW r \in Streams, EnqueueFence(r)
      PROVE  Queue'
  <2> DEFINE m == [kind |-> "fence", n |-> fence[r]]
  <2>1. m \in Message /\ m.kind # "data"
      BY <1>0, <1>1 DEF StreamTypes, Message
  <2>2. UNCHANGED <<logged, lastOffset, dropped, reader>> /\ vtermCh' = Append(vtermCh, m)
      BY <1>6 DEF EnqueueFence, envVars, ptyVars
  <2> QED
      BY <1>0, <1>1, <2>1, <2>2, QueueOther
<1>7. CASE ReaderStops
    BY <1>0, <1>7, QueueFrame DEF ReaderStops, Posted, vtermVars
<1>8. CASE ProcessExits \/ WaiterStep \/ VTermStops \/ UNCHANGED vars
  <2>1. UNCHANGED <<logged, reader, vtermCh, lastOffset, dropped>>
      BY <1>8 DEF ProcessExits, WaiterStep, CloseDone, ClosePTY, GracefulStop, Stopped,
          VTermStops, vars, ptyVars, vtermVars
  <2> QED
      BY <1>0, <2>1, QueueFrame DEF Posted
<1>9. ASSUME NEW r \in Streams,
             \/ Opening(r) \/ FenceAnswers(r) \/ FallBack(r) \/ Open(r)
             \/ Leave(r) \/ Output(r)
      PROVE  Queue'
  <2>1. UNCHANGED <<logged, reader, vtermCh, lastOffset, dropped>>
      BY <1>9 DEF Opening, Attach, Start, FenceAnswers, FallBack, Open, Leave, Output, ReadAfter,
          Notified, DrainAfterExit, SendSucceeds, OutputBreaks, SendExitCode, outFrame,
          envVars, ptyVars, vtermVars
  <2> QED
      BY <1>0, <2>1, QueueFrame DEF Posted
<1> QED
    BY <1>2, <1>3, <1>4, <1>5, <1>6, <1>7, <1>8, <1>9
    DEF Next, ReaderStep, VTermStep, Handshake, Finished
-----------------------------------------------------------------------------
(* Pictures *)

LEMMA PicturesFrame ==
    ASSUME Pictures, UNCHANGED <<screen, lastOffset, result, st, snap, start>>,
           dropped \subseteq dropped'
    PROVE  Pictures'
BY DEF Pictures, Accounted

LEMMA PicturesKept ==
    ASSUME IInv, [Next]_vars
    PROVE  Pictures'
<1>0. Types /\ StreamTypes /\ Queue /\ Pictures
    BY DEF IInv
<1>1. CASE \/ ProcessExits \/ ReadPTY \/ PostToVTerm \/ ReaderStops \/ WaiterStep
           \/ VTermStops \/ Resize \/ UNCHANGED vars
  <2>1. UNCHANGED <<screen, lastOffset, result, st, snap, start>>
      BY <1>1 DEF ProcessExits, ReadPTY, PostToVTerm, ReaderStops, WaiterStep, CloseDone,
          ClosePTY, GracefulStop, Stopped, VTermStops, Resize, vars, vtermVars, streamVars
  <2>2. dropped \subseteq dropped'
      BY <1>1 DEF ProcessExits, ReadPTY, PostToVTerm, ReaderStops, WaiterStep, CloseDone,
          ClosePTY, GracefulStop, Stopped, VTermStops, Resize, vars, vtermVars
  <2> QED
      BY <1>0, <2>1, <2>2, PicturesFrame
<1>2. CASE Render
  <2>1. UNCHANGED <<st, snap, start, dropped>>
      BY <1>2 DEF Render
  <2>2. Accounted(screen, lastOffset) /\ lastOffset \in Nat
      BY <1>0 DEF Pictures, Types
  <2>3. Accounted(screen', lastOffset')
    <3>1. CASE Head(vtermCh).kind = "data"
      <4>1. /\ Head(vtermCh) = vtermCh[1] /\ vtermCh[1] \in Message
            /\ vtermCh \in Seq(Message) /\ Len(vtermCh) \in Nat \ {0}
          BY <1>0, <1>2, Taken DEF Types, Render
      <4> DEFINE n == vtermCh[1].n
      <4>2. screen' = screen \union {n} /\ lastOffset' = n /\ n \in Nat
          BY <1>2, <3>1, <4>1 DEF Render, Message
      <4>3. 1 \in DataAt
          BY <3>1, <4>1 DEF DataAt
      <4>4. lastOffset < n /\ n <= Posted /\ Posted \in Int
          BY <1>0, <4>3, EggAssumption DEF Queue, Posted, Types, EggAssumption
      <4>5. \A j \in DataAt : j # 1 => n < vtermCh[j].n
        <5>1. \A j \in DataAt : j # 1 => 1 < j
            BY <4>1 DEF DataAt
        <5> QED
            BY <1>0, <4>3, <5>1 DEF Queue
      <4> HIDE DEF n
      <4>6. ASSUME NEW k \in 1..n, k \notin screen' PROVE k \in dropped
        <5>1. k < n /\ k \notin screen
            BY <4>2, <4>6
        <5>2. CASE k <= lastOffset
            BY <2>2, <5>1, <5>2 DEF Accounted
        <5>3. CASE k > lastOffset
          <6>1. k \in (lastOffset + 1)..Posted
              BY <2>2, <4>2, <4>4, <5>1, <5>3
          <6>2. \A j \in DataAt : vtermCh[j].n # k
              BY <4>2, <4>5, <5>1 DEF n
          <6> QED
              BY <1>0, <6>1, <6>2 DEF Queue
        <5> QED
            BY <2>2, <5>2, <5>3
      <4>7. screen' \subseteq 1..n
        <5>1. screen \subseteq 1..lastOffset
            BY <2>2 DEF Accounted
        <5>2. 1..lastOffset \subseteq 1..n /\ n \in 1..n
            BY <2>2, <4>2, <4>4
        <5> QED
            BY <4>2, <5>1, <5>2
      <4> QED
          BY <4>2, <4>6, <4>7 DEF Accounted
    <3>2. CASE Head(vtermCh).kind # "data"
        BY <1>2, <2>2, <3>2 DEF Render
    <3> QED
        BY <3>1, <3>2
  <2>4. ASSUME NEW r \in Streams, result'[r] # NoResult
        PROVE  Accounted(result'[r].chunks, result'[r].offset)
    <3>1. CASE result'[r] = result[r]
        BY <1>0, <2>4, <3>1 DEF Pictures
    <3>2. CASE result'[r] = [chunks |-> screen, offset |-> lastOffset]
        BY <2>2, <3>2
    <3> QED
        BY <1>2, <3>1, <3>2 DEF Render
  <2>5. Accounted(screen, lastOffset)' /\ \A r \in Streams :
          /\ result'[r] # NoResult => Accounted(result[r].chunks, result[r].offset)'
          /\ st'[r] = "snap" => Accounted(snap[r], start[r])'
      BY <1>0, <2>1, <2>3, <2>4 DEF Pictures, Accounted
  <2> QED
      BY <2>5 DEF Pictures
<1>3. ASSUME NEW r \in Streams, Start(r) \/ EnqueueFence(r) \/ Open(r) \/ Leave(r) \/ Output(r)
      PROVE  Pictures'
  <2>1. UNCHANGED <<screen, lastOffset, dropped, result>>
      BY <1>3 DEF Start, EnqueueFence, Open, Leave, Output, ReadAfter, Notified, DrainAfterExit,
          SendSucceeds, OutputBreaks, SendExitCode, outFrame, vtermVars
  <2>2. ASSUME NEW q \in Streams, st'[q] = "snap"
        PROVE  st[q] = "snap" /\ snap'[q] = snap[q] /\ start'[q] = start[q]
      BY <1>0, <1>3, <2>2 DEF StreamTypes, Start, EnqueueFence, Open, Leave, Output, ReadAfter,
          Notified, DrainAfterExit, SendSucceeds, OutputBreaks, SendExitCode, outFrame
  <2> QED
      BY <1>0, <2>1, <2>2 DEF Pictures, Accounted
<1>4. ASSUME NEW r \in Streams, Attach(r) \/ FallBack(r) \/ FenceAnswers(r)
      PROVE  Pictures'
  <2>1. UNCHANGED <<screen, lastOffset, dropped>>
      BY <1>4 DEF Attach, FallBack, FenceAnswers, vtermVars
  <2>2. ASSUME NEW q \in Streams
        PROVE  result'[q] = result[q] \/ result'[q] = NoResult
      BY <1>0, <1>4 DEF StreamTypes, Attach, FallBack, FenceAnswers
  <2>3. ASSUME NEW q \in Streams, st'[q] = "snap"
        PROVE  Accounted(snap'[q], start'[q])
    <3>1. CASE q # r
      <4>1. st'[q] = st[q] /\ snap'[q] = snap[q] /\ start'[q] = start[q]
          BY <1>0, <1>4, <3>1 DEF StreamTypes, Attach, FallBack, FenceAnswers
      <4> QED
          BY <1>0, <2>3, <4>1 DEF Pictures
    <3>2. CASE q = r
      <4>1. CASE snap'[r] = 1..logged /\ start'[r] = logged
          BY <3>2, <4>1 DEF Accounted
      <4>2. CASE FenceAnswers(r)
        <5>1. snap'[r] = result[r].chunks /\ start'[r] = result[r].offset /\ result[r] # NoResult
            BY <1>0, <4>2 DEF StreamTypes, FenceAnswers
        <5> QED
            BY <1>0, <3>2, <5>1 DEF Pictures
      <4>3. CASE Attach(r) \/ FallBack(r)
        <5>1. snap'[r] = 1..logged /\ start'[r] = logged
            BY <1>0, <2>3, <3>2, <4>3 DEF StreamTypes, Attach, FallBack
        <5> QED
            BY <4>1, <5>1
      <4> QED
          BY <1>4, <4>2, <4>3
    <3> QED
        BY <3>1, <3>2
  <2> QED
      BY <1>0, <2>1, <2>2, <2>3 DEF Pictures, Accounted
<1> QED
    BY <1>1, <1>2, <1>3, <1>4
    DEF Next, ReaderStep, VTermStep, Opening, Handshake, Finished
-----------------------------------------------------------------------------
(* Ends *)

\* A step that touches no stream, and closes `done` at most.
LEMMA EndsFrame ==
    ASSUME Ends, UNCHANGED <<st, out, cursor, sent, told>>,
           \/ UNCHANGED loggedAtDone /\ (Done => Done')
           \/ ~Done
    PROVE  Ends'
BY DEF Ends, EndOf

\* A step of one stream leaves the others where they are.
LEMMA OneEnd ==
    ASSUME Ends, NEW r \in Streams, UNCHANGED envVars, EndOf(r)',
           \A q \in Streams \ {r} :
               /\ st'[q] = st[q] /\ out'[q] = out[q] /\ cursor'[q] = cursor[q]
               /\ sent'[q] = sent[q] /\ told'[q] = told[q]
    PROVE  Ends'
BY DEF Ends, EndOf, envVars, Done

LEMMA EndsKept ==
    ASSUME IInv, [Next]_vars
    PROVE  Ends'
<1>0. StreamTypes /\ Ends /\ loggedAtDone \in 0..logged /\ logged \in Nat
    BY EggAssumption DEF IInv, Types, EggAssumption
<1>1. CASE ProcessExits \/ ReadPTY \/ PostToVTerm \/ ReaderStops \/ VTermStep \/ Resize
           \/ ClosePTY \/ GracefulStop \/ Stopped \/ UNCHANGED vars
  <2>1. UNCHANGED <<st, out, cursor, sent, told, loggedAtDone>>
      BY <1>1 DEF ProcessExits, ReadPTY, PostToVTerm, ReaderStops, VTermStep, Render, VTermStops,
          Resize, ClosePTY, GracefulStop, Stopped, vars, streamVars
  <2>2. Done => Done'
      BY <1>1 DEF ProcessExits, ReadPTY, PostToVTerm, ReaderStops, VTermStep, Render, VTermStops,
          Resize, ClosePTY, GracefulStop, Stopped, vars, Done
  <2> QED
      BY <1>0, <2>1, <2>2, EndsFrame
<1>2. CASE CloseDone
    BY <1>0, <1>2, EndsFrame DEF CloseDone, Done, streamVars
<1>3. ASSUME NEW r \in Streams, EnqueueFence(r)
      PROVE  Ends'
  <2>1. EndOf(r)' /\ UNCHANGED envVars
      BY <1>0, <1>3 DEF Ends, EndOf, EnqueueFence, StreamTypes, Done, envVars
  <2> QED
      BY <1>0, <1>3, <2>1, OneEnd DEF EnqueueFence, StreamTypes
<1>4. ASSUME NEW r \in Streams, Opening(r) \/ FenceAnswers(r) \/ FallBack(r)
      PROVE  Ends'
  <2>1. UNCHANGED <<envVars, out, cursor, sent, told>>
      BY <1>4 DEF Opening, Attach, Start, FenceAnswers, FallBack
  <2>2. /\ st' \in [Streams -> {"none", "enqueue", "await", "snap", "first", "open"}]
        /\ \A q \in Streams \ {r} : st'[q] = st[q]
        /\ out[r] = "none" /\ st'[r] \in {"enqueue", "snap", "first"}
      BY <1>0, <1>4 DEF Ends, EndOf, Opening, Attach, Start, FenceAnswers, FallBack, StreamTypes
  <2>3. ~told[r]
      BY <1>0, <1>4 DEF Ends, EndOf, Opening, Attach, Start, FenceAnswers, FallBack
  <2>4. EndOf(r)'
      BY <2>1, <2>2, <2>3 DEF EndOf
  <2> QED
      BY <1>0, <2>1, <2>2, <2>4, OneEnd
<1>5. ASSUME NEW r \in Streams, Open(r)
      PROVE  Ends'
  <2>1. /\ UNCHANGED envVars
        /\ st'[r] = "open" /\ out'[r] = "read" /\ cursor'[r] = start[r] /\ sent'[r] = start[r]
        /\ told'[r] = told[r] /\ ~told[r]
      BY <1>0, <1>5 DEF Ends, EndOf, Open, StreamTypes
  <2>2. EndOf(r)'
      BY <2>1 DEF EndOf
  <2> QED
      BY <1>0, <1>5, <2>1, <2>2, OneEnd DEF Open, StreamTypes
<1>6. ASSUME NEW r \in Streams, Leave(r)
      PROVE  Ends'
  <2>1. /\ UNCHANGED <<envVars, out, cursor>> /\ st'[r] = "none" /\ ~told'[r]
      BY <1>0, <1>6 DEF Leave, StreamTypes
  <2>2. EndOf(r)'
      BY <1>0, <2>1 DEF Ends, EndOf, Done, envVars
  <2> QED
      BY <1>0, <1>6, <2>1, <2>2, OneEnd DEF Leave, StreamTypes
<1>7. ASSUME NEW r \in Streams, Output(r)
      PROVE  Ends'
  <2>1. UNCHANGED <<envVars, st>>
      BY <1>7 DEF Output, ReadAfter, Notified, DrainAfterExit, SendSucceeds, OutputBreaks,
          SendExitCode, outFrame
  <2>2. \A q \in Streams \ {r} :
            out'[q] = out[q] /\ cursor'[q] = cursor[q] /\ sent'[q] = sent[q] /\ told'[q] = told[q]
      BY <1>0, <1>7 DEF Output, ReadAfter, Notified, DrainAfterExit, SendSucceeds, OutputBreaks,
          SendExitCode, StreamTypes
  <2>3. /\ UNCHANGED <<egg, loggedAtDone>> /\ (Done' <=> Done)
        /\ loggedAtDone <= logged /\ cursor[r] \in 0..logged /\ out[r] # "none"
        /\ EndOf(r) /\ ~told[r]
      BY <1>0, <1>7, <2>1 DEF StreamTypes, Ends, EndOf, envVars, Done, Output, ReadAfter, Notified,
          DrainAfterExit, SendSucceeds, OutputBreaks, SendExitCode
  <2>4. EndOf(r)'
    <3>1. CASE ReadAfter(r)
      <4>1. /\ out[r] = "read" /\ ~told'[r] /\ sent'[r] = sent[r] /\ cursor'[r] = logged
            /\ \/ out'[r] = "send"
               \/ out'[r] = "wait" /\ ~(cursor[r] < logged)
          BY <1>0, <2>3, <3>1 DEF ReadAfter, StreamTypes
      <4>2. out'[r] = "wait" => cursor'[r] = cursor[r]
          BY <1>0, <2>3, <4>1
      <4> QED
          BY <2>1, <2>3, <4>1, <4>2 DEF EndOf
    <3>2. CASE Notified(r)
        BY <1>0, <2>1, <2>3, <3>2 DEF Notified, StreamTypes, EndOf
    <3>3. CASE DrainAfterExit(r)
      <4>1. /\ out[r] = "wait" /\ Done /\ ~told'[r] /\ sent'[r] = sent[r] /\ cursor'[r] = logged
            /\ \/ out'[r] = "drain"
               \/ out'[r] = "exit" /\ ~(cursor[r] < logged)
          BY <1>0, <2>3, <3>3 DEF DrainAfterExit, StreamTypes
      <4>2. out'[r] = "exit" => cursor'[r] = cursor[r]
          BY <1>0, <2>3, <4>1
      <4>3. cursor'[r] >= loggedAtDone'
          BY <1>0, <2>3, <4>1
      <4> QED
          BY <2>1, <2>3, <4>1, <4>2, <4>3 DEF EndOf
    <3>4. CASE SendSucceeds(r)
      <4>1. /\ ~told'[r] /\ sent'[r] = cursor[r] /\ cursor'[r] = cursor[r]
            /\ \/ out[r] = "send" /\ out'[r] = "read"
               \/ out[r] = "drain" /\ out'[r] = "exit"
          BY <1>0, <2>3, <3>4 DEF SendSucceeds, StreamTypes
      <4> QED
          BY <2>1, <2>3, <3>4, <4>1 DEF EndOf, SendSucceeds
    <3>5. CASE OutputBreaks(r)
      <4>1. out'[r] = "none" /\ ~told'[r]
          BY <1>0, <2>3, <3>5 DEF OutputBreaks, StreamTypes
      <4> QED
          BY <4>1 DEF EndOf
    <3>6. CASE SendExitCode(r)
      <4>1. /\ out[r] = "exit" /\ st[r] = "open" /\ st'[r] = "open" /\ out'[r] = "none"
            /\ sent'[r] = sent[r]
          BY <1>0, <2>1, <3>6 DEF SendExitCode, StreamTypes
      <4>2. Done /\ sent[r] = cursor[r] /\ cursor[r] >= loggedAtDone
          BY <2>3, <4>1 DEF EndOf
      <4> QED
          BY <2>3, <4>1, <4>2 DEF EndOf
    <3> QED
        BY <1>7, <3>1, <3>2, <3>3, <3>4, <3>5, <3>6 DEF Output
  <2> QED
      BY <1>0, <2>1, <2>2, <2>4, OneEnd
<1> QED
    BY <1>1, <1>2, <1>3, <1>4, <1>5, <1>6, <1>7
    DEF Next, ReaderStep, WaiterStep, Handshake, Finished
-----------------------------------------------------------------------------
(* The theorems *)

LEMMA Invariance == Spec => []IInv
<1>1. IInv /\ [Next]_vars => IInv'
    BY TypesKept, StreamTypesKept, QueueKept, PicturesKept, EndsKept DEF IInv
<1> QED
    BY <1>1, InitIInv, PTL DEF Spec

\* vtermCh never holds more than its capacity, and no cursor, offset or
\* snapshot is ahead of what readPTY wrote (readPTY, Session, runVTermLoop).
THEOREM TypeCorrect == Spec => []TypeOK
<1>1. IInv => TypeOK
  <2> SUFFICES ASSUME IInv PROVE TypeOK
      OBVIOUS
  <2>1. Types /\ StreamTypes
      BY DEF IInv
  <2>2. logged \in Nat
      BY <2>1, EggAssumption DEF Types, EggAssumption
  <2>3. \A r \in Streams : /\ snap[r] \subseteq 1..logged /\ start[r] \in 0..logged
                           /\ cursor[r] \in 0..logged /\ sent[r] \in 0..logged
                           /\ told[r] \in BOOLEAN /\ fence[r] \in 0..attaches
      BY <2>1 DEF StreamTypes
  <2> QED
      BY <2>1, <2>2, <2>3 DEF TypeOK, Types, StreamTypes
<1> QED
    BY <1>1, Invariance, PTL

\* However many streams attach, detach and time out while the VTerm renders,
\* a snapshot shows nothing past its offset, and all below it except what
\* readPTY dropped (Session's fence, runVTermLoop).
THEOREM SnapshotIsAccounted == Spec => []SnapshotAccounted
<1>1. IInv => SnapshotAccounted
    BY DEF IInv, Pictures, Accounted, SnapshotAccounted, HasSnapshot
<1> QED
    BY <1>1, Invariance, PTL

\* However a stream's reads, the wakeups and `done` interleave, the exit code
\* comes after all that was logged when `done` was closed (Session's output
\* goroutine).
THEOREM ExitFollowsOutput == Spec => []ExitAfterLogged
<1>1. IInv => ExitAfterLogged
    BY DEF IInv, Ends, EndOf, ExitAfterLogged
<1> QED
    BY <1>1, Invariance, PTL
=============================================================================
