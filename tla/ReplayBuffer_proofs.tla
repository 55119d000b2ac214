------------------------ MODULE ReplayBuffer_proofs ------------------------
(***************************************************************************)
(* Theorems about ReplayBuffer, for any number of readers and any sizes.    *)
(* IInv is the inductive invariant; the safety properties of the module are *)
(* conjuncts of it.                                                         *)
(***************************************************************************)
EXTENDS ReplayBuffer, SequenceTheorems, TLAPS

\* What holds of one stream: its offsets are in order and it was handed
\* nothing past its cursor,
OffsetsOf(r) ==
    /\ session[r] = "snap" => start[r] <= WritePosition
    /\ session[r] = "open" => start[r] <= cursor[r] /\ cursor[r] <= WritePosition
    /\ \A i \in DOMAIN got[r] : got[r][i] <= cursor[r]

\* its history begins when it is registered,
HistoryOf(r) == session[r] # "open" => got[r] = <<>> /\ missed[r] = {}

\* and UnreadKept, NoReorder and ExactDelivery hold of it.
UnreadOf(r) ==
    session[r] = "open" =>
        \A n \in (cursor[r] + 1)..WritePosition : InBuffer(n) \/ n \in missed[r]

OrderOf(r) ==
    \A i, j \in DOMAIN got[r] :
        i < j /\ got[r][i] # 0 /\ got[r][j] # 0 => got[r][i] < got[r][j]

ExactOf(r) ==
    session[r] = "open" /\ missed[r] = {}
        => got[r] = [i \in 1..(cursor[r] - start[r]) |-> start[r] + i]

ReaderInv(r) ==
    OffsetsOf(r) /\ HistoryOf(r) /\ UnreadOf(r) /\ OrderOf(r) /\ ExactOf(r)

IInv ==
    /\ TypeOK
    /\ ReplayIsSuffix
    /\ BufferBounded
    /\ \A r \in Readers : ReaderInv(r)
-----------------------------------------------------------------------------
(* Parts of the buffer, and the buffer with the pending chunk appended *)

\* What is left of b after its first k cells.
Rest(b, k) == SubSeq(b, k + 1, Len(b))

LEMMA RestProperties ==
    ASSUME NEW b \in Seq(Nat), NEW k \in 0..Len(b)
    PROVE  /\ Rest(b, k) \in Seq(Nat)
           /\ Len(Rest(b, k)) = Len(b) - k
           /\ \A i \in 1..(Len(b) - k) : Rest(b, k)[i] = b[k + i]
<1>1. Len(b) \in Nat /\ k \in Nat /\ \A i \in 1..Len(b) : b[i] \in Nat
  BY ElementOfSeq, LenProperties
<1> DEFINE q == SubSeq(b, k + 1, Len(b))
<1>2. /\ q \in Seq(Nat)
      /\ Len(q) = IF k + 1 <= Len(b) THEN Len(b) - (k + 1) + 1 ELSE 0
      /\ \A i \in 1..(Len(b) - (k + 1) + 1) : q[i] = b[(k + 1) + i - 1]
  <2>1. k + 1 \in Int /\ Len(b) \in Int
    BY <1>1
  <2>2. \A i \in (k + 1)..Len(b) : b[i] \in Nat
    BY <1>1
  <2> QED  BY ONLY <2>1, <2>2, SubSeqProperties
<1>3. \A i \in 1..(Len(b) - k) :
         i \in 1..(Len(b) - (k + 1) + 1) /\ (k + 1) + i - 1 = k + i
  BY <1>1
<1> HIDE DEF q
<1>4. /\ q \in Seq(Nat)
      /\ Len(q) = Len(b) - k
      /\ \A i \in 1..(Len(b) - k) : q[i] = b[k + i]
  BY <1>1, <1>2, <1>3
<1> QED  BY <1>4 DEF q, Rest

\* Appending the chunk keeps the buffer's shape: every cell is a preamble
\* byte or the output byte of its own offset, preamble bytes first.
LEMMA AppendedShape ==
    ASSUME TypeOK, ReplayIsSuffix
    PROVE  /\ Appended \in Seq(Nat)
           /\ Len(Appended) = Len(buf) + pending
           /\ trimmed + Len(Appended) = produced
           /\ \A i \in 1..Len(buf) : Appended[i] = buf[i]
           /\ \A i \in (Len(buf) + 1)..Len(Appended) : Appended[i] = trimmed + i
           /\ \A i \in 1..Len(Appended) : Appended[i] \in {0, trimmed + i}
           /\ \A i, j \in 1..Len(Appended) :
                i < j /\ Appended[i] # 0 => Appended[j] # 0
<1> DEFINE chunk == [i \in 1..pending |-> (produced - pending) + i]
<1>1. buf \in Seq(Nat) /\ pending \in Nat /\ produced \in Nat /\ pending <= produced
      /\ trimmed \in Int /\ Len(buf) \in Nat
  BY SizesAssumption DEF TypeOK, Cell
<1>2. chunk \in Seq(Nat) /\ Len(chunk) = pending
  BY <1>1
<1>3. \A i \in 1..pending : chunk[i] = (produced - pending) + i
  OBVIOUS
<1>4. Appended = buf \o chunk
  BY DEF Appended
<1> HIDE DEF chunk
<1>5. /\ Appended \in Seq(Nat)
      /\ Len(Appended) = Len(buf) + pending
      /\ \A i \in 1..Len(Appended) :
            Appended[i] = IF i <= Len(buf) THEN buf[i] ELSE chunk[i - Len(buf)]
  <2>1. /\ buf \o chunk \in Seq(Nat)
        /\ Len(buf \o chunk) = Len(buf) + Len(chunk)
        /\ \A i \in 1..(Len(buf) + Len(chunk)) :
              (buf \o chunk)[i] = IF i <= Len(buf) THEN buf[i] ELSE chunk[i - Len(buf)]
    BY <1>1, <1>2, ConcatProperties
  <2> QED  BY <1>2, <1>4, <2>1
<1>6. trimmed + Len(buf) = produced - pending
  BY DEF ReplayIsSuffix, WritePosition
<1>7. \A i \in 1..Len(buf) : Appended[i] = buf[i]
  BY <1>1, <1>5
<1>8. ASSUME NEW i \in (Len(buf) + 1)..Len(Appended)
      PROVE  Appended[i] = trimmed + i /\ trimmed + i > 0
  <2>1. i - Len(buf) \in 1..pending /\ ~(i <= Len(buf)) /\ i \in 1..Len(Appended)
    BY <1>1, <1>5
  <2>2. Appended[i] = (produced - pending) + (i - Len(buf))
    BY <2>1, <1>3, <1>5
  <2> QED  BY <2>1, <2>2, <1>1, <1>6
<1>9. \A i \in 1..Len(buf) : buf[i] \in {0, trimmed + i}
  BY <1>1 DEF ReplayIsSuffix
<1>10. \A i, j \in 1..Len(buf) : i < j /\ buf[i] # 0 => buf[j] # 0
  BY <1>1 DEF ReplayIsSuffix
<1>11. ASSUME NEW i \in 1..Len(Appended)
       PROVE  Appended[i] \in {0, trimmed + i}
  <2>1. i \in 1..Len(buf) \/ i \in (Len(buf) + 1)..Len(Appended)
    BY <1>1, <1>5
  <2> QED  BY <2>1, <1>7, <1>8, <1>9
<1>12. ASSUME NEW i \in 1..Len(Appended), NEW j \in 1..Len(Appended),
              i < j, Appended[i] # 0
       PROVE  Appended[j] # 0
  <2>1. CASE j \in 1..Len(buf)
    <3>1. i \in 1..Len(buf)
      BY <2>1, <1>12, <1>1, <1>5
    <3> QED  BY <2>1, <3>1, <1>12, <1>7, <1>10
  <2>2. CASE j \in (Len(buf) + 1)..Len(Appended)
    BY <2>2, <1>1, <1>8
  <2> QED  BY <2>1, <2>2, <1>1, <1>5
<1> QED  BY <1>1, <1>5, <1>6, <1>7, <1>8, <1>11, <1>12

Trimmed(b, cut, pre) == Preamble(pre) \o Rest(b, cut)

\* A trim at `cut` with a preamble of `pre` bytes keeps the shape, and the
\* bytes past the cut keep their offsets.
LEMMA TrimShape ==
    ASSUME NEW b \in Seq(Nat), NEW t \in Int,
           NEW cut \in 1..Len(b), NEW pre \in Nat,
           \A i \in 1..Len(b) : b[i] \in {0, t + i},
           \A i, j \in 1..Len(b) : i < j /\ b[i] # 0 => b[j] # 0
    PROVE  LET nb == Trimmed(b, cut, pre) IN
           /\ nb \in Seq(Nat)
           /\ Len(nb) = pre + Len(b) - cut
           /\ \A i \in (cut + 1)..Len(b) : nb[i - cut + pre] = b[i]
           /\ \A i \in 1..Len(nb) : nb[i] \in {0, (t + cut - pre) + i}
           /\ \A i, j \in 1..Len(nb) : i < j /\ nb[i] # 0 => nb[j] # 0
<1> DEFINE p == Preamble(pre)
           q == Rest(b, cut)
           nb == Trimmed(b, cut, pre)
<1>1. p \in Seq(Nat) /\ Len(p) = pre /\ \A i \in 1..pre : p[i] = 0
  BY DEF Preamble
<1>2. Len(b) \in Nat /\ cut \in Nat /\ \A i \in (cut + 1)..Len(b) : b[i] \in Nat
  BY ElementOfSeq, LenProperties
<1>3. /\ q \in Seq(Nat)
      /\ Len(q) = Len(b) - cut
      /\ \A i \in 1..(Len(b) - cut) : q[i] = b[cut + i]
  BY RestProperties
<1> HIDE DEF p, q
<1>4. /\ p \o q \in Seq(Nat)
      /\ Len(p \o q) = Len(p) + Len(q)
      /\ \A i \in 1..(Len(p) + Len(q)) :
            (p \o q)[i] = IF i <= Len(p) THEN p[i] ELSE q[i - Len(p)]
  BY <1>1, <1>3, ConcatProperties
<1>5. nb = p \o q
  BY DEF p, q, Trimmed
<1> HIDE DEF nb
<1>6. nb \in Seq(Nat) /\ Len(nb) = pre + Len(b) - cut /\ Len(nb) \in Nat
  <2>1. nb \in Seq(Nat) /\ Len(nb) = Len(p) + Len(q)
    BY <1>4, <1>5
  <2>2. Len(p) + Len(q) = pre + Len(b) - cut
    <3>1. Len(p) + Len(q) = pre + (Len(b) - cut)
      BY <1>1, <1>3
    <3> QED  BY <3>1, <1>2
  <2>3. pre + Len(b) - cut \in Nat
    BY <1>2
  <2> QED  BY <2>1, <2>2, <2>3
<1>a. ASSUME NEW k \in 1..Len(nb)
      PROVE  nb[k] = IF k <= pre THEN p[k] ELSE q[k - pre]
  <2>1. k \in 1..(Len(p) + Len(q))
    BY <1>1, <1>2, <1>3, <1>6
  <2> QED  BY <2>1, <1>1, <1>4, <1>5
<1>7. ASSUME NEW i \in 1..Len(nb), i <= pre
      PROVE  nb[i] = 0
  <2>1. i \in 1..pre
    BY <1>6, <1>7
  <2> QED  BY <2>1, <1>a, <1>1, <1>7
<1>8. ASSUME NEW k \in 1..Len(nb), ~(k <= pre)
      PROVE  nb[k] = b[k - pre + cut] /\ k - pre + cut \in (cut + 1)..Len(b)
  <2>1. k - pre \in 1..(Len(b) - cut)
    BY <1>2, <1>6, <1>8
  <2>2. nb[k] = q[k - pre]
    BY <1>a, <1>8
  <2>3. q[k - pre] = b[cut + (k - pre)]
    BY <2>1, <1>3
  <2>4. cut + (k - pre) = k - pre + cut /\ k - pre + cut \in (cut + 1)..Len(b)
    BY <1>2, <1>6, <1>8
  <2> QED  BY <2>2, <2>3, <2>4
<1>9. ASSUME NEW i \in (cut + 1)..Len(b)
      PROVE  nb[i - cut + pre] = b[i]
  <2>1. /\ i - cut + pre \in 1..Len(nb)
        /\ ~(i - cut + pre <= pre)
        /\ (i - cut + pre) - pre + cut = i
    BY <1>2, <1>6
  <2> QED  BY <2>1, <1>8
<1>10. ASSUME NEW i \in 1..Len(nb)
       PROVE  nb[i] \in {0, (t + cut - pre) + i}
  <2>1. CASE ~(i <= pre)
    <3>1. nb[i] = b[i - pre + cut] /\ i - pre + cut \in 1..Len(b)
      BY <2>1, <1>8, <1>2
    <3>2. b[i - pre + cut] \in {0, t + (i - pre + cut)}
      BY <3>1
    <3>3. t + (i - pre + cut) = (t + cut - pre) + i
      BY <1>2, <1>6
    <3> QED  BY <3>1, <3>2, <3>3
  <2> QED  BY <2>1, <1>7
<1>11. ASSUME NEW i \in 1..Len(nb), NEW j \in 1..Len(nb), i < j, nb[i] # 0
       PROVE  nb[j] # 0
  <2>1. ~(i <= pre)
    BY <1>7, <1>11
  <2>2. ~(j <= pre)
    BY <2>1, <1>11, <1>6, <1>2
  <2>3. nb[i] = b[i - pre + cut] /\ i - pre + cut \in (cut + 1)..Len(b)
    BY <2>1, <1>8
  <2>4. nb[j] = b[j - pre + cut] /\ j - pre + cut \in (cut + 1)..Len(b)
    BY <2>2, <1>8
  <2>5. i - pre + cut < j - pre + cut
    BY <1>11, <1>6, <1>2
  <2>6. i - pre + cut \in 1..Len(b) /\ j - pre + cut \in 1..Len(b)
    BY <2>3, <2>4, <1>2
  <2> QED  BY <2>3, <2>4, <2>5, <2>6, <1>11
<1> QED  BY <1>6, <1>9, <1>10, <1>11 DEF nb

\* With the chunk appended, every byte a reader has yet to read is at its
\* offset, unless it was gone before the reader was registered.
LEMMA UnreadInAppended ==
    ASSUME TypeOK, ReplayIsSuffix, NEW r \in Readers, session[r] = "open", UnreadOf(r),
           NEW n \in (cursor[r] + 1)..produced
    PROVE  n \in missed[r] \/ (n > trimmed /\ n - trimmed \in 1..Len(Appended)
                                 /\ Appended[n - trimmed] = n)
<1>1. /\ Len(Appended) = Len(buf) + pending
      /\ trimmed + Len(Appended) = produced
      /\ \A i \in 1..Len(buf) : Appended[i] = buf[i]
      /\ \A i \in (Len(buf) + 1)..Len(Appended) : Appended[i] = trimmed + i
  BY AppendedShape
<1>2. /\ trimmed \in Int /\ Len(buf) \in Nat /\ pending \in Nat /\ produced \in Nat
      /\ cursor[r] \in Nat
  BY SizesAssumption DEF TypeOK
<1>3. CASE n <= WritePosition
  <2>1. InBuffer(n) \/ n \in missed[r]
    BY <1>2, <1>3 DEF UnreadOf, WritePosition
  <2>2. InBuffer(n) => n - trimmed \in 1..Len(buf)
    BY <1>2 DEF InBuffer, WritePosition
  <2> QED  BY <2>1, <2>2, <1>1, <1>2 DEF InBuffer
<1>4. CASE n > WritePosition
  <2>1. n - trimmed \in (Len(buf) + 1)..Len(Appended) /\ n > trimmed
    BY <1>1, <1>2, <1>4 DEF WritePosition
  <2> QED  BY <2>1, <1>1, <1>2
<1> QED  BY <1>2, <1>3, <1>4 DEF WritePosition
-----------------------------------------------------------------------------
(* The steps *)

\* A step that touches neither the buffer nor this stream keeps its part.
LEMMA ReaderFrame ==
    ASSUME NEW r \in Readers, ReaderInv(r),
           buf' = buf, trimmed' = trimmed,
           session'[r] = session[r], cursor'[r] = cursor[r], start'[r] = start[r],
           got'[r] = got[r], missed'[r] = missed[r]
    PROVE  ReaderInv(r)'
BY DEF ReaderInv, OffsetsOf, HistoryOf, UnreadOf, OrderOf, ExactOf, WritePosition, InBuffer

\* A step that leaves the buffer and what is pending keeps the buffer's part.
LEMMA BufferFrame ==
    ASSUME ReplayIsSuffix, BufferBounded, buf' = buf, trimmed' = trimmed,
           produced' - pending' = produced - pending
    PROVE  ReplayIsSuffix' /\ BufferBounded'
BY DEF ReplayIsSuffix, BufferBounded, WritePosition

LEMMA InitIInv == Init => IInv
<1> SUFFICES ASSUME Init PROVE IInv
  OBVIOUS
<1> USE DEF Init
<1>1. TypeOK
  BY SizesAssumption DEF TypeOK, Cell
<1>2. ReplayIsSuffix /\ BufferBounded
  BY SizesAssumption DEF ReplayIsSuffix, BufferBounded, WritePosition
<1>3. ASSUME NEW r \in Readers PROVE ReaderInv(r)
  BY DEF ReaderInv, OffsetsOf, HistoryOf, UnreadOf, OrderOf, ExactOf, WritePosition
<1> QED  BY <1>1, <1>2, <1>3 DEF IInv

LEMMA ReadPTYKeeps == ASSUME IInv, ReadPTY PROVE IInv'
<1> USE DEF IInv, ReadPTY, bufVars, readerVars
<1>1. TypeOK'
  BY SizesAssumption DEF TypeOK
<1>2. produced' - pending' = produced - pending
  BY SizesAssumption DEF TypeOK
<1>3. ReplayIsSuffix' /\ BufferBounded'
  BY <1>2, BufferFrame
<1>4. \A r \in Readers : ReaderInv(r)'
  BY ReaderFrame
<1> QED  BY <1>1, <1>3, <1>4

\* A step of Write that ends at offset `produced` and keeps what is unread
\* keeps every stream's part.
LEMMA WriteKeepsReaders ==
    ASSUME IInv, NEW r \in Readers,
           session' = session, cursor' = cursor, start' = start, got' = got,
           missed' = missed, WritePosition' = produced,
           session[r] = "open" =>
             \A n \in (cursor[r] + 1)..produced : n \in missed[r] \/ InBuffer(n)'
    PROVE  ReaderInv(r)'
<1>1. /\ cursor[r] \in Nat /\ start[r] \in Nat /\ produced \in Nat /\ pending \in Nat
      /\ WritePosition = produced - pending
      /\ ReaderInv(r)
  BY SizesAssumption DEF IInv, TypeOK, ReplayIsSuffix
<1>2. OffsetsOf(r)' /\ HistoryOf(r)' /\ OrderOf(r)' /\ ExactOf(r)'
  BY <1>1 DEF ReaderInv, OffsetsOf, HistoryOf, OrderOf, ExactOf
<1>3. UnreadOf(r)'
  BY <1>1 DEF UnreadOf
<1> QED  BY <1>2, <1>3 DEF ReaderInv

LEMMA WriteUnderLimitKeeps == ASSUME IInv, WriteUnderLimit PROVE IInv'
<1> USE DEF WriteUnderLimit, CountAndWake
<1>0. TypeOK /\ ReplayIsSuffix
  BY DEF IInv
<1>1. /\ Appended \in Seq(Nat) /\ Len(Appended) \in Nat
      /\ trimmed + Len(Appended) = produced
      /\ \A i \in 1..Len(Appended) : Appended[i] \in {0, trimmed + i}
      /\ \A i, j \in 1..Len(Appended) : i < j /\ Appended[i] # 0 => Appended[j] # 0
  BY <1>0, AppendedShape
<1>2. pending \in Nat /\ written \in Nat /\ produced \in Nat
  BY <1>0, SizesAssumption DEF TypeOK
<1>3. TypeOK'
  BY <1>0, <1>1, <1>2, SizesAssumption DEF TypeOK, Cell, WakeReaders
<1>4. WritePosition' = produced
  BY <1>1 DEF WritePosition
<1>5. ReplayIsSuffix'
  BY <1>1, <1>2, <1>4 DEF ReplayIsSuffix
<1>6. BufferBounded'
  BY <1>1, SizesAssumption DEF BufferBounded, Excess
<1>7. ASSUME NEW r \in Readers PROVE ReaderInv(r)'
  <2>1. ASSUME session[r] = "open", NEW n \in (cursor[r] + 1)..produced
        PROVE  n \in missed[r] \/ InBuffer(n)'
    <3>1. n \in missed[r] \/ (n > trimmed /\ Appended[n - trimmed] = n)
      BY <1>0, <2>1, UnreadInAppended DEF IInv, ReaderInv
    <3>2. n <= WritePosition'
      BY <1>4
    <3> QED  BY <3>1, <3>2 DEF InBuffer
  <2> QED  BY <2>1, <1>4, WriteKeepsReaders
<1> QED  BY <1>3, <1>5, <1>6, <1>7 DEF IInv

LEMMA WriteTrimKeeps == ASSUME IInv, WriteTrim PROVE IInv'
<1>0. TypeOK /\ ReplayIsSuffix
  BY DEF IInv
<1>1. /\ Appended \in Seq(Nat) /\ Len(Appended) \in Nat
      /\ trimmed + Len(Appended) = produced
      /\ \A i \in 1..Len(Appended) : Appended[i] \in {0, trimmed + i}
      /\ \A i, j \in 1..Len(Appended) : i < j /\ Appended[i] # 0 => Appended[j] # 0
  BY <1>0, AppendedShape
<1>2. PICK cut \in SafeCuts, pre \in 0..MaxPreamble :
        /\ \A r \in Registered : cursor[r] - trimmed >= cut
        /\ buf' = Preamble(pre) \o SubSeq(Appended, cut + 1, Len(Appended))
        /\ trimmed' = trimmed + cut - pre
  BY DEF WriteTrim
<1>3. /\ pending \in Nat /\ written \in Nat /\ produced \in Nat /\ trimmed \in Int
      /\ pre \in Nat /\ Excess > 0 /\ MaxReplay \in Nat /\ MaxPreamble \in Nat
      /\ Excess = Len(Appended) - MaxReplay
  BY <1>0, SizesAssumption DEF TypeOK, WriteTrim, Excess
<1>4. cut \in 1..Len(Appended) /\ cut >= Excess
  BY <1>1, <1>3, SizesAssumption DEF SafeCuts
<1>5. /\ buf' \in Seq(Nat)
      /\ Len(buf') = pre + Len(Appended) - cut
      /\ \A i \in (cut + 1)..Len(Appended) : buf'[i - cut + pre] = Appended[i]
      /\ \A i \in 1..Len(buf') : buf'[i] \in {0, (trimmed + cut - pre) + i}
      /\ \A i, j \in 1..Len(buf') : i < j /\ buf'[i] # 0 => buf'[j] # 0
  <2>1. buf' = Trimmed(Appended, cut, pre)
    BY <1>2 DEF Trimmed, Rest
  <2>2. /\ \A i \in 1..Len(Appended) : Appended[i] \in {0, trimmed + i}
        /\ \A i, j \in 1..Len(Appended) : i < j /\ Appended[i] # 0 => Appended[j] # 0
    BY <1>1
  <2>3. Appended \in Seq(Nat) /\ trimmed \in Int /\ cut \in 1..Len(Appended) /\ pre \in Nat
    BY <1>1, <1>3, <1>4
  <2> DEFINE nb == Trimmed(Appended, cut, pre)
  <2>4. /\ nb \in Seq(Nat)
        /\ Len(nb) = pre + Len(Appended) - cut
        /\ \A i \in (cut + 1)..Len(Appended) : nb[i - cut + pre] = Appended[i]
        /\ \A i \in 1..Len(nb) : nb[i] \in {0, (trimmed + cut - pre) + i}
        /\ \A i, j \in 1..Len(nb) : i < j /\ nb[i] # 0 => nb[j] # 0
    BY ONLY <2>2, <2>3, TrimShape, Zenon
  <2> HIDE DEF nb
  <2>5. buf' = nb
    BY <2>1 DEF nb
  <2> QED  BY ONLY <2>4, <2>5, Zenon
<1>6. TypeOK'
  <2>1. buf' \in Seq(Nat) /\ trimmed' \in Int /\ written' \in Nat
    BY <1>2, <1>3, <1>4, <1>5 DEF WriteTrim, CountAndWake
  <2>2. out' \in [Readers -> {"none", "read", "send", "wait"}]
    BY <1>0 DEF TypeOK, WriteTrim, CountAndWake, WakeReaders
  <2> QED  BY <1>0, <2>1, <2>2, SizesAssumption
           DEF TypeOK, Cell, WriteTrim, CountAndWake
<1>7. WritePosition' = produced
  <2>1. trimmed' + Len(buf') = (trimmed + cut - pre) + (pre + Len(Appended) - cut)
    BY <1>2, <1>5
  <2>2. (trimmed + cut - pre) + (pre + Len(Appended) - cut) = trimmed + Len(Appended)
    BY <1>1, <1>3, <1>4
  <2> QED  BY <2>1, <2>2, <1>1 DEF WritePosition
<1>8. ReplayIsSuffix'
  <2>1. produced' = produced /\ pending' = 0
    BY DEF WriteTrim, CountAndWake
  <2>2. DOMAIN buf' = 1..Len(buf')
    BY <1>5
  <2>3. \A i \in DOMAIN buf' : buf'[i] \in {0, trimmed' + i}
    BY <1>2, <1>5, <2>2
  <2>4. \A i, j \in DOMAIN buf' : i < j /\ buf'[i] # 0 => buf'[j] # 0
    BY <1>5, <2>2
  <2> QED  BY <1>3, <1>7, <2>1, <2>3, <2>4 DEF ReplayIsSuffix
<1>9. BufferBounded'
  BY <1>1, <1>3, <1>4, <1>5 DEF BufferBounded
<1>10. ASSUME NEW r \in Readers PROVE ReaderInv(r)'
  <2>1. ASSUME session[r] = "open", NEW n \in (cursor[r] + 1)..produced
        PROVE  n \in missed[r] \/ InBuffer(n)'
    <3>1. CASE ~(n \in missed[r])
      <4>1. n - trimmed \in 1..Len(Appended) /\ Appended[n - trimmed] = n
        BY <1>0, <2>1, <3>1, UnreadInAppended DEF IInv, ReaderInv
      <4>2. cursor[r] - trimmed >= cut /\ cursor[r] \in Nat
        BY <1>0, <1>2, <2>1 DEF Registered, TypeOK
      <4>3. n - trimmed \in (cut + 1)..Len(Appended)
        BY <4>1, <4>2, <1>3, <1>4
      <4>4. buf'[(n - trimmed) - cut + pre] = n
        BY <4>1, <4>3, <1>5
      <4>5. /\ (n - trimmed) - cut + pre = n - trimmed'
            /\ n > trimmed'
        BY <4>3, <1>2, <1>3, <1>4
      <4> QED  BY <4>4, <4>5, <1>7 DEF InBuffer
    <3> QED  BY <3>1
  <2> QED  BY <2>1, <1>7, WriteKeepsReaders DEF WriteTrim, CountAndWake
<1> QED  BY <1>6, <1>8, <1>9, <1>10 DEF IInv

LEMMA WriteBlockedKeeps == ASSUME IInv, WriteBlocked PROVE IInv'
<1> USE DEF WriteBlocked, CountAndWake
<1>1. TypeOK'
  BY SizesAssumption DEF IInv, TypeOK, WakeReaders
<1>2. ReplayIsSuffix' /\ BufferBounded'
  BY BufferFrame DEF IInv
<1>3. \A r \in Readers : ReaderInv(r)'
  BY ReaderFrame DEF IInv
<1> QED  BY <1>1, <1>2, <1>3 DEF IInv

LEMMA SessionStepsKeep ==
    ASSUME IInv, NEW r \in Readers,
           TakeSnapshot(r) \/ SnapshotSendFails(r) \/ Unregister(r)
             \/ ReadAfterEmpty(r) \/ SendSucceeds(r) \/ StopOutput(r)
    PROVE  IInv'
<1> USE DEF TakeSnapshot, SnapshotSendFails, Unregister, ReadAfterEmpty,
            SendSucceeds, StopOutput, bufVars, writerVars
<1>1. TypeOK /\ WritePosition = produced - pending /\ produced - pending \in Nat
  BY SizesAssumption DEF IInv, TypeOK, ReplayIsSuffix
<1>2. TypeOK'
  <2>1. CASE TakeSnapshot(r)
    BY <2>1, <1>1 DEF TypeOK
  <2>2. CASE SnapshotSendFails(r)
    BY <2>2, <1>1 DEF TypeOK
  <2>3. CASE Unregister(r)
    BY <2>3, <1>1 DEF TypeOK, WakeWriter
  <2>4. CASE ReadAfterEmpty(r) \/ SendSucceeds(r) \/ StopOutput(r)
    BY <2>4, <1>1 DEF TypeOK
  <2> QED  BY <2>1, <2>2, <2>3, <2>4
<1>3. ReplayIsSuffix' /\ BufferBounded'
  BY <1>1, BufferFrame DEF IInv
<1>4. ASSUME NEW q \in Readers PROVE ReaderInv(q)'
  <2>1. CASE q # r
    BY <2>1, <1>1, ReaderFrame DEF IInv, TypeOK
  <2>2. CASE q = r /\ (ReadAfterEmpty(r) \/ SendSucceeds(r) \/ StopOutput(r))
    BY <2>2, ReaderFrame DEF IInv
  <2>3. CASE q = r /\ (TakeSnapshot(r) \/ SnapshotSendFails(r) \/ Unregister(r))
    <3>1. ReaderInv(r) /\ WritePosition' = WritePosition
      BY <2>3 DEF IInv, WritePosition
    <3>2. session'[r] \in {"none", "snap"} /\ got'[r] = <<>> /\ missed'[r] = {}
      BY <1>1, <2>3, <3>1 DEF TypeOK, ReaderInv, HistoryOf
    <3>3. session'[r] = "snap" => start'[r] = WritePosition'
      BY <1>1, <2>3, <3>1 DEF TypeOK
    <3>4. session'[r] = "snap" => start'[r] <= WritePosition'
      BY <1>1, <3>1, <3>3
    <3> QED  BY <2>3, <3>2, <3>4
             DEF ReaderInv, OffsetsOf, HistoryOf, UnreadOf, OrderOf, ExactOf
  <2> QED  BY <2>1, <2>2, <2>3
<1> QED  BY <1>2, <1>3, <1>4 DEF IInv

LEMMA RegisterKeeps == ASSUME IInv, NEW r \in Readers, Register(r) PROVE IInv'
<1> USE DEF Register, bufVars, writerVars
<1>1. TypeOK /\ ReaderInv(r) /\ start[r] \in Nat /\ WritePosition \in Nat
  BY SizesAssumption DEF IInv, TypeOK, ReplayIsSuffix
<1>2. TypeOK'
  BY <1>1, SizesAssumption DEF TypeOK
<1>3. ReplayIsSuffix' /\ BufferBounded'
  BY BufferFrame DEF IInv
<1>4. ASSUME NEW q \in Readers PROVE ReaderInv(q)'
  <2>1. CASE q # r
    BY <2>1, <1>1, ReaderFrame DEF IInv, TypeOK
  <2>2. CASE q = r
    <3>1. /\ session'[r] = "open" /\ cursor'[r] = start[r] /\ start'[r] = start[r]
          /\ got'[r] = <<>>
          /\ missed'[r] = {n \in (start[r] + 1)..WritePosition : ~InBuffer(n)}
      BY <1>1 DEF TypeOK, ReaderInv, HistoryOf
    <3>2. WritePosition' = WritePosition /\ start[r] <= WritePosition
      BY <1>1 DEF WritePosition, ReaderInv, OffsetsOf
    <3>3. OffsetsOf(r)' /\ HistoryOf(r)' /\ OrderOf(r)'
      BY <1>1, <3>1, <3>2 DEF OffsetsOf, HistoryOf, OrderOf
    <3>4. UnreadOf(r)'
      <4>1. \A n : InBuffer(n)' <=> InBuffer(n)
        BY DEF InBuffer, WritePosition
      <4> QED  BY <3>1, <3>2, <4>1 DEF UnreadOf
    <3>5. ExactOf(r)'
      <4>1. (cursor'[r] - start'[r]) = 0
        BY <1>1, <3>1
      <4> QED  BY <3>1, <4>1 DEF ExactOf
    <3> QED  BY <2>2, <3>3, <3>4, <3>5 DEF ReaderInv
  <2> QED  BY <2>1, <2>2
<1> QED  BY <1>2, <1>3, <1>4 DEF IInv

\* What ReadAfter copies: the cells from the cursor on, each a preamble byte
\* or an output byte past the cursor.
Slice(r) == Rest(buf, RelOff(r))

LEMMA SliceShape ==
    ASSUME TypeOK, ReplayIsSuffix, NEW r \in Readers, RelOff(r) < Len(buf)
    PROVE  /\ RelOff(r) \in Nat
           /\ Slice(r) \in Seq(Nat) /\ Len(Slice(r)) = Len(buf) - RelOff(r)
           /\ \A i \in 1..Len(Slice(r)) :
                /\ Slice(r)[i] = buf[RelOff(r) + i]
                /\ Slice(r)[i] # 0 => Slice(r)[i] = trimmed + RelOff(r) + i
                /\ Slice(r)[i] # 0 => cursor[r] < Slice(r)[i]
                /\ Slice(r)[i] <= WritePosition
<1> DEFINE m == RelOff(r)
           s == Slice(r)
<1>1. /\ buf \in Seq(Nat) /\ Len(buf) \in Nat /\ trimmed \in Int /\ cursor[r] \in Nat
      /\ WritePosition \in Nat /\ WritePosition = trimmed + Len(buf)
      /\ \A i \in 1..Len(buf) : buf[i] = 0 \/ buf[i] = trimmed + i
  BY SizesAssumption DEF TypeOK, Cell, ReplayIsSuffix, WritePosition
<1>2. m \in Nat /\ m < Len(buf) /\ m >= cursor[r] - trimmed
  BY <1>1 DEF RelOff
<1>3. m \in 0..Len(buf)
  BY <1>1, <1>2
<1>4. s = Rest(buf, m)
  BY DEF Slice
<1> HIDE DEF m, s
<1>5. /\ s \in Seq(Nat) /\ Len(s) = Len(buf) - m
      /\ \A i \in 1..(Len(buf) - m) : s[i] = buf[m + i]
  BY <1>1, <1>3, <1>4, RestProperties
<1>6. ASSUME NEW i \in 1..Len(s)
      PROVE  /\ s[i] = buf[m + i]
             /\ s[i] # 0 => s[i] = trimmed + m + i
             /\ s[i] # 0 => cursor[r] < s[i]
             /\ s[i] <= WritePosition
  <2>1. i \in 1..(Len(buf) - m) /\ m + i \in 1..Len(buf)
    BY <1>1, <1>2, <1>5
  <2>2. s[i] = buf[m + i]
    BY <2>1, <1>5
  <2>3. buf[m + i] = 0 \/ buf[m + i] = trimmed + (m + i)
    BY <2>1, <1>1
  <2>4. /\ trimmed + (m + i) = trimmed + m + i
        /\ trimmed + m + i > cursor[r]
        /\ trimmed + m + i <= WritePosition
    BY <2>1, <1>1, <1>2
  <2> QED  BY <2>2, <2>3, <2>4, <1>1
<1> QED  BY <1>2, <1>5, <1>6 DEF m, s

LEMMA ReadAfterDataKeeps ==
    ASSUME IInv, NEW r \in Readers, ReadAfterData(r) PROVE IInv'
<1> USE DEF ReadAfterData, bufVars
<1> DEFINE s == Slice(r)
           g == got[r]
<1>1. /\ TypeOK /\ ReplayIsSuffix /\ ReaderInv(r)
      /\ cursor[r] \in Nat /\ start[r] \in Nat /\ WritePosition \in Nat
      /\ g \in Seq(Nat) /\ Len(g) \in Nat
      /\ trimmed \in Int /\ Len(buf) \in Nat
  BY SizesAssumption DEF IInv, TypeOK, ReplayIsSuffix, Cell
<1>2. /\ RelOff(r) \in Nat /\ RelOff(r) < Len(buf)
      /\ s \in Seq(Nat) /\ Len(s) = Len(buf) - RelOff(r)
      /\ \A i \in 1..Len(s) : /\ s[i] = buf[RelOff(r) + i]
                              /\ s[i] # 0 => s[i] = trimmed + RelOff(r) + i
                              /\ s[i] # 0 => cursor[r] < s[i]
                              /\ s[i] <= WritePosition
  BY <1>1, SliceShape
<1> HIDE DEF s, g
<1>3. /\ g \o s \in Seq(Nat)
      /\ Len(g \o s) = Len(g) + Len(s)
      /\ \A i \in 1..(Len(g) + Len(s)) :
            (g \o s)[i] = IF i <= Len(g) THEN g[i] ELSE s[i - Len(g)]
  BY ONLY <1>1, <1>2, ConcatProperties
<1>4. got' = [got EXCEPT ![r] = IF session[r] = "open" THEN g \o s ELSE g]
  BY DEF s, g, Slice, Rest
<1>5. /\ got'[r] = IF session[r] = "open" THEN g \o s ELSE g
      /\ cursor'[r] = WritePosition /\ WritePosition' = WritePosition
      /\ session' = session /\ start' = start /\ missed' = missed
  BY <1>1, <1>4 DEF TypeOK, WritePosition
<1>6. TypeOK'
  <2>1. got' \in [Readers -> Seq(Nat)]
    BY <1>1, <1>3, <1>4 DEF TypeOK, Cell
  <2> QED  BY <2>1, <1>1 DEF TypeOK, Cell, WakeWriter
<1>7. ReplayIsSuffix' /\ BufferBounded'
  BY BufferFrame DEF IInv
<1>8. ASSUME session[r] # "open" PROVE ReaderInv(r)'
  <2>1. got'[r] = <<>> /\ missed'[r] = {} /\ session'[r] # "open"
    BY <1>1, <1>5, <1>8 DEF ReaderInv, HistoryOf, g
  <2>2. session'[r] = "snap" => start'[r] <= WritePosition'
    BY <1>1, <1>5 DEF ReaderInv, OffsetsOf
  <2> QED  BY <2>1, <2>2 DEF ReaderInv, OffsetsOf, HistoryOf, UnreadOf, OrderOf, ExactOf
<1>9. ASSUME session[r] = "open" PROVE ReaderInv(r)'
  <2> DEFINE c == g \o s
  <2>1. got'[r] = c /\ start[r] <= cursor[r] /\ cursor[r] <= WritePosition
    BY <1>1, <1>5, <1>9 DEF ReaderInv, OffsetsOf
  <2>2. c \in Seq(Nat) /\ Len(c) = Len(g) + Len(s) /\ DOMAIN c = 1..(Len(g) + Len(s))
    BY <1>3
  <2>3. Len(s) \in Nat
    BY <1>2
  <2>4. ASSUME NEW i \in DOMAIN c, i <= Len(g)
        PROVE  i \in DOMAIN g /\ c[i] = g[i] /\ c[i] <= cursor[r]
    <3>1. i \in DOMAIN g
      BY <1>1, <2>2, <2>3, <2>4
    <3>2. g[i] <= cursor[r]
      BY <1>1, <3>1 DEF ReaderInv, OffsetsOf, g
    <3> QED  BY <3>1, <3>2, <1>3, <2>2, <2>4
  <2>5. ASSUME NEW i \in DOMAIN c, ~(i <= Len(g))
        PROVE  i - Len(g) \in 1..Len(s) /\ c[i] = s[i - Len(g)]
    BY <1>1, <1>3, <2>2, <2>3, <2>5
  <2> HIDE DEF c
  <2>6. ASSUME NEW i \in DOMAIN c PROVE c[i] <= WritePosition
    <3>1. c[i] \in Nat
      BY <2>2
    <3>2. CASE i <= Len(g)
      BY <3>1, <3>2, <2>4, <2>1, <1>1
    <3>3. CASE ~(i <= Len(g))
      BY <3>3, <2>5, <1>2
    <3> QED  BY <3>2, <3>3
  <2>7. OffsetsOf(r)' /\ HistoryOf(r)' /\ UnreadOf(r)'
    <3>1. OffsetsOf(r)'
      <4>1. start'[r] <= WritePosition' /\ cursor'[r] <= WritePosition'
        BY <1>1, <1>5, <2>1
      <4>2. \A i \in DOMAIN got'[r] : got'[r][i] <= cursor'[r]
        BY <1>5, <2>1, <2>6
      <4> QED  BY <1>5, <1>9, <4>1, <4>2 DEF OffsetsOf
    <3>2. (cursor'[r] + 1)..WritePosition' = {}
      BY <1>1, <1>5
    <3> QED  BY <1>5, <1>9, <3>1, <3>2 DEF HistoryOf, UnreadOf
  <2>8. ASSUME NEW i \in DOMAIN c, NEW j \in DOMAIN c, i < j, c[i] # 0, c[j] # 0
        PROVE  c[i] < c[j]
    <3>0. c[i] \in Nat /\ c[j] \in Nat /\ i \in Nat /\ j \in Nat
      <4>1. \A k \in DOMAIN c : c[k] \in Nat
        BY <2>2
      <4> QED  BY <4>1, <2>2
    <3>1. CASE j <= Len(g)
      <4>1. i <= Len(g)
        BY <3>0, <3>1, <2>8, <1>1
      <4>2. i \in DOMAIN g /\ j \in DOMAIN g /\ c[i] = g[i] /\ c[j] = g[j]
        BY <3>1, <4>1, <2>4
      <4> QED  BY <4>2, <2>8, <1>1 DEF ReaderInv, OrderOf, g
    <3>2. CASE i <= Len(g) /\ ~(j <= Len(g))
      <4>1. c[i] <= cursor[r]
        BY <3>2, <2>4
      <4>2. j - Len(g) \in 1..Len(s) /\ c[j] = s[j - Len(g)]
        BY <3>2, <2>5
      <4>3. cursor[r] < c[j]
        BY <4>2, <1>2, <2>8
      <4> QED  BY <3>0, <4>1, <4>3, <1>1
    <3>3. CASE ~(i <= Len(g)) /\ ~(j <= Len(g))
      <4>1. i - Len(g) \in 1..Len(s) /\ j - Len(g) \in 1..Len(s)
            /\ c[i] = s[i - Len(g)] /\ c[j] = s[j - Len(g)]
        BY <3>3, <2>5
      <4>2. c[i] = trimmed + RelOff(r) + (i - Len(g))
            /\ c[j] = trimmed + RelOff(r) + (j - Len(g))
        BY <4>1, <1>2, <2>8
      <4>3. trimmed + RelOff(r) + (i - Len(g)) < trimmed + RelOff(r) + (j - Len(g))
        BY <3>0, <2>8, <1>1, <1>2
      <4> QED  BY <4>2, <4>3
    <3> QED  BY <3>1, <3>2, <3>3
  <2>9. OrderOf(r)'
    BY <2>1, <2>8 DEF OrderOf
  <2>10. ASSUME missed[r] = {}
         PROVE  c = [i \in 1..(WritePosition - start[r]) |-> start[r] + i]
    <3>1. g = [i \in 1..(cursor[r] - start[r]) |-> start[r] + i]
      BY <1>1, <1>9, <2>10 DEF ReaderInv, ExactOf, g
    <3>2. Len(g) = cursor[r] - start[r]
      <4>0. DOMAIN g = 1..Len(g)
        BY <1>1
      <4>1. 1..Len(g) = 1..(cursor[r] - start[r])
        BY <3>1, <4>0
      <4>2. cursor[r] - start[r] \in Nat
        BY <1>1, <2>1
      <4>3. Len(g) <= cursor[r] - start[r]
        <5>1. CASE Len(g) = 0
          BY <5>1, <4>2
        <5>2. CASE Len(g) \in 1..Len(g)
          BY <5>2, <4>1, <4>2
        <5> QED  BY <5>1, <5>2, <1>1
      <4>4. cursor[r] - start[r] <= Len(g)
        <5>1. CASE cursor[r] - start[r] = 0
          BY <5>1, <1>1
        <5>2. CASE cursor[r] - start[r] \in 1..(cursor[r] - start[r])
          BY <5>2, <4>1, <1>1
        <5> QED  BY <5>1, <5>2, <4>2
      <4> QED  BY <4>2, <4>3, <4>4, <1>1
    <3>3. ASSUME NEW n \in (cursor[r] + 1)..WritePosition PROVE InBuffer(n)
      BY <1>1, <1>9, <2>10 DEF ReaderInv, UnreadOf
    <3>4. RelOff(r) = cursor[r] - trimmed
      <4>1. CASE cursor[r] < trimmed
        <5>1. RelOff(r) = 0
          BY <4>1 DEF RelOff
        <5>2. cursor[r] + 1 \in (cursor[r] + 1)..WritePosition
          BY <1>1, <1>2, <4>1, <5>1 DEF WritePosition
        <5>3. cursor[r] + 1 > trimmed
          BY <5>2, <3>3 DEF InBuffer
        <5> QED  BY <5>3, <4>1, <1>1
      <4> QED  BY <4>1 DEF RelOff
    <3>5. Len(g) + Len(s) = WritePosition - start[r]
      <4>1. Len(s) = Len(buf) - (cursor[r] - trimmed)
        BY <3>4, <1>2
      <4>2. WritePosition = trimmed + Len(buf)
        BY DEF WritePosition
      <4>3. /\ trimmed \in Int /\ Len(buf) \in Int /\ cursor[r] \in Int
            /\ start[r] \in Int
        BY <1>1
      <4> QED  BY ONLY <3>2, <4>1, <4>2, <4>3
    <3>6. ASSUME NEW i \in 1..(Len(g) + Len(s)) PROVE c[i] = start[r] + i
      <4>1. i \in DOMAIN c /\ i \in Nat
        BY <2>2, <2>3, <1>1
      <4>2. CASE i <= Len(g)
        <5>1. i \in 1..(cursor[r] - start[r])
          BY <4>1, <4>2, <3>2, <3>6, <1>1, <2>3
        <5> QED  BY <4>1, <4>2, <2>4, <3>1, <5>1
      <4>3. CASE ~(i <= Len(g))
        <5> DEFINE k == i - Len(g)
        <5>0. k \in Int
          BY <4>1, <1>1
        <5>1. k \in 1..Len(s) /\ c[i] = s[k]
          BY <4>1, <4>3, <2>5
        <5>2. s[k] = buf[(cursor[r] - trimmed) + k]
          BY <5>1, <1>2, <3>4
        <5>3. cursor[r] + k \in (cursor[r] + 1)..WritePosition
              /\ (cursor[r] + k) - trimmed = (cursor[r] - trimmed) + k
          <6>1. Len(s) = Len(buf) - (cursor[r] - trimmed)
            BY <3>4, <1>2
          <6>2. WritePosition = trimmed + Len(buf)
            BY DEF WritePosition
          <6>3. trimmed \in Int /\ Len(buf) \in Int /\ cursor[r] \in Int
            BY <1>1
          <6>4. k \in Int /\ 1 <= k /\ k <= Len(buf) - (cursor[r] - trimmed)
            BY ONLY <5>0, <5>1, <6>1, <6>3
          <6> HIDE DEF k
          <6> QED  BY ONLY <6>2, <6>3, <6>4
        <5>4. buf[(cursor[r] + k) - trimmed] = cursor[r] + k
          BY <5>3, <3>3 DEF InBuffer
        <5>5. cursor[r] + k = start[r] + i
          BY <3>2, <1>1, <4>1
        <5> QED  BY <5>1, <5>2, <5>3, <5>4, <5>5
      <4> QED  BY <4>2, <4>3
    <3>7. c = [i \in DOMAIN c |-> c[i]]
      BY <2>2
    <3> QED  BY <2>2, <3>5, <3>6, <3>7
  <2>11. ExactOf(r)'
    BY <1>5, <2>1, <2>10 DEF ExactOf
  <2> QED  BY <2>7, <2>9, <2>11 DEF ReaderInv
<1>10. ASSUME NEW q \in Readers, q # r PROVE ReaderInv(q)'
  BY <1>1, <1>4, <1>10, ReaderFrame DEF IInv, TypeOK
<1> QED  BY <1>6, <1>7, <1>8, <1>9, <1>10 DEF IInv
-----------------------------------------------------------------------------
(* The theorems *)

LEMMA StepKeepsIInv == IInv /\ [Next]_vars => IInv'
<1> SUFFICES ASSUME IInv, [Next]_vars PROVE IInv'
  OBVIOUS
<1>1. CASE ReadPTY
  BY <1>1, ReadPTYKeeps
<1>2. CASE Write
  BY <1>2, WriteUnderLimitKeeps, WriteTrimKeeps, WriteBlockedKeeps DEF Write
<1>3. ASSUME NEW r \in Readers, Reader(r) PROVE IInv'
  BY <1>3, SessionStepsKeep, RegisterKeeps, ReadAfterDataKeeps DEF Reader
<1>4. CASE UNCHANGED vars
  <2>1. UNCHANGED <<buf, trimmed, written, produced, pending, writer, session, out,
                    cursor, start, got, missed, attaches>>
    BY <1>4 DEF vars, bufVars, writerVars, readerVars
  <2>2. \A r \in Readers : ReaderInv(r)'
    BY <2>1, ReaderFrame DEF IInv
  <2>3. TypeOK' /\ ReplayIsSuffix' /\ BufferBounded'
    BY <2>1, BufferFrame DEF IInv, TypeOK
  <2> QED  BY <2>2, <2>3 DEF IInv
<1> QED  BY <1>1, <1>2, <1>3, <1>4 DEF Next, Finished

LEMMA Invariance == Spec => []IInv
<1>1. IInv /\ [Next]_vars => IInv'
  BY StepKeepsIInv
<1> QED  BY <1>1, InitIInv, PTL DEF Spec

LEMMA IInvImplies ==
    IInv => /\ TypeOK /\ ReplayIsSuffix /\ BufferBounded
            /\ UnreadKept /\ NoReorder /\ ExactDelivery
<1> SUFFICES ASSUME IInv
             PROVE  /\ TypeOK /\ ReplayIsSuffix /\ BufferBounded
                    /\ UnreadKept /\ NoReorder /\ ExactDelivery
  OBVIOUS
<1>1. ASSUME NEW r \in Registered
      PROVE  r \in Readers /\ session[r] = "open" /\ ReaderInv(r)
  BY DEF IInv, Registered
<1>2. UnreadKept
  BY <1>1 DEF UnreadKept, ReaderInv, UnreadOf
<1>3. NoReorder
  BY <1>1 DEF NoReorder, ReaderInv, OrderOf
<1>4. ExactDelivery
  BY <1>1 DEF ExactDelivery, ReaderInv, ExactOf
<1> QED  BY <1>2, <1>3, <1>4 DEF IInv

\* The state of the buffer, of the writer and of every stream keeps its type.
THEOREM TypeCorrect == Spec => []TypeOK
BY Invariance, IInvImplies, PTL

\* Whatever is trimmed, a replay is a preamble and an unbroken suffix of the
\* output that ends with the last byte written.
THEOREM ReplaysAreSuffixes == Spec => []ReplayIsSuffix
BY Invariance, IInvImplies, PTL

\* The buffer never holds more than maxReplaySize bytes and one preamble.
THEOREM BufferIsBounded == Spec => []BufferBounded
BY Invariance, IInvImplies, PTL

\* No trim takes a byte from a registered reader that has yet to read it.
THEOREM UnreadIsKept == Spec => []UnreadKept
BY Invariance, IInvImplies, PTL

\* No stream is handed a byte twice or out of order.
THEOREM OutputInOrder == Spec => []NoReorder
BY Invariance, IInvImplies, PTL

\* A stream registered before anything after its snapshot was trimmed gets
\* every later byte exactly once, in order.
THEOREM StreamIsExact == Spec => []ExactDelivery
BY Invariance, IInvImplies, PTL
-----------------------------------------------------------------------------
(* ReplayBuffer implements OutputStream *)

ServedUpTo == [r \in Readers |-> Served(r)]
HandedTo   == [r \in Readers |-> Handed(r)]

LEMMA InitImplements == Init => Stream!Init
<1> SUFFICES ASSUME Init PROVE Stream!Init
  OBVIOUS
<1>1. WritePosition = 0
  BY DEF Init, WritePosition
<1>2. ASSUME NEW r \in Readers PROVE Served(r) = 0 /\ Handed(r) = {}
  BY DEF Init, Served, Handed
<1> QED  BY <1>1, <1>2 DEF Init, Stream!Init

\* What the other streams show is left alone by a step on one of them.
LEMMA ShownFrame ==
    ASSUME NEW r \in Readers, session'[r] = session[r], start'[r] = start[r],
           cursor'[r] = cursor[r], got'[r] = got[r]
    PROVE  Served(r)' = Served(r) /\ Handed(r)' = Handed(r)
BY DEF Served, Handed

\* A step that moves neither the end, nor a session, nor what streams were
\* served and handed is a stutter.
LEMMA Stutter ==
    ASSUME WritePosition' = WritePosition, session' = session, missed' = missed,
           \A r \in Readers : Served(r)' = Served(r) /\ Handed(r)' = Handed(r)
    PROVE  UNCHANGED Stream!vars
BY DEF Stream!vars

\* Writing: the end moves by the pending chunk, and by BufferBounded and
\* UnreadOf no open stream that missed nothing is left more than a buffer
\* behind.
LEMMA WriteImplements ==
    ASSUME IInv, IInv', WriteUnderLimit \/ WriteTrim PROVE Stream!Accept
<1>1. /\ UNCHANGED <<produced, session, cursor, start, got, missed>>
      /\ pending' = 0 /\ writer = "try"
  BY DEF WriteUnderLimit, WriteTrim, CountAndWake
<1>2. pending \in 1..MaxChunk /\ produced \in Nat
  BY <1>1, SizesAssumption DEF IInv, TypeOK
<1>3. WritePosition = produced - pending /\ WritePosition' = produced
  BY <1>1, <1>2 DEF IInv, ReplayIsSuffix
<1>4. WritePosition' = WritePosition + pending
  BY <1>2, <1>3
<1>5. \A r \in Readers : Served(r)' = Served(r) /\ Handed(r)' = Handed(r)
  BY <1>1, ShownFrame
<1>6. ASSUME NEW r \in Readers, session[r] = "open", missed[r] = {}
      PROVE  WritePosition' <= Served(r) + (MaxReplay + MaxPreamble)
  <2>1. Served(r) = cursor[r] /\ cursor[r] \in Nat
    BY <1>6 DEF Served, IInv, TypeOK
  <2>2. \A n \in (cursor[r] + 1)..(WritePosition') : n > trimmed'
    BY <1>1, <1>6 DEF IInv, ReaderInv, UnreadOf, InBuffer
  <2>3. /\ Len(buf') <= MaxReplay + MaxPreamble /\ Len(buf') \in Nat
        /\ trimmed' \in Int /\ WritePosition' = trimmed' + Len(buf')
    BY DEF IInv, TypeOK, BufferBounded, WritePosition
  <2>4. MaxReplay \in Nat /\ MaxPreamble \in Nat
    BY SizesAssumption
  <2>5. CASE cursor[r] < WritePosition'
    <3>1. cursor[r] + 1 \in (cursor[r] + 1)..(WritePosition')
      BY <2>1, <2>3, <2>5
    <3>2. cursor[r] + 1 > trimmed'
      BY <2>2, <3>1
    <3> QED  BY <2>1, <2>3, <2>4, <3>2
  <2>6. CASE ~(cursor[r] < WritePosition')
    BY <2>1, <2>3, <2>4, <2>6
  <2> QED  BY <2>5, <2>6
<1> QED  BY <1>1, <1>2, <1>4, <1>5, <1>6 DEF Stream!Accept

\* The steps that open and close a stream are the abstract ones.
LEMMA SessionImplements ==
    ASSUME IInv, NEW r \in Readers,
           TakeSnapshot(r) \/ Register(r) \/ SnapshotSendFails(r) \/ Unregister(r)
    PROVE  Stream!Next
<1>1. /\ UNCHANGED bufVars /\ WritePosition' = WritePosition
      /\ session \in [Readers -> {"none", "snap", "open"}]
      /\ start \in [Readers -> Nat] /\ cursor \in [Readers -> Nat]
      /\ got \in [Readers -> Seq(Nat)] /\ missed \in [Readers -> SUBSET Nat]
      /\ HistoryOf(r)
  BY DEF IInv, TypeOK, Cell, ReaderInv, WritePosition, bufVars,
         TakeSnapshot, Register, SnapshotSendFails, Unregister
<1>2. \A q \in Readers : q # r => /\ session'[q] = session[q] /\ start'[q] = start[q]
                                  /\ cursor'[q] = cursor[q] /\ got'[q] = got[q]
  BY <1>1 DEF TakeSnapshot, Register, SnapshotSendFails, Unregister
<1>3. \A q \in Readers : q # r => Served(q)' = Served(q) /\ Handed(q)' = Handed(q)
  BY <1>2, ShownFrame
<1>4. got[r] = <<>> => Handed(r) = {}
  BY DEF Handed
<1>5. got'[r] = <<>> => Handed(r)' = {}
  BY DEF Handed
<1>6. CASE TakeSnapshot(r)
  <2>1. /\ session[r] = "none" /\ session' = [session EXCEPT ![r] = "snap"]
        /\ start'[r] = WritePosition /\ missed' = missed /\ got' = got
    BY <1>1, <1>6 DEF TakeSnapshot
  <2>2. Served(r)' = WritePosition /\ Handed(r)' = Handed(r)
    BY <1>1, <2>1 DEF Served, Handed
  <2>3. /\ ServedUpTo' = [ServedUpTo EXCEPT ![r] = WritePosition]
        /\ HandedTo' = HandedTo
    BY <1>3, <2>2 DEF ServedUpTo, HandedTo
  <2>4. Stream!Ask(r)
    BY <1>1, <2>1, <2>3 DEF Stream!Ask, ServedUpTo, HandedTo
  <2> QED  BY <2>4 DEF Stream!Next
<1>7. CASE Register(r)
  <2> DEFINE gone == {n \in (start[r] + 1)..WritePosition : ~InBuffer(n)}
  <2>1. /\ session[r] = "snap" /\ session' = [session EXCEPT ![r] = "open"]
        /\ cursor'[r] = start[r] /\ got' = got
        /\ missed' = [missed EXCEPT ![r] = gone]
    BY <1>1, <1>7 DEF Register
  <2>2. Served(r) = start[r] /\ Served(r)' = start[r] /\ Handed(r)' = Handed(r)
    BY <1>1, <2>1 DEF Served, Handed
  <2>3. ServedUpTo' = ServedUpTo /\ HandedTo' = HandedTo
    BY <1>3, <2>2 DEF ServedUpTo, HandedTo
  <2>4. gone \in SUBSET ((Served(r) + 1)..WritePosition)
    BY <2>2
  <2> HIDE DEF gone
  <2>5. Stream!Open(r)
    BY <1>1, <2>1, <2>3, <2>4 DEF Stream!Open, ServedUpTo, HandedTo
  <2> QED  BY <2>5 DEF Stream!Next
<1>8. CASE SnapshotSendFails(r) \/ Unregister(r)
  <2>1. /\ session[r] # "none" /\ session' = [session EXCEPT ![r] = "none"]
        /\ got'[r] = <<>> /\ missed' = [missed EXCEPT ![r] = {}]
    BY <1>1, <1>8 DEF SnapshotSendFails, Unregister, HistoryOf
  <2>2. Served(r)' = 0 /\ Handed(r)' = {}
    BY <1>1, <1>5, <2>1 DEF Served
  <2>3. /\ ServedUpTo' = [ServedUpTo EXCEPT ![r] = 0]
        /\ HandedTo' = [HandedTo EXCEPT ![r] = {}]
    BY <1>3, <2>2 DEF ServedUpTo, HandedTo
  <2>4. Stream!Close(r)
    BY <1>1, <2>1, <2>3 DEF Stream!Close, ServedUpTo, HandedTo
  <2> QED  BY <2>4 DEF Stream!Next
<1> QED  BY <1>6, <1>7, <1>8

\* The output bytes of the slice a read hands out are those after the cursor
\* that are in the buffer.
LEMMA SliceBytes ==
    ASSUME IInv, NEW r \in Readers, RelOff(r) < Len(buf)
    PROVE  {Slice(r)[i] : i \in 1..Len(Slice(r))} \ {0}
              = {n \in (cursor[r] + 1)..WritePosition : InBuffer(n)}
<1> DEFINE s == Slice(r)
<1>1. /\ TypeOK /\ ReplayIsSuffix /\ cursor[r] \in Nat /\ trimmed \in Int
      /\ Len(buf) \in Nat /\ WritePosition = trimmed + Len(buf)
  BY DEF IInv, TypeOK, WritePosition, Cell
<1>2. /\ RelOff(r) \in Nat /\ s \in Seq(Nat) /\ Len(s) = Len(buf) - RelOff(r)
      /\ \A i \in 1..Len(s) : /\ s[i] = buf[RelOff(r) + i]
                              /\ s[i] # 0 => s[i] = trimmed + RelOff(r) + i
                              /\ s[i] # 0 => cursor[r] < s[i]
                              /\ s[i] <= WritePosition
  BY <1>1, SliceShape
<1> HIDE DEF s
<1>3. ASSUME NEW i \in 1..Len(s), s[i] # 0
      PROVE  s[i] \in (cursor[r] + 1)..WritePosition /\ InBuffer(s[i])
  <2>1. s[i] = trimmed + RelOff(r) + i /\ cursor[r] < s[i] /\ s[i] <= WritePosition
    BY <1>2, <1>3
  <2>2. s[i] \in Int /\ s[i] - trimmed = RelOff(r) + i /\ s[i] > trimmed
    BY <1>1, <1>2, <2>1
  <2>3. buf[s[i] - trimmed] = s[i]
    BY <1>2, <2>2
  <2>4. s[i] \in (cursor[r] + 1)..WritePosition
    BY <1>1, <2>1, <2>2
  <2> QED  BY <2>1, <2>2, <2>3, <2>4 DEF InBuffer
<1>4. ASSUME NEW n \in (cursor[r] + 1)..WritePosition, InBuffer(n)
      PROVE  n # 0 /\ \E i \in 1..Len(s) : s[i] = n
  <2> DEFINE i == n - trimmed - RelOff(r)
  <2>1. n \in Int /\ n > cursor[r] /\ n > trimmed /\ n <= WritePosition
        /\ buf[n - trimmed] = n
    BY <1>1, <1>4 DEF InBuffer
  <2>2. n - trimmed > RelOff(r)
    BY <1>1, <2>1 DEF RelOff
  <2>3. i \in 1..Len(s) /\ RelOff(r) + i = n - trimmed
    BY <1>1, <1>2, <2>1, <2>2
  <2> HIDE DEF i
  <2>4. s[i] = n
    BY <1>2, <2>1, <2>3
  <2> QED  BY <1>1, <2>1, <2>3, <2>4
<1>5. {s[i] : i \in 1..Len(s)} \ {0}
        = {n \in (cursor[r] + 1)..WritePosition : InBuffer(n)}
  BY <1>3, <1>4
<1> QED  BY <1>5 DEF s

\* A read of an open stream delivers; one for a stream that is gone shows in
\* no stream.
LEMMA ReadImplements ==
    ASSUME IInv, NEW r \in Readers, ReadAfterData(r)
    PROVE  Stream!Next \/ UNCHANGED Stream!vars
<1> DEFINE s == Slice(r)
           g == got[r]
<1>1. /\ WritePosition' = WritePosition /\ session' = session /\ missed' = missed
      /\ start' = start /\ RelOff(r) < Len(buf)
      /\ cursor' = [cursor EXCEPT ![r] = WritePosition]
      /\ got' = [got EXCEPT ![r] = IF session[r] = "open" THEN g \o s ELSE g]
  BY DEF ReadAfterData, bufVars, WritePosition, Slice, Rest
<1>2. /\ TypeOK /\ ReplayIsSuffix /\ ReaderInv(r)
      /\ session \in [Readers -> {"none", "snap", "open"}]
      /\ cursor \in [Readers -> Nat] /\ got \in [Readers -> Seq(Nat)]
      /\ missed \in [Readers -> SUBSET Nat]
      /\ trimmed \in Int /\ Len(buf) \in Nat /\ WritePosition = trimmed + Len(buf)
  BY DEF IInv, TypeOK, Cell, WritePosition
<1>3. \A q \in Readers : q # r => Served(q)' = Served(q) /\ Handed(q)' = Handed(q)
  BY <1>1, <1>2, ShownFrame
<1>4. CASE session[r] # "open"
  <2>1. got'[r] = got[r] /\ session'[r] = session[r] /\ start'[r] = start[r]
    BY <1>1, <1>2, <1>4
  <2>2. Served(r)' = Served(r) /\ Handed(r)' = Handed(r)
    BY <1>2, <1>4, <2>1 DEF Served, Handed
  <2> QED  BY <1>1, <1>3, <2>2, Stutter
<1>5. CASE session[r] = "open"
  <2> DEFINE all == (cursor[r] + 1)..WritePosition
             gone == {n \in all : ~InBuffer(n)}
             batch == {s[i] : i \in 1..Len(s)} \ {0}
  <2>1. batch = all \ gone
    BY <1>1, SliceBytes
  <2>2. gone \subseteq missed[r]
    BY <1>2, <1>5 DEF ReaderInv, UnreadOf
  <2>3. s \in Seq(Nat) /\ g \in Seq(Nat)
    BY <1>1, <1>2, SliceShape
  <2> HIDE DEF s, g
  <2>4. /\ DOMAIN (g \o s) = 1..(Len(g) + Len(s)) /\ DOMAIN g = 1..Len(g)
        /\ Len(g) \in Nat /\ Len(s) \in Nat
        /\ \A i \in 1..(Len(g) + Len(s)) :
              (g \o s)[i] = IF i <= Len(g) THEN g[i] ELSE s[i - Len(g)]
    <3>1. /\ g \o s \in Seq(Nat) /\ Len(g \o s) = Len(g) + Len(s)
          /\ \A i \in 1..(Len(g) + Len(s)) :
                (g \o s)[i] = IF i <= Len(g) THEN g[i] ELSE s[i - Len(g)]
      BY ONLY <2>3, ConcatProperties
    <3>2. DOMAIN (g \o s) = 1..Len(g \o s) /\ DOMAIN g = 1..Len(g)
          /\ Len(g) \in Nat /\ Len(s) \in Nat
      BY <3>1, <2>3, LenProperties
    <3> QED  BY <3>1, <3>2
  <2> DEFINE c == g \o s
  <2>5. {c[i] : i \in DOMAIN c} = {g[i] : i \in DOMAIN g} \cup {s[i] : i \in 1..Len(s)}
    <3> HIDE DEF c
    <3>1. /\ DOMAIN c = 1..(Len(g) + Len(s)) /\ DOMAIN g = 1..Len(g)
          /\ Len(g) \in Nat /\ Len(s) \in Nat
          /\ \A i \in 1..(Len(g) + Len(s)) : c[i] = IF i <= Len(g) THEN g[i] ELSE s[i - Len(g)]
      BY <2>4 DEF c
    <3>2. \A i \in DOMAIN g : i \in DOMAIN c /\ c[i] = g[i]
      BY ONLY <3>1
    <3>3. \A i \in 1..Len(s) : Len(g) + i \in DOMAIN c /\ c[Len(g) + i] = s[i]
      <4>1. \A i \in 1..Len(s) : /\ Len(g) + i \in 1..(Len(g) + Len(s))
                                 /\ ~(Len(g) + i <= Len(g))
                                 /\ (Len(g) + i) - Len(g) = i
        BY ONLY <3>1
      <4> QED  BY ONLY <3>1, <4>1
    <3>4. \A i \in DOMAIN c : \/ i \in DOMAIN g /\ c[i] = g[i]
                              \/ i - Len(g) \in 1..Len(s) /\ c[i] = s[i - Len(g)]
      BY ONLY <3>1
    <3> QED  BY ONLY <3>2, <3>3, <3>4
  <2>6. got'[r] = c /\ session'[r] = "open" /\ cursor'[r] = WritePosition
    BY <1>1, <1>2, <1>5
  <2> HIDE DEF c
  <2>7. Handed(r) = {g[i] : i \in DOMAIN g} \ {0}
    BY DEF Handed, g
  <2>8. Handed(r)' = {c[i] : i \in DOMAIN c} \ {0}
    BY <2>6 DEF Handed
  <2>9. Handed(r)' = Handed(r) \cup (all \ gone)
    BY <2>1, <2>5, <2>7, <2>8
  <2>10. Served(r) = cursor[r] /\ Served(r)' = WritePosition
    BY <1>5, <2>6 DEF Served
  <2>11. cursor[r] < WritePosition
    BY <1>1, <1>2 DEF RelOff
  <2> HIDE DEF all, gone, batch
  <2>12. /\ ServedUpTo' = [ServedUpTo EXCEPT ![r] = WritePosition]
         /\ HandedTo' = [HandedTo EXCEPT ![r] = @ \cup (all \ gone)]
    BY <1>3, <2>9, <2>10 DEF ServedUpTo, HandedTo
  <2>13. all = (Served(r) + 1)..WritePosition /\ gone \in SUBSET missed[r]
    BY <2>2, <2>10 DEF all
  <2>14. Stream!Deliver(r)
    BY <1>1, <1>5, <2>10, <2>11, <2>12, <2>13 DEF Stream!Deliver, ServedUpTo, HandedTo
  <2> QED  BY <2>14 DEF Stream!Next
<1> QED  BY <1>4, <1>5

LEMMA StepImplements ==
    ASSUME IInv, IInv', [Next]_vars PROVE [Stream!Next]_(Stream!vars)
<1>1. CASE WriteUnderLimit \/ WriteTrim
  BY <1>1, WriteImplements DEF Stream!Next
<1>2. CASE ReadPTY \/ WriteBlocked \/ Finished \/ UNCHANGED vars
  <2>1. UNCHANGED <<buf, trimmed, session, cursor, start, got, missed>>
    BY <1>2 DEF ReadPTY, WriteBlocked, CountAndWake, Finished, vars, bufVars, writerVars, readerVars
  <2>2. WritePosition' = WritePosition
    BY <2>1 DEF WritePosition
  <2> QED  BY <2>1, <2>2, ShownFrame, Stutter
<1>3. ASSUME NEW r \in Readers, Reader(r) PROVE [Stream!Next]_(Stream!vars)
  <2>1. CASE ReadAfterEmpty(r) \/ SendSucceeds(r) \/ StopOutput(r)
    <3>1. UNCHANGED <<buf, trimmed, session, cursor, start, got, missed>>
      BY <2>1 DEF ReadAfterEmpty, SendSucceeds, StopOutput, bufVars
    <3>2. WritePosition' = WritePosition
      BY <3>1 DEF WritePosition
    <3> QED  BY <3>1, <3>2, ShownFrame, Stutter
  <2> QED  BY <1>3, <2>1, SessionImplements, ReadImplements DEF Reader
<1> QED  BY <1>1, <1>2, <1>3 DEF Next, Write

\* Whatever the sizes, the number of streams and the trims between them, the
\* buffer gives its clients the streams OutputStream promises.
THEOREM StreamImplemented == Spec => ImplementsStream
<1>1. IInv /\ IInv' /\ [Next]_vars => [Stream!Next]_(Stream!vars)
  BY StepImplements
<1> QED  BY <1>1, InitImplements, Invariance, PTL DEF Spec, ImplementsStream, Stream!Spec
=============================================================================
