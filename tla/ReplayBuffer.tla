---------------------------- MODULE ReplayBuffer ----------------------------
(***************************************************************************)
(* The replay buffer of an egg (internal/egg/server.go, replayBuffer): a    *)
(* bounded log of the PTY's output, written by one goroutine (readPTY) and  *)
(* read by one output goroutine per attached client stream.                 *)
(*                                                                          *)
(* PTY output is numbered: byte n is the n-th byte the process ever wrote.  *)
(* A cell of the buffer is such a number, or 0 for a byte of the mode       *)
(* preamble that a trim re-injects at the front.  Nothing else about the    *)
(* content matters to the order, loss and duplication of output.            *)
(***************************************************************************)
EXTENDS Integers, Sequences

CONSTANTS
    Readers,        \* client stream slots that may be attached at one time
    MaxReplay,      \* maxReplaySize
    SearchWindow,   \* how far findSafeCut looks past the excess (64 KiB)
    MaxChunk,       \* the size of readPTY's read buffer (4096)
    MaxPreamble,    \* the longest preamble buildTrimPreamble returns
    MaxBytes,       \* bound: bytes the process writes in a behaviour
    MaxAttach       \* bound: streams opened in a behaviour

\* With 2 MiB, 64 KiB and 4 KiB, a reader that has read everything never
\* keeps Write from trimming.
ASSUME SizesAssumption ==
    /\ MaxReplay \in Nat /\ SearchWindow \in Nat /\ MaxPreamble \in Nat
    /\ MaxChunk \in Nat \ {0}
    /\ SearchWindow + MaxChunk <= MaxReplay

ASSUME BoundsAssumption == MaxBytes \in Nat /\ MaxAttach \in Nat

VARIABLES
    buf,        \* replayBuffer.buf, a sequence of cells
    trimmed,    \* replayBuffer.trimmed; negative after a trim that cuts less
                \* than the preamble it puts back
    written,    \* replayBuffer.written
    produced,   \* bytes readPTY has read from the PTY
    pending,    \* length of the chunk inside Write, the last bytes produced
    writer,     \* readPTY: "idle" (reading the PTY), "try" (in Write's loop),
                \* "wait" (blocked on the captured `advanced` channel)
    session,    \* per reader: "none", "snap" (snapshot taken, not registered),
                \* "open" (its cursor is registered)
    out,        \* per reader, its output goroutine: "none", "read" (about to
                \* call ReadAfter), "send" (in stream.Send), "wait" (blocked
                \* on the captured `notify` channel)
    cursor,     \* readerCursor.offset
    start,      \* the offset Session() got from Snapshot(); 0 once it returns
    got,        \* history: the cells ReadAfter handed to an open stream
    missed,     \* history: bytes after `start` that were already gone from
                \* the buffer when an open stream's cursor was registered
    attaches    \* streams opened so far

bufVars    == <<buf, trimmed, written>>
writerVars == <<produced, pending, writer>>
readerVars == <<session, out, cursor, start, got, missed, attaches>>
vars       == <<bufVars, writerVars, readerVars>>

Registered == {r \in Readers : session[r] = "open"}

\* The absolute offset of the end of the buffer.
WritePosition == trimmed + Len(buf)

\* Byte n of the output is in the buffer, at its own offset.
InBuffer(n) == n > trimmed /\ n <= WritePosition /\ buf[n - trimmed] = n

\* Closing `notify` wakes every output goroutine that waits on it; closing
\* `advanced` wakes the writer.  Both channels are captured under the lock,
\* in the step that decides to wait.
\* Mutant: a close is forgotten.
MutantNoNotify(o) == o
WakeReaders(o) == [r \in Readers |-> IF o[r] = "wait" THEN "read" ELSE o[r]]
WakeWriter     == IF writer = "wait" THEN "try" ELSE writer

Init ==
    /\ buf = <<>> /\ trimmed = 0 /\ written = 0
    /\ produced = 0 /\ pending = 0 /\ writer = "idle"
    /\ session = [r \in Readers |-> "none"]
    /\ out = [r \in Readers |-> "none"]
    /\ cursor = [r \in Readers |-> 0]
    /\ start = [r \in Readers |-> 0]
    /\ got = [r \in Readers |-> <<>>]
    /\ missed = [r \in Readers |-> {}]
    /\ attaches = 0
-----------------------------------------------------------------------------
(* The writer: readPTY and replayBuffer.Write *)

\* readPTY gets n bytes from the PTY and calls Write with them.
ReadPTY ==
    /\ writer = "idle"
    /\ \E n \in 1..MaxChunk :
        /\ produced + n <= MaxBytes
        /\ produced' = produced + n
        /\ pending' = n
    /\ writer' = "try"
    /\ UNCHANGED <<bufVars, readerVars>>

\* The buffer with the pending chunk appended.
Appended == buf \o [i \in 1..pending |-> (produced - pending) + i]

Excess == Len(Appended) - MaxReplay

\* Where findSafeCut may cut: at the excess, or just after a frame end, at an
\* erase-line or after a CRLF it found in the window, whatever the bytes are.
SafeCuts == {c \in Excess..(Excess + SearchWindow) : c <= Len(Appended)}

Preamble(n) == [i \in 1..n |-> 0]

\* What every way out of Write does: count the bytes, wake the readers.
CountAndWake ==
    /\ written' = written + pending
    /\ out' = WakeReaders(out)
    /\ UNCHANGED <<produced, session, cursor, start, got, missed, attaches>>

WriteUnderLimit ==
    /\ writer = "try"
    /\ Excess <= 0
    /\ buf' = Appended
    /\ trimmed' = trimmed
    /\ pending' = 0 /\ writer' = "idle"
    /\ CountAndWake

\* Mutant: the preamble is not taken off `trimmed`.
MutantTrimForgetsPreamble ==
    /\ writer = "try"
    /\ Excess > 0
    /\ \E cut \in SafeCuts, pre \in 0..MaxPreamble :
        /\ \A r \in Registered : cursor[r] - trimmed >= cut
        /\ buf' = Preamble(pre) \o SubSeq(Appended, cut + 1, Len(Appended))
        /\ trimmed' = trimmed + cut
    /\ pending' = 0 /\ writer' = "idle"
    /\ CountAndWake

\* Mutant: one reader past the cut is enough.
MutantTrimFastest ==
    /\ writer = "try"
    /\ Excess > 0
    /\ \E cut \in SafeCuts, pre \in 0..MaxPreamble :
        /\ Registered # {} => \E r \in Registered : cursor[r] - trimmed >= cut
        /\ buf' = Preamble(pre) \o SubSeq(Appended, cut + 1, Len(Appended))
        /\ trimmed' = trimmed + cut - pre
    /\ pending' = 0 /\ writer' = "idle"
    /\ CountAndWake

\* Over the limit: trim at a safe cut when no reader is registered, or when
\* the slowest one has read past the cut, and put the preamble back.
WriteTrim ==
    /\ writer = "try"
    /\ Excess > 0
    /\ \E cut \in SafeCuts, pre \in 0..MaxPreamble :
        /\ \A r \in Registered : cursor[r] - trimmed >= cut
        /\ buf' = Preamble(pre) \o SubSeq(Appended, cut + 1, Len(Appended))
        /\ trimmed' = trimmed + cut - pre
    /\ pending' = 0 /\ writer' = "idle"
    /\ CountAndWake

\* Over the limit and a reader is behind the cut: undo the append and wait
\* for `advanced`.  The bytes were counted in `written` all the same.
WriteBlocked ==
    /\ writer = "try"
    /\ Excess > 0
    /\ \E cut \in SafeCuts, r \in Registered : cursor[r] - trimmed < cut
    /\ writer' = "wait"
    /\ UNCHANGED <<buf, trimmed, pending>>
    /\ CountAndWake

Write == WriteUnderLimit \/ WriteTrim \/ WriteBlocked
-----------------------------------------------------------------------------
(* The readers: Session() and its output goroutine *)

\* Session() takes the snapshot (or only its offset, for a first attach) and
\* sends it; the cursor is registered later, in another critical section.
TakeSnapshot(r) ==
    /\ session[r] = "none" /\ out[r] = "none"
    /\ attaches < MaxAttach
    /\ session' = [session EXCEPT ![r] = "snap"]
    /\ start' = [start EXCEPT ![r] = WritePosition]
    /\ attaches' = attaches + 1
    /\ UNCHANGED <<bufVars, writerVars, out, cursor, got, missed>>

\* Sending the snapshot fails: Session() returns, nothing was registered.
SnapshotSendFails(r) ==
    /\ session[r] = "snap"
    /\ session' = [session EXCEPT ![r] = "none"]
    /\ start' = [start EXCEPT ![r] = 0]
    /\ UNCHANGED <<bufVars, writerVars, out, cursor, got, missed, attaches>>

\* Mutant: the cursor starts at the end of the buffer, not of the snapshot.
MutantRegisterAtEnd(r) ==
    /\ session[r] = "snap"
    /\ session' = [session EXCEPT ![r] = "open"]
    /\ cursor' = [cursor EXCEPT ![r] = WritePosition]
    /\ out' = [out EXCEPT ![r] = "read"]
    /\ missed' = [missed EXCEPT
                    ![r] = {n \in (start[r] + 1)..WritePosition : ~InBuffer(n)}]
    /\ UNCHANGED <<bufVars, writerVars, start, got, attaches>>

Register(r) ==
    /\ session[r] = "snap"
    /\ session' = [session EXCEPT ![r] = "open"]
    /\ cursor' = [cursor EXCEPT ![r] = start[r]]
    /\ out' = [out EXCEPT ![r] = "read"]
    /\ missed' = [missed EXCEPT
                    ![r] = {n \in (start[r] + 1)..WritePosition : ~InBuffer(n)}]
    /\ UNCHANGED <<bufVars, writerVars, start, got, attaches>>

\* Session() returns because Recv failed or the client detached.  The output
\* goroutine is not stopped here: it finds out on its own.
Unregister(r) ==
    /\ session[r] = "open"
    /\ session' = [session EXCEPT ![r] = "none"]
    /\ writer' = WakeWriter
    /\ start' = [start EXCEPT ![r] = 0]
    /\ got' = [got EXCEPT ![r] = <<>>]
    /\ missed' = [missed EXCEPT ![r] = {}]
    /\ UNCHANGED <<bufVars, produced, pending, out, cursor, attaches>>

\* The cursor's offset relative to the buffer, not below its first byte.
RelOff(r) == IF cursor[r] < trimmed THEN 0 ELSE cursor[r] - trimmed

\* ReadAfter finds data: everything from the cursor to the end.  The
\* goroutine of a stream that is gone still reads once, for nobody.
ReadAfterData(r) ==
    /\ out[r] = "read"
    /\ RelOff(r) < Len(buf)
    /\ got' = [got EXCEPT ![r] =
                  IF session[r] = "open" THEN @ \o SubSeq(buf, RelOff(r) + 1, Len(buf)) ELSE @]
    /\ cursor' = [cursor EXCEPT ![r] = WritePosition]
    /\ out' = [out EXCEPT ![r] = "send"]
    /\ writer' = WakeWriter
    /\ UNCHANGED <<bufVars, produced, pending, session, start, missed, attaches>>

\* ReadAfter finds nothing: the goroutine waits on the `notify` it captured.
ReadAfterEmpty(r) ==
    /\ out[r] = "read"
    /\ RelOff(r) >= Len(buf)
    /\ out' = [out EXCEPT ![r] = "wait"]
    /\ UNCHANGED <<bufVars, writerVars, session, cursor, start, got, missed, attaches>>

SendSucceeds(r) ==
    /\ out[r] = "send" /\ session[r] = "open"
    /\ out' = [out EXCEPT ![r] = "read"]
    /\ UNCHANGED <<bufVars, writerVars, session, cursor, start, got, missed, attaches>>

\* The goroutine ends: Send failed, or the stream's context is done.
StopOutput(r) ==
    /\ \/ out[r] = "send"
       \/ out[r] = "wait" /\ session[r] = "none"
    /\ out' = [out EXCEPT ![r] = "none"]
    /\ UNCHANGED <<bufVars, writerVars, session, cursor, start, got, missed, attaches>>

ReadAfter(r) == ReadAfterData(r) \/ ReadAfterEmpty(r)

Reader(r) ==
    \/ TakeSnapshot(r) \/ SnapshotSendFails(r) \/ Register(r) \/ Unregister(r)
    \/ ReadAfterData(r) \/ ReadAfterEmpty(r) \/ SendSucceeds(r) \/ StopOutput(r)
-----------------------------------------------------------------------------
\* Everything was produced and every stream is closed.
Finished ==
    /\ produced = MaxBytes /\ writer = "idle" /\ attaches = MaxAttach
    /\ \A r \in Readers : session[r] = "none" /\ out[r] = "none"
    /\ UNCHANGED vars

Next == ReadPTY \/ Write \/ (\E r \in Readers : Reader(r)) \/ Finished

\* The goroutines run; a send to a client returns, because it is read or
\* because it fails; a stream whose output goroutine is gone is broken and
\* its Recv fails too.
Fairness ==
    /\ WF_vars(Write)
    /\ \A r \in Readers :
        /\ WF_vars(ReadAfter(r))
        /\ WF_vars(SendSucceeds(r) \/ StopOutput(r))
        /\ WF_vars(out[r] = "none" /\ Unregister(r))

Spec == Init /\ [][Next]_vars /\ Fairness
-----------------------------------------------------------------------------
(* Properties *)

Cell == Nat

TypeOK ==
    /\ buf \in Seq(Cell) /\ trimmed \in Int /\ written \in Nat
    /\ produced \in Nat /\ pending \in 0..MaxChunk /\ pending <= produced
    /\ writer \in {"idle", "try", "wait"}
    /\ (writer = "idle") <=> (pending = 0)
    /\ session \in [Readers -> {"none", "snap", "open"}]
    /\ out \in [Readers -> {"none", "read", "send", "wait"}]
    /\ cursor \in [Readers -> Nat] /\ start \in [Readers -> Nat]
    /\ got \in [Readers -> Seq(Cell)]
    /\ missed \in [Readers -> SUBSET Nat]
    /\ attaches \in Nat

\* A replay is a run of preamble bytes followed by an unbroken suffix of the
\* PTY's output that ends with the last byte written: trims never leave a
\* hole, a duplicate or a preamble in the middle (Write, Snapshot).
ReplayIsSuffix ==
    /\ \A i \in DOMAIN buf : buf[i] \in {0, trimmed + i}
    /\ \A i, j \in DOMAIN buf : i < j /\ buf[i] # 0 => buf[j] # 0
    /\ WritePosition = produced - pending

\* The buffer stays within its limit, up to the preamble a trim puts back.
BufferBounded == Len(buf) <= MaxReplay + MaxPreamble

\* Write never trims a byte a registered reader has yet to read.
UnreadKept ==
    \A r \in Registered :
        \A n \in (cursor[r] + 1)..WritePosition : InBuffer(n) \/ n \in missed[r]

\* A stream sees the PTY's bytes in their order, and none of them twice.
NoReorder ==
    \A r \in Registered :
        \A i, j \in DOMAIN got[r] :
            i < j /\ got[r][i] # 0 /\ got[r][j] # 0 => got[r][i] < got[r][j]

\* A stream whose snapshot was still whole when its cursor was registered
\* gets exactly the bytes that follow the snapshot: none lost, none twice,
\* no preamble among them, whatever trims and other readers do.
ExactDelivery ==
    \A r \in Registered :
        missed[r] = {} => got[r] = [i \in 1..(cursor[r] - start[r]) |-> start[r] + i]

\* Backpressure ends: a Write that began returns (no lost wakeup between the
\* writer's wait on `advanced` and the readers' on `notify`, and a broken
\* client does not hold the terminal for ever).
WriteReturns == (writer # "idle") ~> (writer = "idle")

\* What is in the buffer reaches every stream that stays connected.
OutputArrives ==
    \A r \in Readers : \A n \in 1..MaxBytes :
        (session[r] = "open" /\ WritePosition >= n)
            ~> (cursor[r] >= n \/ session[r] # "open" \/ out[r] = "none")

\* Neither the writer nor a reader sleeps through what it waits for.
NoLostWakeup == WriteReturns /\ OutputArrives
-----------------------------------------------------------------------------
(* What the buffer implements *)

\* The output bytes among the cells a stream was handed.
Handed(r) == {got[r][i] : i \in DOMAIN got[r]} \ {0}

\* Where the log was served up to: the snapshot's offset until the cursor is
\* registered.
Served(r) ==
    IF session[r] = "none" THEN 0
    ELSE IF session[r] = "snap" THEN start[r] ELSE cursor[r]

Stream == INSTANCE OutputStream WITH
    Clients <- Readers,
    Chunk <- MaxChunk,
    Limit <- MaxReplay + MaxPreamble,
    end <- WritePosition,
    stream <- session,
    next <- [r \in Readers |-> Served(r)],
    lost <- missed,
    seen <- [r \in Readers |-> Handed(r)]

\* The buffer, its cursors and its blocking implement the streams of
\* OutputStream: attaching, trimming, preambles, waiting and the goroutines of
\* streams that are gone show in no stream but as its own steps.
ImplementsStream == Stream!Spec
=============================================================================
