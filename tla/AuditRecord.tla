----------------------------- MODULE AuditRecord -----------------------------
(* The recording of an audited session (internal/egg/server.go): output and     *)
(* resizes as frames of varints in a compressed file that is written while it   *)
(* may be read, and its playback (cmd/wt/wing.go, streamAuditData), which has   *)
(* to do with whatever part of the file there is. Bytes carry one bit and a     *)
(* continuation flag instead of seven and one.                                  *)
EXTENDS Integers, Sequences, SequencesExt

CONSTANTS
    MaxMs,       \* bound: the session's clock
    MaxFrames,   \* bound: frames recorded
    FlushEvery,  \* frames between two flushes (100)
    Chunks       \* what a read of the PTY returns, in bytes

VARIABLES
    rec,        \* the recording: how far, its bytes, how many are surely on disk
    now, last,  \* milliseconds since the start; auditLastMS
    events,     \* what happened: time, kind, data, and the file's length then
    played      \* the last playback

vars == <<rec, now, last, events, played>>

Byte == 0 .. 3
Dims == 1 .. 2
MaxVarint == 3      \* ten bytes in the code

\* writeVarint and readVarint.
RECURSIVE Varint(_)
Varint(v) == IF v < 2 THEN <<v>> ELSE <<2 + (v % 2)>> \o Varint(v \div 2)
LastByte(buf) == SelectInSeq(buf, LAMBDA b : b < 2)
\* Mutant: the first byte is taken for the highest.
MutantValue(bytes) == FoldLeft(LAMBDA acc, b : 2 * acc + (b % 2), 0, bytes)
Value(bytes) == FoldRight(LAMBDA b, acc : 2 * acc + (b % 2), bytes, 0)
ReadVarint(buf) ==
    LET n == LastByte(buf) IN
    IF n = 0 \/ n > MaxVarint THEN [v |-> 0, n |-> 0]
    ELSE [v |-> Value(SubSeq(buf, 1, n)), n |-> n]

Magic == <<1, 1>>   \* WTA2
Header(d) == Magic \o Varint(d[1]) \o Varint(d[2])
Data(kind, x) == IF kind = 1 THEN Varint(x[1]) \o Varint(x[2]) ELSE x
Frame(delta, kind, x) == Varint(delta) \o Varint(kind) \o Varint(Len(Data(kind, x))) \o Data(kind, x)
FrameV1(delta, x) == Varint(delta) \o Varint(Len(x)) \o x

Nothing == [dims |-> <<0, 0>>, seen |-> <<>>, n |-> 0]
Event(t, kind, x, upto) == [t |-> t, kind |-> kind, x |-> x, upto |-> upto]

\* A session to be recorded, or a recording of an old version without kinds.
Init ==
    /\ \/ /\ rec = [st |-> "new", bytes |-> <<>>, flushed |-> 0, dims |-> <<0, 0>>, v2 |-> TRUE]
          /\ events = <<>>
       \/ \E t \in 0 .. MaxMs, x, y \in Chunks :
             LET a == FrameV1(t, x) IN LET b == FrameV1(1, y) IN
             /\ rec = [st |-> "closed", bytes |-> a \o b, flushed |-> Len(a \o b), dims |-> <<0, 0>>, v2 |-> FALSE]
             /\ events = <<Event(t, 0, x, Len(a)), Event(t + 1, 0, y, Len(a \o b))>>
    /\ now = 0 /\ last = 0 /\ played = Nothing

\* readPTY creates the file; from then on frames are written.
Opens(d) ==
    /\ rec.st = "new"
    /\ rec' = [rec EXCEPT !.st = "open", !.bytes = Header(d), !.dims = d]
    /\ UNCHANGED <<now, last, events, played>>
Ticks ==
    /\ rec.st = "open" /\ now < MaxMs
    /\ now' = now + 1
    /\ UNCHANGED <<rec, last, events, played>>

\* writeAuditFrame, under its lock; every so many frames the compressor is flushed.
NewLast(kind) == now
WriteAuditFrame(kind, x) ==
    /\ rec.st = "open" /\ Len(events) < MaxFrames
    /\ LET bytes == rec.bytes \o Frame(now - last, kind, x) IN
       /\ events' = Append(events, Event(now, kind, x, Len(bytes)))
       /\ rec' = [rec EXCEPT !.bytes = bytes,
                             !.flushed = IF Len(events') % FlushEvery = 0 THEN Len(bytes) ELSE @]
    /\ last' = NewLast(kind)
    /\ UNCHANGED <<now, played>>
Output(x) == WriteAuditFrame(0, x)
Resize(d) == WriteAuditFrame(1, d)

\* The PTY is at its end: the compressor writes the rest. Or the egg dies.
Closes ==
    /\ rec.st = "open"
    /\ rec' = [rec EXCEPT !.st = "closed", !.flushed = Len(rec.bytes)]
    /\ UNCHANGED <<now, last, events, played>>
Dies ==
    /\ rec.st = "open"
    /\ \E n \in rec.flushed .. Len(rec.bytes) :
         rec' = [rec EXCEPT !.st = "closed", !.bytes = SubSeq(@, 1, n), !.flushed = n]
    /\ UNCHANGED <<now, last, events, played>>

-----------------------------------------------------------------------------
\* The frames in `raw', up to the first that is not all there.
RECURSIVE Frames(_, _, _)
Frames(raw, v2, ms) ==
    LET delta == ReadVarint(raw)
        r1 == SubSeq(raw, delta.n + 1, Len(raw))
        kind == IF v2 THEN ReadVarint(r1) ELSE [v |-> 0, n |-> 0]
        r2 == SubSeq(r1, kind.n + 1, Len(r1))
        size == ReadVarint(r2)
        r3 == SubSeq(r2, size.n + 1, Len(r2))
        chunk == SubSeq(r3, 1, size.v)
        cols == ReadVarint(chunk)
        rows == ReadVarint(SubSeq(chunk, cols.n + 1, Len(chunk)))
        rest == SubSeq(r3, size.v + 1, Len(r3))
        t == ms + delta.v
    IN IF delta.n = 0 \/ (v2 /\ kind.n = 0) \/ size.n = 0 \/ size.v > Len(r3) THEN <<>>
       ELSE IF kind.v = 1
       THEN IF cols.n = 0 \/ rows.n = 0 THEN Frames(rest, v2, t)
            ELSE <<[t |-> t, kind |-> 1, x |-> <<cols.v, rows.v>>]>> \o Frames(rest, v2, t)
       ELSE <<[t |-> t, kind |-> 0, x |-> chunk]>> \o Frames(rest, v2, t)

\* streamAuditData; the terminal's size is in the file, or a default.
Playback(raw) ==
    LET v2 == IsPrefix(Magic, raw)
        r1 == SubSeq(raw, Len(Magic) + 1, Len(raw))
        cols == ReadVarint(r1)
        r2 == SubSeq(r1, cols.n + 1, Len(r1))
        rows == ReadVarint(r2)
    IN IF ~v2 THEN [dims |-> <<0, 0>>, seen |-> Frames(raw, FALSE, 0), n |-> Len(raw)]
       ELSE [dims |-> <<cols.v, rows.v>>, n |-> Len(raw),
             seen |-> Frames(SubSeq(r2, rows.n + 1, Len(r2)), TRUE, 0)]
StreamAuditData ==
    /\ rec.st # "new" /\ played = Nothing     \* bound: one playback
    /\ \E n \in rec.flushed .. Len(rec.bytes) :
         /\ n > 0 /\ played' = Playback(SubSeq(rec.bytes, 1, n))
    /\ UNCHANGED <<rec, now, last, events>>

Next ==
    \/ played = Nothing /\ \E d \in Dims \X Dims : Opens(d) \/ Resize(d)
    \/ played = Nothing /\ \E x \in Chunks : Output(x)
    \/ played = Nothing /\ (Ticks \/ Closes \/ Dies)
    \/ StreamAuditData

Spec == Init /\ [][Next]_vars

-----------------------------------------------------------------------------
TypeOK ==
    /\ rec.st \in {"new", "open", "closed"} /\ rec.bytes \in Seq(Byte)
    /\ rec.flushed \in 0 .. Len(rec.bytes)
    /\ now \in 0 .. MaxMs /\ last \in 0 .. now
    /\ played.n \in Nat

\* An old recording whose first bytes, a time, a length and data, happen to be those
\* of the header is read as one with a header.
Misread == ~rec.v2 /\ IsPrefix(Magic, rec.bytes)

(* Whatever part of the file there was, playback shows exactly the events whose *)
(* frames were in it, in their order, at their times, as output or as a resize: *)
(* none is made up from half a frame or from the bytes of another, except in an *)
(* old recording that begins like a new one.                                    *)
PlaybackTrue ==
    played.n > 0 /\ ~Misread =>
        LET there == SelectSeq(events, LAMBDA e : e.upto <= played.n) IN
        /\ played.seen = [i \in DOMAIN there |-> [t |-> there[i].t, kind |-> there[i].kind, x |-> there[i].x]]
        /\ rec.v2 /\ played.n >= Len(Header(rec.dims)) => played.dims = rec.dims
=============================================================================
