----------------------------- MODULE EggSession -----------------------------
(***************************************************************************)
(* The life of an egg's session (internal/egg/server.go, vterm.go): the     *)
(* agent's process, the goroutine that reads its PTY, the VTerm loop that   *)
(* renders a reconnect snapshot, the client streams, and how all of them    *)
(* end when the process exits.                                              *)
(*                                                                          *)
(* Output is counted in PTY reads ("chunks").  The replay buffer is the     *)
(* number of chunks logged: its trimming and backpressure are the subject   *)
(* of ReplayBuffer, and here nothing is trimmed.                            *)
(***************************************************************************)
EXTENDS Integers, Sequences, FiniteSets

CONSTANTS
    Streams,      \* client stream slots that may be open at one time
    VtermCap,     \* capacity of vtermCh (256)
    UseVTE,       \* RunConfig.VTE: attach gets the VTerm's snapshot
    MaxOutput,    \* bound: chunks the process writes
    MaxAttach,    \* bound: streams opened
    MaxResize     \* bound: terminal resizes

ASSUME EggAssumption ==
    /\ VtermCap \in Nat \ {0} /\ UseVTE \in BOOLEAN
    /\ MaxOutput \in Nat /\ MaxAttach \in Nat /\ MaxResize \in Nat

VARIABLES
    egg,        \* "running", "exited" (the process is dead), "done" (its exit
                \* code is stored and `done` closed), "closed" (ptmx too),
                \* "stopping" (GracefulStop waits for streams), "stopped"
    logged,     \* chunks readPTY has read and written to the replay buffer
    unread,     \* chunks still in the PTY when the process exited
    reader,     \* readPTY: "read", "post" (to vtermCh), "gone"
    vtermCh,    \* messages to the VTerm loop
    vloop,      \* runVTermLoop: "run", "gone"
    screen,     \* chunks the VTerm has rendered
    lastOffset, \* runVTermLoop's lastOffset
    st,         \* Session(), per stream: "none", "enqueue" and "await" (the
                \* fence), "snap" (snapshot in hand), "first" (no snapshot),
                \* "open" (cursor registered)
    fence,      \* per stream, the number of its fence, 0 when it has none
    result,     \* per stream, what its fenceCh holds
    snap,       \* per stream, the chunks its snapshot shows
    start,      \* per stream, startOffset
    out,        \* its output goroutine: "none", "read", "send", "wait",
                \* "drain" (sending after `done`), "exit" (sending the code)
    cursor,     \* per stream, chunks handed out by ReadAfter
    sent,       \* per stream, chunks the client has received, from start
    told,       \* per stream, the client received the exit code
    dropped,    \* history: chunks that never reached the VTerm
    loggedAtDone, \* history: `logged` when `done` was closed
    attaches, resizes \* counters for the bounds

ptyVars    == <<logged, unread, reader>>
vtermVars  == <<vtermCh, vloop, screen, lastOffset, dropped>>
streamVars == <<st, fence, result, snap, start, out, cursor, sent, told, attaches>>
vars == <<egg, ptyVars, vtermVars, streamVars, loggedAtDone, resizes>>

Done == egg \in {"done", "closed", "stopping", "stopped"}  \* `done` is closed

NoResult == [chunks |-> {}, offset |-> -1]

Init ==
    /\ egg = "running" /\ loggedAtDone = 0
    /\ logged = 0 /\ unread = 0 /\ reader = "read"
    /\ vtermCh = <<>> /\ vloop = "run" /\ screen = {} /\ lastOffset = 0
    /\ dropped = {}
    /\ st = [r \in Streams |-> "none"] /\ out = [r \in Streams |-> "none"]
    /\ fence = [r \in Streams |-> 0] /\ result = [r \in Streams |-> NoResult]
    /\ snap = [r \in Streams |-> {}] /\ start = [r \in Streams |-> 0]
    /\ cursor = [r \in Streams |-> 0] /\ sent = [r \in Streams |-> 0]
    /\ told = [r \in Streams |-> FALSE]
    /\ attaches = 0 /\ resizes = 0
-----------------------------------------------------------------------------
(* The process and its PTY *)

\* It exits by itself, by Kill, by the idle watchdog or by shutdown; what it
\* wrote last may still be in the PTY.
ProcessExits ==
    /\ egg = "running"
    /\ egg' = "exited"
    /\ \E n \in 0..(MaxOutput - logged) : unread' = n
    /\ UNCHANGED <<logged, reader, vtermVars, streamVars, loggedAtDone, resizes>>

\* readPTY reads a chunk and writes it to the replay buffer.  What a running
\* process has written and readPTY not read yet makes no difference.
ReadPTY ==
    /\ reader = "read"
    /\ \/ egg = "running" /\ logged < MaxOutput /\ unread' = unread
       \/ egg \in {"exited", "done"} /\ unread > 0 /\ unread' = unread - 1
    /\ logged' = logged + 1
    /\ reader' = "post"
    /\ UNCHANGED <<egg, vtermVars, streamVars, loggedAtDone, resizes>>

\* The chunk goes to the VTerm loop, or is dropped when its channel is full.
PostToVTerm ==
    /\ reader = "post"
    /\ reader' = "read"
    /\ IF Len(vtermCh) < VtermCap
       THEN /\ vtermCh' = Append(vtermCh, [kind |-> "data", n |-> logged])
            /\ dropped' = dropped
       ELSE /\ vtermCh' = vtermCh
            /\ dropped' = dropped \union {logged}
    /\ UNCHANGED <<egg, logged, unread, vloop, screen, lastOffset, streamVars,
                   loggedAtDone, resizes>>

\* The read fails: the PTY is drained and its last writer dead, or closed.
ReaderStops ==
    /\ reader = "read"
    /\ \/ egg \in {"exited", "done"} /\ unread = 0
       \/ egg \in {"closed", "stopping", "stopped"}
    /\ reader' = "gone"
    /\ UNCHANGED <<egg, logged, unread, vtermVars, streamVars, loggedAtDone, resizes>>
-----------------------------------------------------------------------------
(* The goroutine that waits for the process *)

CloseDone ==
    /\ egg = "exited"
    /\ egg' = "done"
    /\ loggedAtDone' = logged
    /\ UNCHANGED <<ptyVars, vtermVars, streamVars, resizes>>

\* What is left in the PTY is lost.
ClosePTY ==
    /\ egg = "done"
    /\ egg' = "closed"
    /\ UNCHANGED <<ptyVars, vtermVars, streamVars, loggedAtDone, resizes>>

\* Half a second later: no new streams, and the open ones are waited for.
GracefulStop ==
    /\ egg = "closed"
    /\ egg' = "stopping"
    /\ UNCHANGED <<ptyVars, vtermVars, streamVars, loggedAtDone, resizes>>

\* The last stream is closed: Serve returns, RunSession cleans up.
Stopped ==
    /\ egg = "stopping"
    /\ \A r \in Streams : st[r] = "none"
    /\ egg' = "stopped"
    /\ UNCHANGED <<ptyVars, vtermVars, streamVars, loggedAtDone, resizes>>
-----------------------------------------------------------------------------
(* The VTerm loop *)

\* Mutant: a fence answers with the write position, not with what it rendered.
MutantRenderAhead ==
    /\ vloop = "run" /\ vtermCh # <<>>
    /\ LET m == Head(vtermCh) IN
        /\ screen' = IF m.kind = "data" THEN screen \union {m.n} ELSE screen
        /\ lastOffset' = IF m.kind = "data" THEN m.n ELSE lastOffset
        /\ result' = [r \in Streams |->
             IF m.kind = "fence" /\ fence[r] = m.n
             THEN [chunks |-> screen, offset |-> logged] ELSE result[r]]
    /\ vtermCh' = Tail(vtermCh)
    /\ UNCHANGED <<egg, ptyVars, vloop, dropped, st, fence, snap, start, out, cursor,
                   sent, told, attaches, loggedAtDone, resizes>>

\* Render a chunk, resize, or answer a fence with the screen and its offset.
\* fenceCh has room for the answer: a stream that gave up never gets it.
Render ==
    /\ vloop = "run" /\ vtermCh # <<>>
    /\ LET m == Head(vtermCh) IN
        /\ screen' = IF m.kind = "data" THEN screen \union {m.n} ELSE screen
        /\ lastOffset' = IF m.kind = "data" THEN m.n ELSE lastOffset
        /\ result' = [r \in Streams |->
             IF m.kind = "fence" /\ fence[r] = m.n
             THEN [chunks |-> screen, offset |-> lastOffset] ELSE result[r]]
    /\ vtermCh' = Tail(vtermCh)
    /\ UNCHANGED <<egg, ptyVars, vloop, dropped, st, fence, snap, start, out, cursor,
                   sent, told, attaches, loggedAtDone, resizes>>

VTermStops ==
    /\ vloop = "run" /\ Done
    /\ vloop' = "gone"
    /\ UNCHANGED <<egg, ptyVars, vtermCh, screen, lastOffset, dropped, streamVars,
                   loggedAtDone, resizes>>

\* A resize of the terminal, from a stream or from the Resize call: it takes
\* a place in vtermCh if there is one.
Resize ==
    /\ egg \notin {"stopping", "stopped"} /\ resizes < MaxResize
    /\ resizes' = resizes + 1
    /\ vtermCh' = IF Len(vtermCh) < VtermCap
                  THEN Append(vtermCh, [kind |-> "resize", n |-> resizes'])
                  ELSE vtermCh
    /\ UNCHANGED <<egg, ptyVars, vloop, screen, lastOffset, dropped, streamVars,
                   loggedAtDone>>
-----------------------------------------------------------------------------
(* Session(): opening a stream *)

envVars == <<egg, ptyVars, loggedAtDone, resizes>>

\* The first stream of a session gets no snapshot: it starts at the current
\* position.
Start(r) ==
    /\ st[r] = "none" /\ out[r] = "none"
    /\ egg \notin {"stopping", "stopped"} /\ attaches < MaxAttach
    /\ attaches' = attaches + 1
    /\ st' = [st EXCEPT ![r] = "first"]
    /\ start' = [start EXCEPT ![r] = logged]
    /\ UNCHANGED <<envVars, vtermVars, fence, result, snap, out, cursor, sent, told>>

\* An attach asks the VTerm for a snapshot, or copies the replay buffer.
Attach(r) ==
    /\ st[r] = "none" /\ out[r] = "none"
    /\ egg \notin {"stopping", "stopped"} /\ attaches < MaxAttach
    /\ attaches' = attaches + 1
    /\ IF UseVTE
       THEN /\ st' = [st EXCEPT ![r] = "enqueue"]
            /\ fence' = [fence EXCEPT ![r] = attaches']
            /\ UNCHANGED <<start, snap>>
       ELSE /\ st' = [st EXCEPT ![r] = "snap"]
            /\ start' = [start EXCEPT ![r] = logged]
            /\ snap' = [snap EXCEPT ![r] = 1..logged]
            /\ fence' = fence
    /\ UNCHANGED <<envVars, vtermVars, result, out, cursor, sent, told>>

EnqueueFence(r) ==
    /\ st[r] = "enqueue" /\ Len(vtermCh) < VtermCap
    /\ vtermCh' = Append(vtermCh, [kind |-> "fence", n |-> fence[r]])
    /\ st' = [st EXCEPT ![r] = "await"]
    /\ UNCHANGED <<envVars, vloop, screen, lastOffset, dropped, fence, result, snap, start,
                   out, cursor, sent, told, attaches>>

FenceAnswers(r) ==
    /\ st[r] = "await" /\ result[r] # NoResult
    /\ snap' = [snap EXCEPT ![r] = result[r].chunks]
    /\ start' = [start EXCEPT ![r] = result[r].offset]
    /\ result' = [result EXCEPT ![r] = NoResult]
    /\ fence' = [fence EXCEPT ![r] = 0]
    /\ st' = [st EXCEPT ![r] = "snap"]
    /\ UNCHANGED <<envVars, vtermVars, out, cursor, sent, told, attaches>>

\* The process exited, or five seconds passed without room or answer: the
\* replay buffer is the snapshot.
FallBack(r) ==
    /\ \/ st[r] = "enqueue" /\ (Done \/ Len(vtermCh) = VtermCap)
       \/ st[r] = "await" /\ (Done \/ result[r] = NoResult)
    /\ snap' = [snap EXCEPT ![r] = 1..logged]
    /\ start' = [start EXCEPT ![r] = logged]
    /\ result' = [result EXCEPT ![r] = NoResult]
    /\ fence' = [fence EXCEPT ![r] = 0]
    /\ st' = [st EXCEPT ![r] = "snap"]
    /\ UNCHANGED <<envVars, vtermVars, out, cursor, sent, told, attaches>>

\* The snapshot, if any, is sent, the cursor registered, the output goroutine started.
Open(r) ==
    /\ st[r] \in {"snap", "first"}
    /\ st' = [st EXCEPT ![r] = "open"]
    /\ snap' = [snap EXCEPT ![r] = {}]
    /\ out' = [out EXCEPT ![r] = "read"]
    /\ cursor' = [cursor EXCEPT ![r] = start[r]]
    /\ sent' = [sent EXCEPT ![r] = start[r]]
    /\ UNCHANGED <<envVars, vtermVars, fence, result, start, told, attaches>>

\* Session() returns: the snapshot could not be sent, the client detached or
\* its connection broke.  A waiting output goroutine finds out on its own.
Leave(r) ==
    /\ st[r] \in {"snap", "open"}
    /\ st' = [st EXCEPT ![r] = "none"]
    /\ snap' = [snap EXCEPT ![r] = {}]
    /\ start' = [start EXCEPT ![r] = 0]
    /\ sent' = [sent EXCEPT ![r] = 0]
    /\ told' = [told EXCEPT ![r] = FALSE]
    /\ UNCHANGED <<envVars, vtermVars, fence, result, out, cursor, attaches>>
-----------------------------------------------------------------------------
(* Session()'s output goroutine *)

outFrame == <<envVars, vtermVars, st, fence, result, snap, start, attaches>>

ReadAfter(r) ==
    /\ out[r] = "read"
    /\ out' = [out EXCEPT ![r] = IF cursor[r] < logged THEN "send" ELSE "wait"]
    /\ cursor' = [cursor EXCEPT ![r] = logged]
    /\ UNCHANGED <<outFrame, sent, told>>

\* `notify` was closed by a write after ReadAfter found nothing.
Notified(r) ==
    /\ out[r] = "wait" /\ cursor[r] < logged
    /\ out' = [out EXCEPT ![r] = "read"]
    /\ UNCHANGED <<outFrame, cursor, sent, told>>

\* Mutant: the code is sent without a last ReadAfter.
MutantNoDrain(r) ==
    /\ out[r] = "wait" /\ Done
    /\ out' = [out EXCEPT ![r] = "exit"]
    /\ UNCHANGED <<outFrame, cursor, sent, told>>

\* Mutant: `done` is noticed only when there is something to drain.
MutantDoneIgnored(r) ==
    /\ out[r] = "wait" /\ Done /\ cursor[r] < logged
    /\ out' = [out EXCEPT ![r] = "drain"]
    /\ cursor' = [cursor EXCEPT ![r] = logged]
    /\ UNCHANGED <<outFrame, sent, told>>

\* `done` was closed: a last ReadAfter.
DrainAfterExit(r) ==
    /\ out[r] = "wait" /\ Done
    /\ out' = [out EXCEPT ![r] = IF cursor[r] < logged THEN "drain" ELSE "exit"]
    /\ cursor' = [cursor EXCEPT ![r] = logged]
    /\ UNCHANGED <<outFrame, sent, told>>

SendSucceeds(r) ==
    /\ out[r] \in {"send", "drain"} /\ st[r] = "open"
    /\ sent' = [sent EXCEPT ![r] = cursor[r]]
    /\ out' = [out EXCEPT ![r] = IF @ = "send" THEN "read" ELSE "exit"]
    /\ UNCHANGED <<outFrame, cursor, told>>

\* Send failed, or the stream's context is done: the goroutine returns.  In
\* the drain it ignores the error, and the send of the exit code fails too.
OutputBreaks(r) ==
    /\ out[r] \in {"send", "drain", "exit"} \/ (out[r] = "wait" /\ st[r] = "none")
    /\ out' = [out EXCEPT ![r] = "none"]
    /\ UNCHANGED <<outFrame, cursor, sent, told>>

SendExitCode(r) ==
    /\ out[r] = "exit" /\ st[r] = "open"
    /\ told' = [told EXCEPT ![r] = TRUE]
    /\ out' = [out EXCEPT ![r] = "none"]
    /\ UNCHANGED <<outFrame, cursor, sent>>
-----------------------------------------------------------------------------
Opening(r) == Attach(r) \/ Start(r)
Handshake(r) == EnqueueFence(r) \/ FenceAnswers(r) \/ FallBack(r) \/ Open(r)
Output(r) ==
    ReadAfter(r) \/ Notified(r) \/ DrainAfterExit(r) \/ SendSucceeds(r)
      \/ OutputBreaks(r) \/ SendExitCode(r)

ReaderStep == ReadPTY \/ PostToVTerm \/ ReaderStops
WaiterStep == CloseDone \/ ClosePTY \/ GracefulStop \/ Stopped
VTermStep  == Render \/ VTermStops

Finished == egg = "stopped" /\ reader = "gone" /\ vloop = "gone" /\ UNCHANGED vars

Next ==
    \/ ProcessExits \/ Resize
    \/ ReaderStep \/ WaiterStep \/ VTermStep
    \/ \E r \in Streams : Opening(r) \/ Handshake(r) \/ Leave(r) \/ Output(r)
    \/ Finished

\* Goroutines run, sends return, and a client leaves once it has the exit
\* code or its output is gone (the wing cancels the stream then).  Nothing
\* makes the process write or exit, or a client come.
Fairness ==
    /\ WF_vars(ReaderStep) /\ WF_vars(WaiterStep) /\ WF_vars(VTermStep)
    /\ \A r \in Streams :
        /\ WF_vars(Handshake(r)) /\ WF_vars(Output(r))
        /\ WF_vars(out[r] = "none" /\ Leave(r))

Spec == Init /\ [][Next]_vars /\ Fairness
-----------------------------------------------------------------------------
(* Properties *)

Message == [kind : {"data", "resize", "fence"}, n : Nat]

TypeOK ==
    /\ egg \in {"running", "exited", "done", "closed", "stopping", "stopped"}
    /\ logged \in Nat /\ unread \in 0..(MaxOutput - logged) /\ loggedAtDone \in 0..logged
    /\ reader \in {"read", "post", "gone"} /\ vloop \in {"run", "gone"}
    /\ vtermCh \in Seq(Message) /\ Len(vtermCh) <= VtermCap
    /\ screen \subseteq 1..logged /\ dropped \subseteq 1..logged
    /\ lastOffset \in 0..logged
    /\ st \in [Streams -> {"none", "enqueue", "await", "snap", "first", "open"}]
    /\ out \in [Streams -> {"none", "read", "send", "wait", "drain", "exit"}]
    /\ \A r \in Streams : /\ snap[r] \subseteq 1..logged /\ start[r] \in 0..logged
                          /\ cursor[r] \in 0..logged /\ sent[r] \in 0..logged
                          /\ told[r] \in BOOLEAN /\ fence[r] \in 0..attaches

HasSnapshot(r) == st[r] = "snap"

\* A snapshot and its offset agree: nothing past the offset is on the screen
\* (the client would get it twice), and what is missing below it was dropped
\* before the VTerm, never overtaken by a fence (Session, runVTermLoop).
SnapshotAccounted ==
    \A r \in Streams : HasSnapshot(r) =>
        snap[r] \subseteq 1..start[r] /\ (1..start[r]) \ snap[r] \subseteq dropped

\* A client is told the exit code only after everything that was logged when
\* `done` was closed, however its reads, the wakeups and `done` interleave.
ExitAfterLogged ==
    \A r \in Streams : st[r] = "open" /\ told[r] => sent[r] >= loggedAtDone

\* Every open stream learns that the process exited, or breaks.
ExitIsTold ==
    \A r \in Streams :
        (st[r] = "open" /\ Done) ~> (told[r] \/ st[r] # "open" \/ out[r] = "none")

\* After the process exits the egg goes away: no goroutine, fence or stream
\* keeps GracefulStop waiting.
EggStops == (egg = "exited") ~> (egg = "stopped")

\* The process's exit reaches every stream, and then the egg goes away.
EggEnds == ExitIsTold /\ EggStops
=============================================================================
