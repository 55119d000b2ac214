----------------------------- MODULE OutputStream -----------------------------
(***************************************************************************)
(* What an egg promises the clients that read its terminal, without a word  *)
(* of how: the output is one log of numbered bytes; a client asks for the   *)
(* log from where it ends now on and, once its stream is open, gets every   *)
(* later byte once, in the log's order, except those its stream was opened  *)
(* too late for; and the process is held up before an open stream that lost *)
(* nothing falls more than Limit bytes behind.                              *)
(***************************************************************************)
EXTENDS Naturals

CONSTANTS
    Clients,    \* the streams
    Chunk,      \* the most bytes the log takes at once
    Limit       \* the most bytes an open stream may be behind

VARIABLES
    end,        \* bytes in the log
    stream,     \* per client: "none", "snap" (asked), "open"
    next,       \* per client: the log up to here was served; 0 without stream
    lost,       \* per client: bytes the stream was opened too late for
    seen        \* per client: bytes the open stream was handed

vars == <<end, stream, next, lost, seen>>

Init ==
    /\ end = 0
    /\ stream = [c \in Clients |-> "none"]
    /\ next = [c \in Clients |-> 0]
    /\ lost = [c \in Clients |-> {}]
    /\ seen = [c \in Clients |-> {}]

\* The log grows, and no open stream that lost nothing is left too far back.
Accept ==
    /\ \E n \in 1..Chunk : end' = end + n
    /\ \A c \in Clients :
        stream[c] = "open" /\ lost[c] = {} => end' <= next[c] + Limit
    /\ UNCHANGED <<stream, next, lost, seen>>

Ask(c) ==
    /\ stream[c] = "none"
    /\ stream' = [stream EXCEPT ![c] = "snap"]
    /\ next' = [next EXCEPT ![c] = end]
    /\ UNCHANGED <<end, lost, seen>>

Open(c) ==
    /\ stream[c] = "snap"
    /\ stream' = [stream EXCEPT ![c] = "open"]
    /\ \E gone \in SUBSET ((next[c] + 1)..end) : lost' = [lost EXCEPT ![c] = gone]
    /\ UNCHANGED <<end, next, seen>>

\* All the log has past what was served, but for what the stream lost.
Deliver(c) ==
    /\ stream[c] = "open" /\ next[c] < end
    /\ next' = [next EXCEPT ![c] = end]
    /\ \E gone \in SUBSET lost[c] :
        seen' = [seen EXCEPT ![c] = @ \cup (((next[c] + 1)..end) \ gone)]
    /\ UNCHANGED <<end, stream, lost>>

Close(c) ==
    /\ stream[c] # "none"
    /\ stream' = [stream EXCEPT ![c] = "none"]
    /\ next' = [next EXCEPT ![c] = 0]
    /\ lost' = [lost EXCEPT ![c] = {}]
    /\ seen' = [seen EXCEPT ![c] = {}]
    /\ UNCHANGED end

Next ==
    \/ Accept
    \/ \E c \in Clients : Ask(c) \/ Open(c) \/ Deliver(c) \/ Close(c)

Spec == Init /\ [][Next]_vars
=============================================================================
