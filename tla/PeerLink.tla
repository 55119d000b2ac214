------------------------------ MODULE PeerLink ------------------------------
(* One PTY session's move from the relay to a WebRTC data channel and back:    *)
(* the page (web/src/webrtc.js), the wing's writer (internal/webrtc/           *)
(* transport.go), its table of channels (internal/webrtc/peer.go, wing.go) and *)
(* the goroutine that takes the session's messages one after another.          *)
(* Relay and channel each deliver in order; nothing orders one with the other. *)
EXTENDS Integers, Sequences

CONSTANTS
    MaxOut,     \* bound: chunks of output
    MaxKeys,    \* bound: keys typed
    MaxLook     \* how often the wing looks for the channel (10 in the code)

VARIABLES
    page,       \* the browser's side
    wing,       \* the wing's side
    net,        \* what is under way on the relay and on the channel
    shown,      \* the chunks written to the terminal, in their order
    taken       \* the keys the wing has passed to the agent, in their order

vars == <<page, wing, net, shown, taken>>

Out(n) == [t |-> "out", n |-> n]
Key(n) == [t |-> "key", n |-> n]
Sign(t) == [t |-> t, n |-> 0]
Outs(q) == [i \in 1 .. Len(q) |-> q[i].n]

Init ==
    /\ page = [dc |-> "none", active |-> FALSE, buffer |-> <<>>, timer |-> FALSE, typed |-> 0]
    /\ \E locked \in BOOLEAN :
           wing = [dc |-> "none", mode |-> "relay", look |-> 0, found |-> FALSE, produced |-> 0,
                   locked |-> locked]
    /\ net = [down |-> <<>>, up |-> <<>>, dcDown |-> <<>>, dcUp |-> <<>>, link |-> "none"]
    /\ shown = <<>>
    /\ taken = <<>>

\* The browser's side is done with the channel: cleanupSession, cleanupPeer, dc.onclose.
Cleaned(p) == [p EXCEPT !.dc = "closed", !.active = FALSE, !.buffer = <<>>, !.timer = FALSE]
Cut(n) == [n EXCEPT !.dcDown = <<>>, !.dcUp = <<>>, !.link = "cut"]

\* Offer and answer have gone through the tunnel and the connection stands.
Connects ==
    /\ net.link = "none"
    /\ net' = [net EXCEPT !.link = "up"]
    /\ UNCHANGED <<page, wing, shown, taken>>

\* The wing learns that the channel is open and stores it under the session.
WingOpens ==
    /\ net.link = "up" /\ wing.dc = "none"
    /\ wing' = [wing EXCEPT !.dc = "open"]
    /\ UNCHANGED <<page, net, shown, taken>>

\* dc.onopen: ask the wing, through the relay, to move; give it three seconds.
PageOpens ==
    /\ net.link = "up" /\ page.dc = "none"
    /\ page' = [page EXCEPT !.dc = "open", !.timer = TRUE]
    /\ net' = [net EXCEPT !.up = Append(@, Sign("migrate"))]
    /\ UNCHANGED <<wing, shown, taken>>

\* No pty.migrated within three seconds: drop the buffer, close the channel.
TimesOut ==
    /\ page.timer /\ ~page.active
    /\ page' = [page EXCEPT !.dc = "closed", !.buffer = <<>>, !.timer = FALSE]
    /\ net' = Cut(net)
    /\ UNCHANGED <<wing, shown, taken>>

\* The connection fails, another session's offer replaces it, or the page leaves it.
Fails ==
    /\ net.link = "up"
    /\ net' = Cut(net)
    /\ UNCHANGED <<page, wing, shown, taken>>

PageCloses ==
    /\ net.link = "cut" /\ page.dc # "closed"
    /\ page' = Cleaned(page)
    /\ UNCHANGED <<wing, net, shown, taken>>

\* FallbackToRelay: back to the relay, and pty.fallback is the first message on it.
FallbackToRelay(w) == [w EXCEPT !.mode = "relay", !.dc = "closed"]
WingCloses ==
    /\ net.link = "cut" /\ wing.dc = "open"
    /\ wing' = FallbackToRelay(wing)
    /\ net' = IF wing.mode = "p2p" THEN [net EXCEPT !.down = Append(@, Sign("fallback"))] ELSE net
    /\ UNCHANGED <<page, shown, taken>>

\* The agent writes: one lock decides which of the two ways the chunk goes.
WingWrites ==
    /\ wing.produced < MaxOut
    /\ wing' = [wing EXCEPT !.produced = @ + 1]
    /\ net' = LET m == Out(wing.produced + 1) IN
              IF wing.mode = "relay" THEN [net EXCEPT !.down = Append(@, m)]
              ELSE IF net.link = "up" THEN [net EXCEPT !.dcDown = Append(@, m)] ELSE net
    /\ UNCHANGED <<page, shown, taken>>

\* A session's messages are handled by one goroutine: while it looks for the
\* channel it handles no other. The page's pty.migrate carries no auth token, so
\* a wing that asks this user for a passkey turns it down (`locked').
Idle == wing.look = 0 /\ ~wing.found
WingReads ==
    /\ Idle /\ net.up # <<>>
    /\ net' = [net EXCEPT !.up = Tail(@)]
    /\ IF Head(net.up).t = "migrate"
       THEN /\ wing' = IF wing.locked THEN wing ELSE [wing EXCEPT !.look = MaxLook]
            /\ UNCHANGED taken
       ELSE /\ taken' = Append(taken, Head(net.up).n)
            /\ UNCHANGED wing
    /\ UNCHANGED <<page, shown>>

WingReadsDC ==
    /\ Idle /\ net.dcUp # <<>>
    /\ net' = [net EXCEPT !.dcUp = Tail(@)]
    /\ taken' = Append(taken, Head(net.dcUp).n)
    /\ UNCHANGED <<page, wing, shown>>

\* One look into the table of channels, 50 ms after the last.
Looks ==
    /\ wing.look > 0
    /\ wing' = IF wing.dc = "open" THEN [wing EXCEPT !.look = 0, !.found = TRUE]
               ELSE [wing EXCEPT !.look = @ - 1]
    /\ UNCHANGED <<page, net, shown, taken>>

\* MigrateToDC: pty.migrated goes through the relay, then the writer is swapped.
MigrateToDC ==
    /\ wing.found
    /\ wing' = [wing EXCEPT !.found = FALSE, !.mode = "p2p"]
    /\ net' = [net EXCEPT !.down = Append(@, Sign("migrated"))]
    /\ UNCHANGED <<page, shown, taken>>

\* completeMigration: no timer any more, and what the channel brought is shown.
CompleteMigration(p) == [p EXCEPT !.active = TRUE, !.buffer = <<>>, !.timer = FALSE]

\* Mutant: the buffer is dropped, not flushed.
MutantFlushed(p) == <<>>
Flushed(p) == Outs(p.buffer)
PageReads ==
    /\ net.down # <<>>
    /\ net' = LET rest == [net EXCEPT !.down = Tail(@)] IN
              IF Head(net.down).t = "fallback" /\ net.link = "up" THEN Cut(rest) ELSE rest
    /\ CASE Head(net.down).t = "out" ->
              shown' = Append(shown, Head(net.down).n) /\ UNCHANGED page
         [] Head(net.down).t = "migrated" ->
              page' = CompleteMigration(page) /\ shown' = shown \o Flushed(page)
         [] Head(net.down).t = "fallback" ->
              page' = Cleaned(page) /\ UNCHANGED shown
    /\ UNCHANGED <<wing, taken>>

\* dc.onmessage: shown when the session is on the channel, kept until then.
ShowsDC(p) == p.active
PageReadsDC ==
    /\ net.dcDown # <<>> /\ page.dc = "open"
    /\ net' = [net EXCEPT !.dcDown = Tail(@)]
    /\ IF ShowsDC(page)
       THEN shown' = Append(shown, Head(net.dcDown).n) /\ UNCHANGED page
       ELSE page' = [page EXCEPT !.buffer = Append(@, Head(net.dcDown))] /\ UNCHANGED shown
    /\ UNCHANGED <<wing, taken>>

\* sendPTYInput: the channel if the session is on it and it is open, or the relay.
Types ==
    /\ page.typed < MaxKeys
    /\ page' = [page EXCEPT !.typed = @ + 1]
    /\ net' = LET k == Key(page.typed + 1) IN
              IF page.active /\ page.dc = "open" /\ net.link = "up"
              THEN [net EXCEPT !.dcUp = Append(@, k)]
              ELSE [net EXCEPT !.up = Append(@, k)]
    /\ UNCHANGED <<wing, shown, taken>>

Next ==
    \/ Connects \/ WingOpens \/ PageOpens \/ TimesOut \/ Fails \/ PageCloses \/ WingCloses
    \/ WingWrites \/ WingReads \/ WingReadsDC \/ Looks \/ MigrateToDC
    \/ PageReads \/ PageReadsDC \/ Types

Spec == Init /\ [][Next]_vars

-----------------------------------------------------------------------------
Chunk == [t : {"out"}, n : 1 .. MaxOut]
Relayed == Chunk \cup [t : {"migrated", "fallback"}, n : {0}]
Keystroke == [t : {"key"}, n : 1 .. MaxKeys]
Upward == Keystroke \cup [t : {"migrate"}, n : {0}]
Pages == [dc : {"none", "open", "closed"}, active : BOOLEAN, timer : BOOLEAN,
          buffer : Seq(Chunk), typed : 0 .. MaxKeys]
Wings == [dc : {"none", "open", "closed"}, mode : {"relay", "p2p"}, look : 0 .. MaxLook,
          found : BOOLEAN, produced : 0 .. MaxOut, locked : BOOLEAN]
Nets == [down : Seq(Relayed), up : Seq(Upward), dcDown : Seq(Chunk), dcUp : Seq(Keystroke),
         link : {"none", "up", "cut"}]
TypeOK ==
    /\ page \in Pages /\ wing \in Wings /\ net \in Nets
    /\ shown \in Seq(1 .. MaxOut) /\ taken \in Seq(1 .. MaxKeys)

\* How many chunks a queue of the relay holds that ends with the sign of the move, if
\* it has one; and that the first k messages of a queue are the chunks after `from'.
ChunksIn(q) == Len(q) - (IF q # <<>> /\ q[Len(q)].t = "migrated" THEN 1 ELSE 0)
Follow(q, k, from) == \A i \in 1 .. k : q[i].t = "out" /\ q[i].n = from + i

(* The terminal never shows a chunk twice or after a later one, whatever moves  *)
(* between relay and channel and whenever the channel breaks; and while it has  *)
(* not broken, nothing is lost: shown, on its way on the relay, buffered, on    *)
(* its way on the channel, in this order, are all chunks. The two streams are   *)
(* not ordered by anything but pty.migrated and the page's buffer.              *)
OnePicture ==
    /\ \A i, j \in 1 .. Len(shown) : i < j => shown[i] < shown[j]
    /\ net.link # "cut" =>
         LET relayed == Len(shown) + ChunksIn(net.down)
             kept == relayed + Len(page.buffer) IN
         /\ \A i \in 1 .. Len(shown) : shown[i] = i
         /\ Follow(net.down, ChunksIn(net.down), Len(shown))
         /\ Follow(page.buffer, Len(page.buffer), relayed)
         /\ Follow(net.dcDown, Len(net.dcDown), kept)
         /\ wing.produced = kept + Len(net.dcDown)
=============================================================================
