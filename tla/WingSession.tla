---------------------------- MODULE WingSession ----------------------------
(***************************************************************************)
(* The wing's side of a PTY session (cmd/wt/wing.go, handlePTYSession and   *)
(* handleReclaimedPTY): one goroutine handles what browsers send, one       *)
(* goroutine per egg stream encrypts its output for them, and a reattach    *)
(* replaces key and stream under way.                                       *)
(*                                                                          *)
(* A client is a number: 0 is the session's first browser, the others come  *)
(* by pty.attach, as the controller or as a spectator.  Client g owns key g *)
(* and egg stream g.  Output is counted in chunks, as in EggSession, whose  *)
(* Session() is the other end of the streams.                               *)
(***************************************************************************)
EXTENDS Integers, Sequences

CONSTANTS
    MaxClients,   \* bound: clients after the first
    MaxOutput,    \* bound: chunks the agent writes
    InputCap,     \* capacity of the input channel (64)
    Reclaimed,    \* handleReclaimedPTY: no browser until one attaches
    CanCrash      \* the egg may die without an exit code

ASSUME WingAssumption ==
    /\ MaxClients \in Nat /\ MaxOutput \in Nat /\ InputCap \in Nat \ {0}
    /\ Reclaimed \in BOOLEAN /\ CanCrash \in BOOLEAN

Clients == 0..MaxClients
NoKey == -1
Keys == Clients \union {NoKey}

VARIABLES
    egg,       \* "live", "exiting" (its process is dead), "stopping" (it takes
               \* no more streams), "gone", "crashed"
    produced,  \* chunks in the egg's replay buffer
    input,     \* the session's input channel
    clients,   \* clients that have come
    pc,        \* the input goroutine: "idle", "announce", "connect", "replay",
               \* "resend", "activate", "gone"
    req,       \* the attach it is handling
    gcm,       \* the controller's key
    active,    \* activeStream
    viewers,   \* clients that attached as spectators
    cancelled, \* streams whose context was cancelled
    limit,     \* per stream, the last message it can have buffered by then
    stream,    \* per stream: "none", "asked", "late" (asked for after the
               \* agent's exit), "open", "ended"
    base,      \* per stream, the chunks in its snapshot
    pos,       \* per stream, chunks received, -1 before the snapshot
    out,       \* its output goroutine: "none", "recv", "holds" (a message, not
               \* encrypted yet), "send", "exit" (the exit code), "gone"
    item,      \* the message it, or the input goroutine, holds
    key,       \* the key it holds, per stream
    started,   \* the client of the last pty.started
    seen,      \* per client, the output it got after its pty.started and
               \* could decrypt
    over       \* the handler has returned

eggVars == <<egg, produced>>
inVars  == <<input, clients, viewers>>
attVars == <<pc, req>>
keyVars == <<gcm, active, cancelled, limit>>
strVars == <<stream, base, pos>>
outVars == <<out, item, key>>
cliVars == <<started, seen>>
vars == <<eggVars, inVars, attVars, keyVars, strVars, outVars, cliVars, over>>

NoItem == [lo |-> 0, hi |-> 0]
NoReq  == [kind |-> "none", g |-> 0, key |-> NoKey]

Dead == egg \in {"gone", "crashed"}

Set(f, g, v) == [f EXCEPT ![g] = v]

\* The first stream is asked for before either handler starts its goroutines.
Init ==
    /\ egg = "live" /\ produced = 0
    /\ input = <<>> /\ clients = 0 /\ pc = "idle" /\ req = NoReq
    /\ gcm \in IF Reclaimed THEN {NoKey} ELSE {0, NoKey}
    /\ active = 0 /\ cancelled = {} /\ viewers = {}
    /\ limit = [g \in Clients |-> MaxOutput + 1]
    /\ stream = [g \in Clients |-> IF g = 0 THEN "asked" ELSE "none"]
    /\ base = [g \in Clients |-> 0] /\ pos = [g \in Clients |-> -1]
    /\ out = [g \in Clients |-> IF g = 0 THEN "recv" ELSE "none"]
    /\ item = [g \in Clients |-> NoItem] /\ key = [g \in Clients |-> NoKey]
    /\ started = IF Reclaimed THEN NoKey ELSE 0
    /\ seen = [g \in Clients |-> <<>>]
    /\ over = FALSE
-----------------------------------------------------------------------------
(* The egg, as EggSession describes it *)

Produces ==
    /\ egg = "live" /\ produced < MaxOutput
    /\ produced' = produced + 1
    /\ UNCHANGED <<egg, inVars, attVars, keyVars, strVars, outVars, cliVars, over>>

Exits ==
    /\ egg = "live"
    /\ egg' = "exiting"
    /\ UNCHANGED <<produced, inVars, attVars, keyVars, strVars, outVars, cliVars, over>>

\* GracefulStop, half a second later, time enough to take the streams asked
\* for before; and its end when the last stream is.
Stops ==
    /\ \/ egg = "exiting" /\ egg' = "stopping" 
          /\ \A g \in Clients : stream[g] # "asked" \/ g \in cancelled
       \/ /\ egg = "stopping" /\ egg' = "gone"
          /\ \A g \in Clients : stream[g] \in {"none", "ended"} \/ g \in cancelled \/ over
    /\ UNCHANGED <<produced, inVars, attVars, keyVars, strVars, outVars, cliVars, over>>

Crashes ==
    /\ CanCrash /\ ~Dead
    /\ egg' = "crashed"
    /\ UNCHANGED <<produced, inVars, attVars, keyVars, strVars, outVars, cliVars, over>>

\* Session() takes the snapshot of a stream that asked for it.
Snapshots(g) ==
    /\ stream[g] \in {"asked", "late"} /\ ~Dead /\ g \notin cancelled
    /\ stream' = Set(stream, g, "open")
    /\ base' = Set(base, g, produced)
    /\ UNCHANGED <<eggVars, inVars, attVars, keyVars, pos, outVars, cliVars, over>>

\* A stream that was asked for when the egg was no longer taking any.
Refuses(g) ==
    /\ stream[g] = "late" /\ egg = "stopping"
    /\ stream' = Set(stream, g, "ended")
    /\ UNCHANGED <<eggVars, inVars, attVars, keyVars, base, pos, outVars, cliVars, over>>
-----------------------------------------------------------------------------
(* Receiving on a stream *)

\* The next message with output: the snapshot first, then a chunk at a time.
\* A cancelled stream may still hand out what it has buffered.
HasOutput(g) ==
    /\ stream[g] = "open" /\ ~Dead /\ ~over
    /\ pos[g] = -1 \/ (pos[g] < produced /\ pos[g] < limit[g])

NextItem(g) ==
    IF pos[g] = -1 THEN [lo |-> 1, hi |-> base[g]]
                   ELSE [lo |-> pos[g] + 1, hi |-> pos[g] + 1]

\* The exit code is the message after the last chunk.
ExitComes(g) ==
    /\ stream[g] = "open" /\ egg \in {"exiting", "stopping"} /\ ~over
    /\ pos[g] = produced /\ produced < limit[g]

RecvFails(g) == stream[g] = "ended" \/ g \in cancelled \/ Dead \/ over
-----------------------------------------------------------------------------
(* What browsers send.  A full channel drops it. *)

\* Mutant: a full channel takes it all the same.
MutantNeverDrops(kind) ==
    /\ clients < MaxClients
    /\ clients' = clients + 1
    /\ \E k \in {clients', NoKey} :
         input' = Append(input, [kind |-> kind, g |-> clients', key |-> k])
    /\ UNCHANGED <<eggVars, viewers, attVars, keyVars, strVars, outVars, cliVars, over>>

Comes(kind) ==
    /\ clients < MaxClients
    /\ clients' = clients + 1
    /\ \E k \in {clients', NoKey} :
         input' = IF Len(input) < InputCap
                  THEN Append(input, [kind |-> kind, g |-> clients', key |-> k])
                  ELSE input
    /\ UNCHANGED <<eggVars, viewers, attVars, keyVars, strVars, outVars, cliVars, over>>

SendKill ==
    /\ Len(input) < InputCap /\ \A i \in DOMAIN input : input[i].kind # "kill"
    /\ pc # "gone"
    /\ input' = Append(input, [kind |-> "kill", g |-> 0, key |-> NoKey])
    /\ UNCHANGED <<eggVars, clients, viewers, attVars, keyVars, strVars, outVars, cliVars, over>>
-----------------------------------------------------------------------------
(* The input goroutine *)

\* Whom it treats as the controller: handleReclaimedPTY knows no spectators.
Controls(m) == m.kind = "attach" \/ (Reclaimed /\ m.kind = "spectate")

\* What the stream can have buffered when it is cancelled.
Buffered == Set(limit, active, IF active \in cancelled THEN limit[active]
                               ELSE IF egg = "live" THEN produced ELSE produced + 1)

\* Steps 1 and 2 of a reattach: no key, the old stream is cancelled.
TakeAttach ==
    /\ pc = "idle" /\ input # <<>> /\ Controls(Head(input))
    /\ input' = Tail(input)
    /\ req' = Head(input)
    /\ gcm' = NoKey
    /\ cancelled' = cancelled \union {active}
    /\ limit' = Buffered
    /\ pc' = "announce"
    /\ UNCHANGED <<eggVars, clients, viewers, active, strVars, outVars, cliVars, over>>

\* A spectator disturbs neither, or is rejected by the configuration.
TakeSpectate ==
    /\ pc = "idle" /\ input # <<>> /\ Head(input).kind = "spectate" /\ ~Reclaimed
    /\ input' = Tail(input)
    /\ \/ /\ pc' = "announce" /\ req' = Head(input)
          /\ viewers' = viewers \union {req'.g}
       \/ UNCHANGED <<pc, req, viewers>>
    /\ UNCHANGED <<eggVars, clients, keyVars, strVars, outVars, cliVars, over>>

\* Mutant: a kill lets go of the stream.
MutantKillCancels ==
    /\ pc = "idle" /\ input # <<>> /\ Head(input).kind = "kill"
    /\ input' = Tail(input)
    /\ cancelled' = cancelled \union {active}
    /\ limit' = Buffered
    /\ pc' = "gone"
    /\ UNCHANGED <<eggVars, clients, viewers, req, gcm, active, strVars, outVars, cliVars, over>>

\* The egg is sent SIGTERM, and the goroutine returns.
TakeKill ==
    /\ pc = "idle" /\ input # <<>> /\ Head(input).kind = "kill"
    /\ input' = Tail(input)
    /\ pc' = "gone"
    /\ UNCHANGED <<eggVars, clients, viewers, req, keyVars, strVars, outVars, cliVars, over>>

\* Step 3: pty.started.
Announce ==
    /\ pc = "announce"
    /\ started' = IF req.kind = "attach" THEN req.g ELSE started
    /\ pc' = "connect"
    /\ UNCHANGED <<eggVars, inVars, req, keyVars, strVars, outVars, seen, over>>

\* Steps 4 and 5, after the resize and its 150 ms.
Connect ==
    /\ pc = "connect" /\ ~Dead /\ ~over
    /\ stream' = Set(stream, req.g, IF egg = "live" THEN "asked" ELSE "late")
    /\ pc' = IF req.key = NoKey THEN "activate" ELSE "replay"
    /\ UNCHANGED <<eggVars, inVars, req, keyVars, base, pos, outVars, cliVars, over>>

ConnectFails ==
    /\ pc = "connect" /\ (egg = "stopping" \/ Dead \/ over)
    /\ pc' = "idle" /\ req' = NoReq
    /\ UNCHANGED <<eggVars, inVars, keyVars, strVars, outVars, cliVars, over>>

\* Mutant: the snapshot is left for the output goroutine too.
MutantReplayTwice ==
    /\ pc = "replay" /\ HasOutput(req.g)
    /\ item' = Set(item, req.g, NextItem(req.g))
    /\ pc' = "resend"
    /\ UNCHANGED <<eggVars, inVars, req, keyVars, strVars, out, key, cliVars, over>>

\* Step 6: the first message, if it comes, is the snapshot.
GetReplay ==
    /\ pc = "replay" /\ HasOutput(req.g)
    /\ item' = Set(item, req.g, NextItem(req.g))
    /\ pos' = Set(pos, req.g, base[req.g])
    /\ pc' = "resend"
    /\ UNCHANGED <<eggVars, inVars, req, keyVars, stream, base, out, key, cliVars, over>>

NoReplay ==
    /\ pc = "replay" /\ RecvFails(req.g)
    /\ stream' = Set(stream, req.g, "ended")
    /\ pc' = "activate"
    /\ UNCHANGED <<eggVars, inVars, req, keyVars, base, pos, outVars, cliVars, over>>

\* Output of stream g, encrypted with key k, goes by the relay to the viewer it
\* is tagged for, or to the present controller.
Deliver(g, k) ==
    LET client == IF g \in viewers THEN g ELSE started IN
    seen' = IF item[g].hi < item[g].lo \/ client # k THEN seen
            ELSE [seen EXCEPT ![client] =
                    Append(@, [src |-> g, lo |-> item[g].lo, hi |-> item[g].hi])]

SendReplay ==
    /\ pc = "resend"
    /\ Deliver(req.g, req.key)
    /\ item' = Set(item, req.g, NoItem)
    /\ pc' = "activate"
    /\ UNCHANGED <<eggVars, inVars, req, keyVars, strVars, out, key, started, over>>

\* Step 7: the controller's key and stream; a spectator keeps his own.
Activate ==
    /\ pc = "activate"
    /\ IF Controls(req)
       THEN gcm' = req.key /\ active' = req.g
       ELSE UNCHANGED <<gcm, active>>
    /\ out' = Set(out, req.g, "recv")
    /\ key' = Set(key, req.g, IF Controls(req) THEN NoKey ELSE req.key)
    /\ pc' = "idle" /\ req' = NoReq
    /\ UNCHANGED <<eggVars, inVars, cancelled, limit, strVars, item, cliVars, over>>
-----------------------------------------------------------------------------
(* The output goroutines *)

recvFrame == <<eggVars, inVars, attVars, keyVars, base, key, cliVars, over>>

Recv(g) ==
    /\ out[g] = "recv" /\ HasOutput(g)
    /\ item' = Set(item, g, NextItem(g))
    /\ pos' = Set(pos, g, IF pos[g] = -1 THEN base[g] ELSE pos[g] + 1)
    /\ out' = Set(out, g, "holds")
    /\ UNCHANGED <<recvFrame, stream>>

RecvBreaks(g) ==
    /\ out[g] = "recv" /\ RecvFails(g)
    /\ stream' = Set(stream, g, "ended")
    /\ out' = Set(out, g, "gone")
    /\ UNCHANGED <<recvFrame, pos, item>>

RecvExit(g) ==
    /\ out[g] = "recv" /\ ExitComes(g)
    /\ stream' = Set(stream, g, "ended")
    /\ out' = Set(out, g, "exit")
    /\ UNCHANGED <<recvFrame, pos, item>>

\* After the bell check: the key is read; without one the message is dropped.
TakeKey(g) ==
    /\ out[g] = "holds"
    /\ LET k == IF g \in viewers THEN key[g] ELSE gcm IN
        IF k = NoKey
        THEN /\ out' = Set(out, g, "recv") /\ item' = Set(item, g, NoItem)
             /\ key' = key
        ELSE /\ out' = Set(out, g, "send") /\ key' = Set(key, g, k)
             /\ item' = item
    /\ UNCHANGED <<eggVars, inVars, attVars, keyVars, strVars, cliVars, over>>

Send(g) ==
    /\ out[g] = "send"
    /\ Deliver(g, key[g])
    /\ out' = Set(out, g, "recv") /\ item' = Set(item, g, NoItem)
    /\ key' = Set(key, g, IF g \in viewers THEN key[g] ELSE NoKey)
    /\ UNCHANGED <<eggVars, inVars, attVars, keyVars, strVars, started, over>>

\* pty.exited; the controller's goroutine ends the session with it.
ReportExit(g) ==
    /\ out[g] = "exit"
    /\ out' = Set(out, g, "gone")
    /\ over' = (over \/ g \notin viewers)
    /\ UNCHANGED <<eggVars, inVars, attVars, keyVars, strVars, item, key, cliVars>>
-----------------------------------------------------------------------------
EggStep(g) == Snapshots(g) \/ Refuses(g)
InputStep ==
    \/ TakeAttach \/ TakeSpectate \/ TakeKill
    \/ Announce \/ Connect \/ ConnectFails \/ GetReplay \/ NoReplay
    \/ SendReplay \/ Activate
OutputStep(g) ==
    Recv(g) \/ RecvBreaks(g) \/ RecvExit(g) \/ TakeKey(g) \/ Send(g) \/ ReportExit(g)

Finished ==
    /\ Dead /\ pc \in {"idle", "gone"} /\ (pc = "idle" => input = <<>>)
    /\ \A g \in Clients : out[g] \in {"none", "gone"}
    /\ UNCHANGED vars

Next ==
    \/ Produces \/ Exits \/ Stops \/ Crashes
    \/ Comes("attach") \/ Comes("spectate") \/ SendKill
    \/ InputStep
    \/ \E g \in Clients : EggStep(g) \/ OutputStep(g)
    \/ Finished

\* Goroutines run and the egg answers; SIGTERM ends the agent.  Nothing makes
\* a browser come, or an agent write or exit by itself.
Fairness ==
    /\ WF_vars(Stops) /\ WF_vars(InputStep) /\ WF_vars(pc = "gone" /\ Exits)
    /\ \A g \in Clients : WF_vars(EggStep(g)) /\ WF_vars(OutputStep(g))

Spec == Init /\ [][Next]_vars /\ Fairness
-----------------------------------------------------------------------------
(* Properties *)

Item == [lo : Nat, hi : Nat]
Req  == [kind : {"none", "attach", "spectate", "kill"}, g : Clients, key : Keys]

TypeOK ==
    /\ egg \in {"live", "exiting", "stopping", "gone", "crashed"}
    /\ produced \in 0..MaxOutput
    /\ input \in Seq(Req) /\ Len(input) <= InputCap /\ clients \in Clients
    /\ pc \in {"idle", "announce", "connect", "replay", "resend", "activate", "gone"}
    /\ req \in Req /\ gcm \in Keys /\ active \in Clients
    /\ cancelled \subseteq Clients /\ viewers \subseteq Clients
    /\ limit \in [Clients -> 0..MaxOutput+1]
    /\ stream \in [Clients -> {"none", "asked", "late", "open", "ended"}]
    /\ out \in [Clients -> {"none", "recv", "holds", "send", "exit", "gone"}]
    /\ \A g \in Clients : base[g] \in 0..produced /\ pos[g] \in -1..produced
    /\ item \in [Clients -> Item] /\ key \in [Clients -> Keys]
    /\ started \in Keys /\ over \in BOOLEAN

\* Of the first k messages in s, those of stream c end at chunk n.
Reaches(s, c, k, n) ==
    LET own == {i \in 1..k : s[i].src = c} IN
        IF own = {} THEN n = 0
        ELSE \E i \in own : s[i].hi = n /\ \A j \in own : j <= i

\* What stream c brings now is encrypted for client c and goes to it.
Keyed(c) == IF c \in viewers THEN key[c] = c ELSE gcm = c /\ started = c

\* However a reattach and the old goroutine interleave, the first output a
\* client can decrypt starts its replay, if the egg sent one (step 6 before
\* step 7).
ReplayFirst ==
    \A c \in Clients :
        pos[c] # -1 /\ seen[c] # <<>> => Head(seen[c]).lo = 1

\* What a client gets from its own stream is the replay and then every chunk,
\* once and in order: the key is there when its goroutine starts (step 7).
OwnStreamExact ==
    \A c \in Clients : \A i \in DOMAIN seen[c] :
        seen[c][i].src = c => Reaches(seen[c], c, i - 1, seen[c][i].lo - 1)

\* A client whose stream brings the exit code has had all the output before.
EndIsComplete ==
    \A c \in Clients : out[c] = "exit" /\ Keyed(c)
        => Reaches(seen[c], c, Len(seen[c]), produced)

\* After a kill the session ends, but for a crash of the egg: the goroutine
\* that took it was the last to change the stream, and left a live one.
KillEnds == (pc = "gone" /\ egg = "live") ~> (over \/ egg = "crashed")

\* The session ends with the agent when no reattach is under way or follows.
Settled ==
    /\ pc \in {"idle", "gone"} /\ clients = MaxClients
    /\ \A i \in DOMAIN input : ~Controls(input[i])
    /\ active \notin cancelled /\ stream[active] = "open"
ExitEnds == (egg = "exiting" /\ Settled) ~> (over \/ egg = "crashed")

\* No output goroutine outlives the egg.
StreamsEnd == \A g \in Clients : (out[g] # "none" /\ Dead) ~> (out[g] = "gone")
\* wing.go:3623: the handler waits "for session to end".
SessionEnds == (egg = "exiting") ~> over

\* What the runs check: what a client is sent, and that everything ends.
StreamsExact == ReplayFirst /\ OwnStreamExact /\ EndIsComplete
AllEnds == KillEnds /\ ExitEnds /\ StreamsEnd
=============================================================================
