------------------------------ MODULE WingDaemon ------------------------------
(***************************************************************************)
(* The wing daemon (cmd/wt/wing.go), its connection to the relay            *)
(* (internal/ws/client.go), and the lives of its eggs (cmd/wt/egg.go,       *)
(* internal/egg/server.go): sessions are started by pty.start, survive the  *)
(* wing, and are found again through the files their eggs keep.             *)
(*                                                                          *)
(* A handler is the goroutine of one session, handlePTYSession or           *)
(* handleReclaimedPTY; WingSession describes what it does with keys and     *)
(* output.  Here it starts, waits for a passkey, takes a kill and returns.  *)
(***************************************************************************)
EXTENDS Integers, Sequences, FiniteSets

CONSTANTS
    Sessions,
    MaxHandlers,  \* bound: handlers over all lives of the wing
    MaxScans,     \* bound: registrations with the relay
    MaxMessages,  \* bound: messages of the relay for sessions
    InputCap,     \* capacity of the input channel of a handler (64)
    MaxDeaths     \* bound: times the wing or an egg dies without cleaning up

ASSUME DaemonAssumption ==
    /\ MaxHandlers \in Nat /\ MaxScans \in Nat /\ MaxMessages \in Nat
    /\ InputCap \in Nat \ {0} /\ MaxDeaths \in Nat
    /\ "none" \notin Sessions     \* NoSession

Handlers == 1..MaxHandlers
Scans == 1..MaxScans
None == 0
NoSession == "none"

VARIABLES
    wing,      \* "down", "reaping" (reapDeadEggs), "up"
    link,      \* "off", "dialed" (wing.register sent), "on" (registered)
    proc,      \* per session, its egg: "none", "boot", "listen" (socket and
               \* token written), "up" (pid written), "ending", "dead"
    told,      \* sessions whose agent, or egg, was sent SIGTERM
    files,     \* per session, "token" and "pid" in its directory
    sweep,     \* per session, whether cleanEggDir is to run: "no", "dead"
               \* (its process is), "stale" (it had no pid file), "killed"
    handler,   \* per handler [s, kind, pc, in, inbox]
    table,     \* ptySessions: the handler that owns the input channel
    scan,      \* per registration, reclaimEggSessions: [pc, todo, at]
    overlap,   \* two of them have run at once
    killing,   \* sessions with an OnOrphanKill goroutine
    watched,   \* sessionStates: sessions with an idle record
    used       \* [messages, deaths]: what was spent of the bounds

eggVars == <<proc, told, files>>
tabVars == <<handler, table, watched>>
scanVars == <<scan, overlap>>
vars == <<wing, link, eggVars, sweep, tabVars, scanVars, killing, used>>

NoHandler == [s |-> NoSession, kind |-> "none", pc |-> "none", in |-> "idle", inbox |-> <<>>]
NoScan == [pc |-> "none", todo |-> {}, at |-> NoSession]
Both == {"token", "pid"}

Alive(s) == proc[s] \in {"boot", "listen", "up", "ending"}
Live(h) == handler[h].pc \notin {"none", "done"}
Of(s) == {h \in Handlers : Live(h) /\ handler[h].s = s}
Free == {h \in Handlers : handler[h].pc = "none"}
Scanning == {r \in Scans : scan[r].pc = "scan"}

Init ==
    /\ wing = "reaping" /\ link = "off"
    /\ proc = [s \in Sessions |-> "none"] /\ told = {}
    /\ files = [s \in Sessions |-> {}] /\ sweep = [s \in Sessions |-> "no"]
    /\ handler = [h \in Handlers |-> NoHandler]
    /\ table = [s \in Sessions |-> None] /\ watched = {}
    /\ scan = [r \in Scans |-> NoScan] /\ overlap = FALSE
    /\ killing = {}
    /\ used = [messages |-> 0, deaths |-> 0]
-----------------------------------------------------------------------------
(* An egg: wt egg run *)

\* RunSession has started the agent: it listens, then writes its token.
Listens(s) ==
    /\ proc[s] = "boot"
    /\ proc' = [proc EXCEPT ![s] = "listen"]
    /\ files' = [files EXCEPT ![s] = @ \union {"token"}]
    /\ UNCHANGED <<wing, link, told, sweep, tabVars, scanVars, killing, used>>

\* It writes its pid and its meta data, and serves.
Serves(s) ==
    /\ proc[s] = "listen"
    /\ proc' = [proc EXCEPT ![s] = "up"]
    /\ files' = [files EXCEPT ![s] = @ \union {"pid"}]
    /\ UNCHANGED <<wing, link, told, sweep, tabVars, scanVars, killing, used>>

\* No agent, no sandbox, no socket: RunSession returns and the directory goes.
BootFails(s) ==
    /\ proc[s] = "boot"
    /\ proc' = [proc EXCEPT ![s] = "dead"] /\ files' = [files EXCEPT ![s] = {}]
    /\ UNCHANGED <<wing, link, told, sweep, tabVars, scanVars, killing, used>>

\* The agent exits by itself, after a SIGTERM, or at the egg's own idle limit.
AgentEnds(s) ==
    /\ proc[s] = "up"
    /\ proc' = [proc EXCEPT ![s] = "ending"]
    /\ UNCHANGED <<wing, link, told, files, sweep, tabVars, scanVars, killing, used>>

\* GracefulStop waits for the streams, which end with the exit code; then the
\* egg cleans up.
Leaves(s) ==
    /\ proc[s] = "ending"
    /\ \A h \in Of(s) : handler[h].pc # "run"
    /\ proc' = [proc EXCEPT ![s] = "dead"] /\ files' = [files EXCEPT ![s] = {}]
    /\ UNCHANGED <<wing, link, told, sweep, tabVars, scanVars, killing, used>>

EggDies(s) ==
    /\ Alive(s) /\ used.deaths < MaxDeaths
    /\ proc' = [proc EXCEPT ![s] = "dead"]
    /\ used' = [used EXCEPT !.deaths = @ + 1]
    /\ UNCHANGED <<wing, link, told, files, sweep, tabVars, scanVars, killing>>
-----------------------------------------------------------------------------
(* Cleaning up after others *)

\* cleanEggDir, some time after what called for it was seen.
Sweeps(s) ==
    /\ sweep[s] # "no" /\ wing # "down"
    /\ sweep' = [sweep EXCEPT ![s] = "no"] /\ files' = [files EXCEPT ![s] = {}]
    /\ UNCHANGED <<wing, link, proc, told, tabVars, scanVars, killing, used>>

\* Mutant: the process is not asked whether it lives.
MutantToSweep(s) == IF "pid" \notin files[s] THEN "stale" ELSE "dead"
ToSweep(s) ==
    IF "pid" \notin files[s] THEN "stale" ELSE IF Alive(s) THEN "no" ELSE "dead"

\* reapDeadEggs reads the directories, once, before the wing connects.
Reaps ==
    /\ wing = "reaping"
    /\ wing' = "up"
    /\ sweep' = [s \in Sessions |-> IF proc[s] = "none" THEN "no" ELSE ToSweep(s)]
    /\ UNCHANGED <<link, eggVars, tabVars, scanVars, killing, used>>

\* listAliveEggSessions finds an egg dead when a browser asks for the list.
Lists(s) ==
    /\ wing = "up" /\ link = "on" /\ "pid" \in files[s] /\ ~Alive(s)
    /\ sweep' = [sweep EXCEPT ![s] = "dead"]
    /\ UNCHANGED <<wing, link, eggVars, tabVars, scanVars, killing, used>>

\* killOrphanEgg: by gRPC if it has a token, which waits for a listening egg
\* to serve, else by pid; the directory is cleaned in any case.
OrphanTold(s) == {t \in {s} : Alive(s) /\ files[s] # {}}
KillsOrphan(s) ==
    /\ s \in killing
    /\ "token" \in files[s] => proc[s] # "listen"
    /\ told' = told \union OrphanTold(s)
    /\ killing' = killing \ {s}
    /\ sweep' = [sweep EXCEPT ![s] = IF files[s] = {} THEN "stale" ELSE "killed"]
    /\ UNCHANGED <<wing, link, proc, files, tabVars, scanVars, used>>

\* The idle reaper kills a session and forgets its record, whether the egg
\* could be reached or not.
ReapsIdle(s) ==
    /\ s \in watched
    /\ "token" \in files[s] => proc[s] # "listen"
    /\ told' = told \union {t \in {s} : Alive(s) /\ "token" \in files[s]}
    /\ watched' = watched \ {s}
    /\ UNCHANGED <<wing, link, proc, files, sweep, handler, table, scanVars, killing, used>>
-----------------------------------------------------------------------------
(* Handlers *)

Become(h, pc) == handler' = [handler EXCEPT ![h].pc = pc]

\* Mutant: the deferred delete is forgotten.
MutantDone(s) == table
\* A handler's deferred calls: the table's entry goes by its session's name.
Done(s) == [table EXCEPT ![s] = None]

Returns(h) ==
    LET s == handler[h].s IN
    /\ handler' = [handler EXCEPT ![h] = [NoHandler EXCEPT !.s = s, !.pc = "done"]]
    /\ table' = Done(s)
    /\ watched' = watched \ {s}

\* A handler takes the lowest free number.
New(h) == h \in Free /\ \A g \in Free : h <= g
Begin(h, s, kind, pc) ==
    /\ New(h)
    /\ handler' = [handler EXCEPT ![h] =
            [s |-> s, kind |-> kind, pc |-> pc, in |-> "idle", inbox |-> <<>>]]
    /\ table' = [table EXCEPT ![s] = h]

\* pty.start, with an id of its own: the user may have to show a passkey.
Starts(h, s) ==
    /\ wing = "up" /\ link = "on" /\ \A g \in Handlers : handler[g].s # s
    /\ \E pc \in {"auth", "spawn"} : Begin(h, s, "fresh", pc)
    /\ UNCHANGED <<wing, link, eggVars, sweep, scanVars, watched, killing, used>>

\* It takes one message; while it waits for a passkey others are ignored.
Authenticates(h) ==
    /\ handler[h].pc = "auth"
    /\ \/ /\ handler[h].inbox # <<>> /\ Head(handler[h].inbox) # "response"
          /\ handler' = [handler EXCEPT ![h].inbox = Tail(@)]
          /\ UNCHANGED <<table, watched>>
       \/ /\ handler[h].inbox # <<>> /\ Head(handler[h].inbox) = "response"
          /\ \/ /\ handler' = [handler EXCEPT ![h].pc = "spawn", ![h].inbox = Tail(@)]
                /\ UNCHANGED <<table, watched>>
             \/ Returns(h)
       \/ Returns(h)     \* 60 seconds are over
    /\ UNCHANGED <<wing, link, eggVars, sweep, scanVars, killing, used>>

\* spawnEgg starts wt egg run in a session of its own, or refuses to.
Spawns(h) ==
    LET s == handler[h].s IN
    /\ handler[h].pc = "spawn"
    /\ \/ /\ Become(h, "poll") /\ proc' = [proc EXCEPT ![s] = "boot"]
          /\ UNCHANGED <<table, watched>>
       \/ Returns(h) /\ UNCHANGED proc
    /\ UNCHANGED <<wing, link, told, files, sweep, scanVars, killing, used>>

\* It looks for the egg's token every 100 ms, for five seconds.
Polls(h) ==
    LET s == handler[h].s IN
    /\ handler[h].pc = "poll"
    /\ \/ /\ "token" \in files[s]
          /\ Become(h, "attach") /\ watched' = watched \union {s}
          /\ UNCHANGED table
       \/ /\ "token" \notin files[s]
          /\ Returns(h)
    /\ UNCHANGED <<wing, link, eggVars, sweep, scanVars, killing, used>>

\* AttachSession; an egg that is stopping may refuse it.
Attaches(h) ==
    LET s == handler[h].s IN
    /\ handler[h].pc = "attach"
    /\ \/ /\ proc[s] \in {"listen", "up", "ending"}
          /\ Become(h, "run") /\ UNCHANGED table
          /\ watched' = watched \union {s}
       \/ proc[s] \in {"ending", "dead"} /\ Returns(h)
    /\ UNCHANGED <<wing, link, eggVars, sweep, scanVars, killing, used>>

\* The exit code comes on the stream.  A stream that breaks says nothing.
SeesExit(h) ==
    /\ handler[h].pc = "run" /\ proc[handler[h].s] = "ending"
    /\ Returns(h)
    /\ UNCHANGED <<wing, link, eggVars, sweep, scanVars, killing, used>>

\* The input goroutine takes a message: an attach may ask for a passkey, in a
\* handler that was reclaimed; a kill is its last.
TakesInput(h) ==
    LET m == Head(handler[h].inbox) s == handler[h].s IN
    /\ handler[h].pc = "run" /\ handler[h].in = "idle" /\ handler[h].inbox # <<>>
    /\ m = "kill" => proc[s] # "listen"
    /\ \E in \in CASE m = "kill" -> {"gone"}
                   [] m = "attach" /\ handler[h].kind = "reclaim" -> {"idle", "asks"}
                   [] OTHER -> {"idle"} :
           handler' = [handler EXCEPT ![h].in = in, ![h].inbox = Tail(@)]
    /\ told' = told \union {t \in {s} : m = "kill" /\ Alive(s)}
    /\ UNCHANGED <<wing, link, proc, files, sweep, table, watched, scanVars, killing, used>>

\* Waiting for the passkey of an attach: what comes meanwhile is thrown away,
\* and the timer's case goes on with the same loop, without a timer.
TakesPasskey(h) ==
    /\ handler[h].pc = "run"
    /\ \/ /\ handler[h].in \in {"asks", "stuck"} /\ handler[h].inbox # <<>>
          /\ \E in \in {handler[h].in} \union {i \in {"idle"} : Head(handler[h].inbox) = "response"} :
                handler' = [handler EXCEPT ![h].in = in, ![h].inbox = Tail(@)]
       \/ /\ handler[h].in = "asks"
          /\ handler' = [handler EXCEPT ![h].in = "stuck"]
    /\ UNCHANGED <<wing, link, eggVars, sweep, table, watched, scanVars, killing, used>>
-----------------------------------------------------------------------------
(* The connection *)

\* The table outlives the connection.
TableAtDial == table

Dials ==
    /\ wing = "up" /\ link = "off"
    /\ link' = "dialed" /\ table' = TableAtDial
    /\ UNCHANGED <<wing, eggVars, sweep, handler, watched, scanVars, killing, used>>

Drops ==
    /\ link # "off" /\ \E r \in Scans : scan[r].pc = "none"
    /\ link' = "off"
    /\ UNCHANGED <<wing, eggVars, sweep, tabVars, scanVars, killing, used>>

\* The relay answers "registered": OnReconnect runs in a goroutine of its own.
Registered(r) ==
    /\ link = "dialed" /\ scan[r].pc = "none" /\ \A q \in Scans : q < r => scan[q].pc # "none"
    /\ link' = "on"
    /\ scan' = [scan EXCEPT ![r] = [NoScan EXCEPT !.pc = "sleep"]]
    /\ UNCHANGED <<wing, eggVars, sweep, tabVars, overlap, killing, used>>

\* Mutant: nothing bounds the channel.
MutantPush(h, m) == [handler EXCEPT ![h].inbox = Append(@, m)]
Push(h, m) ==
    IF Len(handler[h].inbox) < InputCap
    THEN [handler EXCEPT ![h].inbox = Append(@, m)] ELSE handler

\* A message for a session goes into its channel, unless that is full; a kill
\* for a session without one kills the egg; an attach for one is dropped.
Receives(s, m) ==
    /\ link = "on" /\ used.messages < MaxMessages /\ proc[s] # "none"
    /\ used' = [used EXCEPT !.messages = @ + 1]
    /\ IF table[s] # None
       THEN handler' = Push(table[s], m) /\ UNCHANGED killing
       ELSE killing' = killing \union {t \in {s} : m = "kill"} /\ UNCHANGED handler
    /\ UNCHANGED <<wing, link, eggVars, sweep, table, watched, scanVars>>
-----------------------------------------------------------------------------
(* reclaimEggSessions *)

\* Half a second after the registration it reads the directory.
ScanBegins(r) ==
    /\ scan[r].pc = "sleep"
    /\ scan' = [scan EXCEPT ![r] = [pc |-> "scan", at |-> NoSession,
                                    todo |-> {s \in Sessions : proc[s] # "none"}]]
    /\ overlap' = (overlap \/ Scanning # {})
    /\ UNCHANGED <<wing, link, eggVars, sweep, tabVars, killing, used>>

\* Mutant: a session with a handler is not passed over.
MutantTracked(s) == FALSE
\* HasPTYSession
Tracked(s) == table[s] # None

ScanChecks(r, s) ==
    /\ scan[r].pc = "scan" /\ scan[r].at = NoSession /\ s \in scan[r].todo
    /\ LET on == "pid" \in files[s] /\ Alive(s) /\ ~Tracked(s) IN
       scan' = [scan EXCEPT ![r].todo = @ \ {s}, ![r].at = IF on THEN s ELSE NoSession]
    /\ sweep' = IF "pid" \in files[s] /\ ~Alive(s) THEN [sweep EXCEPT ![s] = "dead"] ELSE sweep
    /\ UNCHANGED <<wing, link, eggVars, tabVars, overlap, killing, used>>

\* It dials, for which it needs the token, registers a channel of its own and
\* starts the handler.
ScanRegisters(r, h) ==
    LET s == scan[r].at IN
    /\ scan[r].pc = "scan" /\ s # NoSession
    /\ IF "token" \in files[s] THEN Begin(h, s, "reclaim", "attach")
                               ELSE h = 1 /\ UNCHANGED <<handler, table>>
    /\ scan' = [scan EXCEPT ![r].at = NoSession]
    /\ UNCHANGED <<wing, link, eggVars, sweep, watched, overlap, killing, used>>

ScanEnds(r) ==
    /\ scan[r].pc = "scan" /\ scan[r].todo = {} /\ scan[r].at = NoSession
    /\ scan' = [scan EXCEPT ![r].pc = "done"]
    /\ UNCHANGED <<wing, link, eggVars, sweep, tabVars, overlap, killing, used>>
-----------------------------------------------------------------------------
(* The daemon dies, its eggs do not; it is started again *)

WingDies ==
    /\ wing # "down" /\ used.deaths < MaxDeaths
    /\ \E r \in Scans : scan[r].pc = "none"
    /\ wing' = "down" /\ link' = "off"
    /\ sweep' = [s \in Sessions |-> "no"]
    /\ handler' = [h \in Handlers |-> 
          IF Live(h) THEN [NoHandler EXCEPT !.s = handler[h].s, !.pc = "done"] ELSE handler[h]]
    /\ table' = [s \in Sessions |-> None] /\ watched' = {}
    /\ scan' = [r \in Scans |-> IF scan[r].pc = "none" THEN NoScan
                                ELSE [NoScan EXCEPT !.pc = "done"]]
    /\ overlap' = FALSE /\ killing' = {}
    /\ used' = [used EXCEPT !.deaths = @ + 1]
    /\ UNCHANGED eggVars

WingStarts ==
    /\ wing = "down"
    /\ wing' = "reaping"
    /\ UNCHANGED <<link, eggVars, sweep, tabVars, scanVars, killing, used>>

EggStep(s) == Listens(s) \/ Serves(s) \/ BootFails(s) \/ Leaves(s)
HandlerStep(h) ==
    \/ Authenticates(h) \/ Spawns(h) \/ Polls(h) \/ Attaches(h) \/ SeesExit(h)
    \/ TakesInput(h)
ScanStep(r) ==
    \/ ScanBegins(r) \/ ScanEnds(r)
    \/ \E s \in Sessions : ScanChecks(r, s)
    \/ \E h \in Handlers : ScanRegisters(r, h)

Next ==
    \/ \E s \in Sessions :
        \/ EggStep(s) \/ AgentEnds(s) \/ EggDies(s)
        \/ Sweeps(s) \/ Lists(s) \/ KillsOrphan(s) \/ ReapsIdle(s)
        \/ \E h \in Handlers : Starts(h, s)
        \/ \E m \in {"kill", "attach", "response"} : Receives(s, m)
    \/ \E h \in Handlers : HandlerStep(h) \/ TakesPasskey(h)
    \/ \E r \in Scans : ScanStep(r) \/ Registered(r)
    \/ Reaps \/ Dials \/ Drops \/ WingDies \/ WingStarts

\* Goroutines and processes that can go on do.  An agent that was sent SIGTERM
\* ends; nothing makes the relay answer, a browser ask or the wing restart.
Fairness ==
    /\ \A s \in Sessions :
        /\ WF_vars(EggStep(s)) /\ WF_vars(KillsOrphan(s))
        /\ WF_vars(s \in told /\ AgentEnds(s))
    /\ \A h \in Handlers : WF_vars(SeesExit(h)) /\ WF_vars(Attaches(h))
    /\ \A r \in Scans : WF_vars(ScanStep(r))

Spec == Init /\ [][Next]_vars /\ Fairness
-----------------------------------------------------------------------------
TypeOK ==
    /\ wing \in {"down", "reaping", "up"} /\ link \in {"off", "dialed", "on"}
    /\ proc \in [Sessions -> {"none", "boot", "listen", "up", "ending", "dead"}]
    /\ told \subseteq Sessions /\ killing \subseteq Sessions /\ watched \subseteq Sessions
    /\ files \in [Sessions -> SUBSET Both]
    /\ sweep \in [Sessions -> {"no", "dead", "stale", "killed"}]
    /\ \A h \in Handlers :
        /\ handler[h].s \in Sessions \union {NoSession}
        /\ handler[h].kind \in {"none", "fresh", "reclaim"}
        /\ handler[h].pc \in {"none", "auth", "spawn", "poll", "attach", "run", "done"}
        /\ handler[h].in \in {"idle", "asks", "stuck", "gone"}
        /\ Len(handler[h].inbox) <= InputCap
    /\ table \in [Sessions -> Handlers \union {None}]
    /\ \A r \in Scans : scan[r].pc \in {"none", "sleep", "scan", "done"}
    /\ overlap \in BOOLEAN

\* An entry of the client's table belongs to a handler that has not returned:
\* a kill is never put into a channel whose session is over, where it would be
\* lost instead of going to killOrphanEgg.
EntryServed ==
    \A s \in Sessions : table[s] # None =>
        Live(table[s]) /\ handler[table[s]].s = s

\* An egg gets a second handler, which would decrypt and answer the same
\* browser twice, only when two reclaims have run at the same time.
OneHandler == \A s \in Sessions : Cardinality(Of(s)) > 1 => overlap

\* A session that is being handled can be attached to and killed: unless two
\* reclaims overlapped, its handler is the one in the table.
HandlerListed == \A s \in Sessions : \A h \in Of(s) : table[s] = h \/ overlap

\* What cleans up leaves an egg that serves its files, by which alone it is
\* found again, until it is told to end; the one exception is an egg that had
\* not written its pid yet when a starting wing or a kill looked at it.
FilesKept ==
    [][\A s \in Sessions :
        (proc[s] = "up" /\ s \notin told /\ files[s] = Both /\ files'[s] # Both)
            => sweep[s] = "stale" \/ proc'[s] # "up"]_vars

\* A kill for a session nobody handles ends its egg, if it has its pid file.
OrphanDies ==
    \A s \in Sessions :
        (s \in killing /\ proc[s] = "up" /\ "pid" \in files[s] /\ sweep[s] # "stale")
        ~> (proc[s] = "dead" \/ wing = "down")

\* When a wing registers, every egg that serves and has its files is handled
\* again, unless the connection or the wing goes first.
Reclaims ==
    \A s \in Sessions :
        (proc[s] = "up" /\ files[s] = Both /\ \E r \in Scans : scan[r].pc = "sleep")
            ~> (Of(s) # {} \/ files[s] # Both \/ proc[s] # "up" \/ wing = "down")

\* A session's messages go to the one handler there is for it, and an egg that
\* nobody handles or that serves on is looked after as above.
HandlersHold == EntryServed /\ OneHandler /\ HandlerListed
EggsKept == FilesKept /\ OrphanDies
===============================================================================
