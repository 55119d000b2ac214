------------------------------ MODULE PTYRelay ------------------------------
(***************************************************************************)
(* The relay between the browsers and the wing of one PTY session           *)
(* (internal/relay/pty_relay.go): the routing entry that says which         *)
(* connection controls the session and which ones watch it.  Every browser  *)
(* connection has a goroutine that changes the entry and forwards to the    *)
(* wing; the goroutine that reads the wing's connection forwards back.      *)
(*                                                                          *)
(* An entry is an object with a lock of its own, and the table maps the     *)
(* session to one of them: a goroutine that looked an entry up may hold one *)
(* that the table has lost.                                                 *)
(***************************************************************************)
EXTENDS Integers, Sequences, FiniteSets, SequencesExt

CONSTANTS
    Conns,      \* browser connections
    None,       \* no connection
    Metered     \* the relay meters bandwidth

ASSUME RelayAssumption ==
    /\ None \notin Conns /\ IsFiniteSet(Conns)
    /\ Metered \in BOOLEAN

\* Entries, in the order they are made; 0 is none.  A connection makes at most
\* one.
Entries == 1..Cardinality(Conns)

VARIABLES
    route,    \* the table's entry for the session
    made,     \* entries made so far
    bc,       \* per entry, BrowserConn
    viewers,  \* per entry, the connections in Viewers
    pc,       \* per connection: "idle", "attach" or "view" or "detach" (it
              \* looked the entry up), "forward", "closed"
    ask,      \* the request it is handling
    held,     \* the entry it looked up
    role,     \* what it is for the browser: "none" yet, "controller",
              \* "viewer", "left" (it has detached or killed)
    got,      \* what it has been sent: "data" (its own: the keys are the
              \* clients'), "exited", "exceeded"
    sess,     \* the session at the wing: "none", "live", "ended"
    ctrl,     \* the wing's controller: the client whose key it uses
    owed,     \* exit messages not sent yet, per viewer and None for the rest
    watching, \* the wing's spectators
    toWing,   \* forwarded and not handled yet
    fromWing, \* sent by the wing and not read yet
    fwd       \* the wing's reader: where it is, its entry, message, addressees

tblVars == <<route, made, bc, viewers>>
connVars == <<pc, ask, held, role>>
wingVars == <<sess, ctrl, owed, watching>>
vars == <<tblVars, connVars, got, wingVars, toWing, fromWing, fwd>>

NoMsg == [kind |-> "none", to |-> None, key |-> None]
Rest == [pc |-> "idle", entry |-> 0, msg |-> NoMsg, to |-> {}]

\* A session that will be started, or one that a restarted relay has no entry
\* for.
Init ==
    /\ route = 0 /\ made = 0
    /\ bc = [e \in Entries |-> None] /\ viewers = [e \in Entries |-> {}]
    /\ pc = [c \in Conns |-> "idle"] /\ ask = [c \in Conns |-> "none"]
    /\ held = [c \in Conns |-> 0] 
    /\ role = [c \in Conns |-> "none"] /\ got = [c \in Conns |-> {}]
    /\ sess \in {"none", "live"}
    /\ ctrl = None /\ owed = {} /\ watching = {}
    /\ toWing = <<>> /\ fromWing = <<>> /\ fwd = Rest
-----------------------------------------------------------------------------
(* The table *)

\* PTYRoutes.Set with a new entry controlled by c.
SetEntry(c) ==
    /\ made' = made + 1 /\ route' = made'
    /\ bc' = [bc EXCEPT ![made'] = c]
    /\ viewers' = viewers

IsSpectator(c) == route # 0 /\ c \in viewers[route]

Forget(c, e) ==
    /\ bc' = [bc EXCEPT ![e] = IF @ = c THEN None ELSE @]
    /\ viewers' = [viewers EXCEPT ![e] = @ \ {c}]
-----------------------------------------------------------------------------
(* A browser's connection: handlePTYWS.  Its requests are handled one after *)
(* the other; the lookup, the change of the entry and the write to the wing *)
(* are steps of their own.                                                  *)

\* A browser's first message says what it wants to be; it opens a connection
\* for each (web/src/pty.js).
Asks(c, kind, from, to) ==
    /\ pc[c] = "idle" /\ role[c] \in from
    /\ ask' = [ask EXCEPT ![c] = kind]
    /\ role' = [role EXCEPT ![c] = to]

Present == {"controller", "viewer"}

Goes(c, p) == pc' = [pc EXCEPT ![c] = p]

\* Back to the loop that reads the next request.
Done(c, p) ==
    /\ Goes(c, p)
    /\ ask' = [ask EXCEPT ![c] = "none"] /\ held' = [held EXCEPT ![c] = 0]

connFrame == <<wingVars, toWing, fromWing, fwd>>

\* pty.start makes the session's identifier.
Start(c) ==
    /\ sess = "none" /\ made = 0
    /\ Asks(c, "start", {"none"}, "controller")
    /\ SetEntry(c)
    /\ Goes(c, "forward")
    /\ UNCHANGED <<held, got, connFrame>>

\* pty.attach, as controller or spectator, to a session the browser knows.
Attach(c, kind) ==
    /\ sess # "none"
    /\ Asks(c, kind, {"none"}, IF kind = "attach" THEN "controller" ELSE "viewer")
    /\ held' = [held EXCEPT ![c] = route]
    /\ Goes(c, IF kind = "attach" THEN "attach" ELSE "view")
    /\ UNCHANGED <<tblVars, got, connFrame>>

\* Mutant: an attach leaves a missing entry to pty.start.
MutantNoSet(c) ==
    /\ pc[c] = "attach"
    /\ bc' = IF held[c] # 0 THEN [bc EXCEPT ![held[c]] = c] ELSE bc
    /\ Goes(c, "forward")
    /\ UNCHANGED <<route, made, viewers, ask, held, role, got, connFrame>>

\* The entry found gets the connection; without one a new entry is set.
TakeControl(c) ==
    /\ pc[c] = "attach"
    /\ IF held[c] # 0
       THEN bc' = [bc EXCEPT ![held[c]] = c] /\ UNCHANGED <<route, made, viewers>>
       ELSE SetEntry(c)
    /\ Goes(c, "forward")
    /\ UNCHANGED <<ask, held, role, got, connFrame>>

\* PTYRoutes.AddViewer: without an entry nothing is recorded.
AddViewer(c) ==
    /\ pc[c] = "view"
    /\ viewers' = IF held[c] # 0 THEN [viewers EXCEPT ![held[c]] = @ \union {c}]
                  ELSE viewers
    /\ Goes(c, "forward")
    /\ UNCHANGED <<route, made, bc, ask, held, role, got, connFrame>>

\* pty.kill; input, resizes and the like take the same way.
Kill(c) ==
    /\ sess # "none" /\ ~IsSpectator(c)
    /\ Asks(c, "kill", Present, "left")
    /\ Goes(c, "forward")
    /\ UNCHANGED <<tblVars, held, got, connFrame>>

Forward(c) ==
    /\ pc[c] = "forward"
    /\ toWing' = Append(toWing, [kind |-> ask[c], conn |-> c])
    /\ Done(c, "idle")
    /\ UNCHANGED <<tblVars, role, got, wingVars, fromWing, fwd>>

AskDetach(c) ==
    /\ route # 0
    /\ Asks(c, "detach", Present, "left")
    /\ held' = [held EXCEPT ![c] = route]
    /\ Goes(c, "detach")
    /\ UNCHANGED <<tblVars, got, connFrame>>

\* Mutant: whoever has the session is detached.
MutantDetachAny(c) ==
    /\ pc[c] = "detach"
    /\ bc' = [bc EXCEPT ![held[c]] = None]
    /\ viewers' = [viewers EXCEPT ![held[c]] = @ \ {c}]
    /\ Done(c, "idle")
    /\ UNCHANGED <<route, made, role, got, connFrame>>

Detach(c) ==
    /\ pc[c] = "detach"
    /\ Forget(c, held[c])
    /\ Done(c, "idle")
    /\ UNCHANGED <<route, made, role, got, connFrame>>

\* The connection ends: PTYRoutes.ClearBrowser on every entry in the table.
Close(c) ==
    /\ pc[c] = "idle" /\ role[c] # "none"
    /\ IF route # 0 THEN Forget(c, route) ELSE UNCHANGED <<bc, viewers>>
    /\ Goes(c, "closed")
    /\ UNCHANGED <<route, made, ask, held, role, got, connFrame>>
-----------------------------------------------------------------------------
(* The wing, as WingSession describes it: what it does with a message and   *)
(* what it sends.                                                           *)

wingFrame == <<tblVars, connVars, got, fwd>>

Msg(kind, to, key) == [kind |-> kind, to |-> to, key |-> key]

Takes(kind) == toWing # <<>> /\ Head(toWing).kind = kind /\ toWing' = Tail(toWing)

\* pty.started, then output under the client's key.
WingTakesControl ==
    /\ \/ Takes("start") /\ sess = "none"
       \/ Takes("attach") /\ sess = "live"
    /\ sess' = "live"
    /\ ctrl' = Head(toWing).conn
    /\ fromWing' = Append(fromWing, Msg("data", None, ctrl'))
    /\ UNCHANGED <<owed, watching, wingFrame>>

\* Spectating may be off.
WingTakesViewer ==
    /\ Takes("spectate") /\ sess = "live"
    /\ LET c == Head(toWing).conn IN
        \/ /\ watching' = watching \union {c}
           /\ fromWing' = Append(fromWing, Msg("data", c, c))
        \/ /\ fromWing' = Append(fromWing, Msg("exited", c, c))
           /\ watching' = watching
    /\ UNCHANGED <<sess, ctrl, owed, wingFrame>>

Ends == sess' = "ended" /\ owed' = watching \union {None}

\* The agent is killed, and exits.
WingTakesKill ==
    /\ Takes("kill") /\ sess = "live"
    /\ Ends
    /\ UNCHANGED <<ctrl, watching, fromWing, wingFrame>>

\* A session that has ended, or that the wing does not know.
WingIgnores ==
    /\ toWing # <<>> /\ sess = "ended"
    /\ toWing' = Tail(toWing)
    /\ UNCHANGED <<wingVars, fromWing, wingFrame>>

AgentExits ==
    /\ sess = "live"
    /\ Ends
    /\ UNCHANGED <<ctrl, watching, toWing, fromWing, wingFrame>>

\* The streams' goroutines report the exit in any order.
SendExited(x) ==
    /\ x \in owed
    /\ owed' = owed \ {x}
    /\ fromWing' = Append(fromWing, Msg("exited", x, x))
    /\ UNCHANGED <<sess, ctrl, watching, toWing, wingFrame>>
-----------------------------------------------------------------------------
(* The reader of the wing's connection: handleWingWS and                    *)
(* forwardPTYToBrowser, one message at a time                               *)

fwdFrame == <<connVars, wingVars, toWing>>

\* Looks the entry up; without one the message is dropped.
Fetch ==
    /\ fwd.pc = "idle" /\ fromWing # <<>>
    /\ fromWing' = Tail(fromWing)
    /\ fwd' = IF route = 0 THEN Rest
              ELSE [Rest EXCEPT !.pc = "have", !.entry = route, !.msg = Head(fromWing)]
    /\ UNCHANGED <<tblVars, got, fwdFrame>>

\* Mutant: a controller that is not there is written to.
MutantNilConn(e, m) ==
    IF m.to # None THEN {m.to} \intersect viewers[e]
    ELSE {bc[e]} \union (IF m.kind = "exited" THEN viewers[e] ELSE {})

Addressees(e, m) ==
    (CASE m.to # None        -> {m.to} \intersect viewers[e]
       [] m.kind = "exited"  -> {bc[e]} \union viewers[e]
       [] OTHER              -> {bc[e]}) \ {None}

\* Under the entry's lock: the addressees; a viewer's exit takes it out.
Pick ==
    /\ fwd.pc = "have"
    /\ LET e == fwd.entry m == fwd.msg IN
        /\ fwd' = [fwd EXCEPT !.pc = "tell", !.to = Addressees(e, m)]
        /\ viewers' = IF m.kind = "exited" THEN [viewers EXCEPT ![e] = @ \ {m.to}]
                      ELSE viewers
    /\ UNCHANGED <<route, made, bc, got, fromWing, fwdFrame>>

\* Writes to them; output counts for a client only under its own key.
Tell ==
    /\ fwd.pc = "tell"
    /\ got' = [c \in Conns |->
                got[c] \union (IF c \in fwd.to /\ (fwd.msg.kind = "exited" \/ fwd.msg.key = c)
                               THEN {fwd.msg.kind} ELSE {})]
    /\ fwd' = IF fwd.msg.kind = "exited" /\ fwd.msg.to = None
              THEN [fwd EXCEPT !.pc = "remove"] ELSE Rest
    /\ UNCHANGED <<tblVars, fromWing, fwdFrame>>

\* The user is over the month's limit: the controller is told, and whoever is
\* the controller by then is detached.
Exceed ==
    /\ Metered /\ fwd.pc = "tell" /\ fwd.msg.kind = "data" /\ fwd.msg.to = None
    /\ fwd.to # {}
    /\ got' = [c \in Conns |-> got[c] \union (IF c \in fwd.to THEN {"exceeded"} ELSE {})]
    /\ fwd' = [fwd EXCEPT !.pc = "over"]
    /\ UNCHANGED <<tblVars, fromWing, fwdFrame>>

DetachExceeded ==
    /\ fwd.pc = "over"
    /\ bc' = [bc EXCEPT ![fwd.entry] = None]
    /\ fwd' = Rest
    /\ UNCHANGED <<route, made, viewers, got, fromWing, fwdFrame>>

\* PTYRoutes.Remove, after the controller's exit message.
RemoveEntry ==
    /\ fwd.pc = "remove"
    /\ route' = 0
    /\ fwd' = Rest
    /\ UNCHANGED <<made, bc, viewers, got, fromWing, fwdFrame>>

-----------------------------------------------------------------------------
Handles(c) == TakeControl(c) \/ AddViewer(c) \/ Forward(c) \/ Detach(c)

Reads == Fetch \/ Pick \/ Tell \/ Exceed \/ DetachExceeded \/ RemoveEntry

WingWorks == WingTakesControl \/ WingTakesViewer \/ WingTakesKill \/ WingIgnores

Next ==
    \/ \E c \in Conns :
        \/ Start(c) \/ Attach(c, "attach") \/ Attach(c, "spectate")
        \/ Kill(c) \/ AskDetach(c) \/ Close(c) \/ Handles(c)
    \/ WingWorks \/ AgentExits \/ (\E x \in Conns \union {None} : SendExited(x))
    \/ Reads

\* Goroutines run, writes return (the relay gives them 5 s), the wing handles
\* what it gets and reports the exit, and the relay closes the connection of a
\* client that it told of the limit.
Spec ==
    /\ Init /\ [][Next]_vars
    /\ \A c \in Conns : WF_vars(Handles(c)) /\ WF_vars("exceeded" \in got[c] /\ Close(c))
    /\ WF_vars(Reads) /\ WF_vars(WingWorks) 
    /\ \A x \in Conns \union {None} : WF_vars(SendExited(x))
-----------------------------------------------------------------------------
Kinds == {"data", "exited", "exceeded"}
Msgs == [kind : {"none", "data", "exited"}, to : Conns \union {None}, key : Conns \union {None}]

\* The state has its type.
TypeOK ==
    /\ made \in 0..Cardinality(Conns) /\ route \in 0..made
    /\ bc \in [Entries -> Conns \union {None}]
    /\ viewers \in [Entries -> SUBSET Conns]
    /\ pc \in [Conns -> {"idle", "attach", "view", "detach", "forward", "closed"}]
    /\ held \in [Conns -> 0..made]
    /\ role \in [Conns -> {"none", "controller", "viewer", "left"}]
    /\ got \in [Conns -> SUBSET Kinds]
    /\ sess \in {"none", "live", "ended"} /\ ctrl \in Conns \union {None}
    /\ owed \subseteq Conns \union {None} /\ watching \subseteq Conns
    /\ fwd.pc \in {"idle", "have", "tell", "over", "remove"}
    /\ fwd.entry \in 0..made /\ fwd.msg \in Msgs /\ fwd.to \subseteq Conns

\* A connection that has ended is in no entry of the table, whatever the
\* requests it left under way.
ClosedForgotten ==
    \A c \in Conns : pc[c] = "closed" /\ route # 0
        => bc[route] # c /\ c \notin viewers[route]

\* The controller loses the session to another's attach or by its own detach
\* or close, never to someone else's; but for the bandwidth limit, which takes
\* it from whoever has it (pty_relay.go:599).
ControllerKept ==
    [][\A e \in Entries : bc[e] # None /\ bc'[e] # bc[e] =>
        \/ (bc'[e] # None /\ pc[bc'[e]] = "attach")
        \/ pc[bc[e]] = "detach" \/ pc'[bc[e]] = "closed"
        \/ fwd.pc = "over"]_vars

\* An entry leaves the table only when the session has ended, though exit
\* messages also come for spectators alone.
EntryKept == [][route # 0 /\ route' = 0 => sess = "ended"]_vars

Stays(c) == pc[c] # "closed" /\ role[c] \in Present

\* Another client takes the session over at the same time.
Contended(c) == \E d \in Conns \ {c} : ask[d] \in {"attach", "start"}

\* The client the wing took for the controller, and those that watch, learn
\* of the session's end if they stay and keep the session.
ExitTold ==
    \A c \in Conns :
        (/\ sess = "ended" /\ route # 0
         /\ (ctrl = c /\ bc[route] = c) \/ (c \in watching /\ c \in viewers[route]))
            ~> ("exited" \in got[c] \/ ~Stays(c) \/ Contended(c) \/ fwd.pc = "over")

\* A client that attaches, even to a session the relay has forgotten, gets its
\* output.
AttachServed ==
    \A c \in Conns :
        (pc[c] = "attach" /\ sess = "live")
            ~> ("data" \in got[c] \/ sess = "ended" \/ ~Stays(c) \/ Contended(c)
                \/ fwd.pc = "over")

\* What the run checks: who is in the table, and what clients are told.
RouteSound == []ClosedForgotten /\ ControllerKept /\ EntryKept
ClientsTold == ExitTold /\ AttachServed
=============================================================================
