-------------------------- MODULE WingDaemon_proofs --------------------------
(***************************************************************************)
(* WingDaemon's type invariant, HandlersHold and FilesKept, for any number  *)
(* of sessions, handlers and registrations.                                 *)
(***************************************************************************)
EXTENDS WingDaemon, SequenceTheorems, FiniteSetTheorems, TLAPS

(* The inductive invariant *)

Msgs == {"kill", "attach", "response"}
Handler == [s : Sessions \union {NoSession}, kind : {"none", "fresh", "reclaim"},
            pc : {"none", "auth", "spawn", "poll", "attach", "run", "done"},
            in : {"idle", "asks", "stuck", "gone"}, inbox : Seq(Msgs)]

Types ==
    /\ TypeOK
    /\ handler \in [Handlers -> Handler]
    /\ \A h \in Handlers : handler[h].pc # "none" => handler[h].s \in Sessions
    /\ scan \in [Scans -> [pc : {"none", "sleep", "scan", "done"}, todo : SUBSET Sessions,
                           at : Sessions \union {NoSession}]]

\* Reclaims run one at a time, or it is known that they did not.
OneScan ==
    \A r, q \in Scans : scan[r].pc = "scan" /\ scan[q].pc = "scan" => r = q \/ overlap

\* What a reclaim has looked at was started, and what it is about to register
\* is still nobody's, unless another one runs.
ScansFree ==
    \A r \in Scans :
        /\ \A s \in scan[r].todo : proc[s] # "none"
        /\ scan[r].at # NoSession =>
            /\ scan[r].pc = "scan" /\ proc[scan[r].at] # "none"
            /\ table[scan[r].at] = None \/ overlap

\* No egg runs that no handler has started,
Started ==
    \A s \in Sessions : proc[s] # "none" =>
        \E h \in Handlers : handler[h].s = s /\ handler[h].pc # "none"

\* and a handler that has not started its egg yet is its session's first.
Fresh ==
    \A h \in Handlers : handler[h].pc \in {"auth", "spawn"} =>
        /\ proc[handler[h].s] = "none"
        /\ \A g \in Handlers : handler[g].s = handler[h].s => g = h

\* A directory that is to be swept is a dead egg's, or one's that was told to
\* end, or one's that had no pid file yet.
Swept ==
    \A s \in Sessions :
        /\ files[s] # {} => proc[s] # "none"
        /\ sweep[s] = "dead" => proc[s] = "dead"
        /\ sweep[s] = "killed" => proc[s] = "dead" \/ s \in told

Handling == EntryServed /\ HandlerListed /\ OneScan /\ ScansFree /\ Started /\ Fresh
IInv == Types /\ Handling /\ Swept

LEMMA InitInv == Init => IInv
<1> SUFFICES ASSUME Init PROVE IInv
  OBVIOUS
<1>1. handler \in [Handlers -> Handler] /\ \A h \in Handlers : handler[h] = NoHandler
  BY DEF Init, NoHandler, Handler
<1>2. \A h \in Handlers : handler[h].pc = "none" /\ handler[h].s = NoSession
        /\ handler[h].kind = "none" /\ handler[h].in = "idle" /\ Len(handler[h].inbox) = 0
  BY <1>1, EmptySeq DEF NoHandler
<1>3. Types
  <2>1. scan \in [Scans -> [pc : {"none", "sleep", "scan", "done"}, todo : SUBSET Sessions,
                           at : Sessions \union {NoSession}]]
    BY DEF Init, NoScan
  <2>2. TypeOK
    <3>1. /\ wing = "reaping" /\ link = "off" /\ told = {} /\ killing = {} /\ watched = {}
          /\ proc \in [Sessions -> {"none"}] /\ files \in [Sessions -> SUBSET Both]
          /\ sweep \in [Sessions -> {"no"}] /\ overlap = FALSE
          /\ table \in [Sessions -> Handlers \union {None}]
      BY DEF Init
    <3>2. \A h \in Handlers : Len(handler[h].inbox) <= InputCap
      BY <1>2, DaemonAssumption
    <3>3. \A r \in Scans : scan[r].pc \in {"none", "sleep", "scan", "done"}
      BY <2>1
    <3> QED  BY <1>2, <3>1, <3>2, <3>3 DEF TypeOK
  <2> QED  BY <1>1, <1>2, <2>1, <2>2 DEF Types
<1>4. Handling
  BY <1>2 DEF Init, Handling, EntryServed, HandlerListed, OneScan, ScansFree, Started, Fresh,
     Of, Live, NoScan
<1>5. Swept
  BY DEF Init, Swept
<1> QED  BY <1>3, <1>4, <1>5 DEF IInv

(* What the handlers are to the table and the scans *)

\* Eggs change, handlers do not.
LEMMA Aside ==
    ASSUME IInv, UNCHANGED <<handler, table, scan, overlap>>,
           \A s \in Sessions : proc'[s] = "none" <=> proc[s] = "none"
    PROVE  Handling'
<1>1. EntryServed' /\ HandlerListed' /\ OneScan'
  BY DEF IInv, Handling, EntryServed, HandlerListed, OneScan, Of, Live
<1>2. ScansFree'
  BY DEF IInv, Handling, ScansFree, Types
<1>3. Started'
  BY DEF IInv, Handling, Started
<1>4. Fresh'
  BY DEF IInv, Handling, Fresh, Types
<1> QED  BY <1>1, <1>2, <1>3, <1>4 DEF Handling

\* A handler goes on; it may have started its egg.
LEMMA GoesOn ==
    ASSUME IInv, NEW h \in Handlers, Live(h), UNCHANGED <<table, scan, overlap>>,
           \A g \in Handlers : g # h => handler'[g] = handler[g],
           handler'[h].s = handler[h].s, handler'[h].pc \notin {"none", "done"},
           handler'[h].pc \in {"auth", "spawn"} =>
               handler[h].pc \in {"auth", "spawn"} /\ proc' = proc,
           \A s \in Sessions : proc[s] # "none" => proc'[s] # "none",
           \A s \in Sessions : s # handler[h].s => proc'[s] = proc[s]
    PROVE  Handling'
<1>1. \A g \in Handlers : handler'[g].s = handler[g].s /\ (Live(g)' <=> Live(g))
  BY DEF Live
<1>2. \A g \in Handlers : handler[g].pc # "none" => handler[g].s \in Sessions
  BY DEF IInv, Types
<1>3. table \in [Sessions -> Handlers \union {None}] /\ None \notin Handlers
  BY DEF IInv, Types, TypeOK, Handlers, None
<1>4. EntryServed' /\ HandlerListed' /\ OneScan'
  BY <1>1, <1>3 DEF IInv, Handling, EntryServed, HandlerListed, OneScan, Of
<1>5. ScansFree'
  BY DEF IInv, Handling, ScansFree, Types
<1>6. Started'
  BY <1>1, <1>2 DEF IInv, Handling, Started, Live
<1>7. Fresh'
  <2> SUFFICES ASSUME NEW g \in Handlers, handler'[g].pc \in {"auth", "spawn"}
               PROVE  /\ proc'[handler'[g].s] = "none"
                      /\ \A f \in Handlers : handler'[f].s = handler'[g].s => f = g
    BY DEF Fresh
  <2>1. handler[g].pc \in {"auth", "spawn"}
    OBVIOUS
  <2>2. /\ proc[handler[g].s] = "none" /\ handler[g].s \in Sessions
        /\ \A f \in Handlers : handler[f].s = handler[g].s => f = g
    BY <1>2, <2>1 DEF IInv, Handling, Fresh
  <2>3. proc'[handler[g].s] = "none"
    BY <2>2
  <2> QED  BY <1>1, <2>2, <2>3
<1> QED  BY <1>4, <1>5, <1>6, <1>7 DEF Handling

LEMMA Gone ==
    ASSUME NEW s
    PROVE  [NoHandler EXCEPT !.s = s, !.pc = "done"] =
           [s |-> s, kind |-> "none", pc |-> "done", in |-> "idle", inbox |-> <<>>]
<1> DEFINE y == [NoHandler EXCEPT !.s = s]
<1>1. y = [s |-> s, kind |-> "none", pc |-> "none", in |-> "idle", inbox |-> <<>>]
  BY DEF NoHandler
<1>2. [NoHandler EXCEPT !.s = s, !.pc = "done"] = [y EXCEPT !.pc = "done"]
  OBVIOUS
<1> HIDE DEF y
<1> QED  BY <1>1, <1>2

\* A handler returns.
LEMMA GoesAway ==
    ASSUME IInv, NEW h \in Handlers, Live(h), Returns(h), UNCHANGED <<scan, overlap, proc>>
    PROVE  /\ Handling' /\ handler' \in [Handlers -> Handler]
           /\ table' \in [Sessions -> Handlers \union {None}] /\ watched' \subseteq Sessions
           /\ \A g \in Handlers : handler'[g].pc # "none" => handler'[g].s \in Sessions
           /\ \A g \in Handlers : Len(handler'[g].inbox) <= InputCap
<1> DEFINE s == handler[h].s
           x == [s |-> s, kind |-> "none", pc |-> "done", in |-> "idle", inbox |-> <<>>]
<1>1. /\ handler' = [handler EXCEPT ![h] = x] /\ table' = [table EXCEPT ![s] = None]
      /\ watched' = watched \ {s}
  BY Gone DEF Returns, Done
<1>3. handler \in [Handlers -> Handler] /\ s \in Sessions
  BY DEF IInv, Types, Live
<1>4. x \in Handler /\ x.s = s /\ x.pc = "done" /\ x.inbox = <<>>
  BY <1>3, EmptySeq DEF Handler
<1> HIDE DEF x
<1>5. /\ handler' \in [Handlers -> Handler] /\ handler'[h] = x
      /\ \A g \in Handlers : g # h => handler'[g] = handler[g]
  BY <1>1, <1>3, <1>4
<1>6. /\ table' \in [Sessions -> Handlers \union {None}] /\ table'[s] = None
      /\ \A t \in Sessions : t # s => table'[t] = table[t]
      /\ None \notin Handlers
  BY <1>1, <1>3 DEF IInv, Types, TypeOK, Handlers, None
<1>7. watched' \subseteq Sessions
  BY <1>1 DEF IInv, Types, TypeOK
<1>8. \A g \in Handlers : /\ handler'[g].s = handler[g].s
                          /\ Live(g)' <=> Live(g) /\ g # h
                          /\ handler'[g].pc = IF g = h THEN "done" ELSE handler[g].pc
  BY <1>4, <1>5 DEF Live
<1>9. /\ \A g \in Handlers : handler'[g].pc # "none" => handler'[g].s \in Sessions
      /\ \A g \in Handlers : Len(handler'[g].inbox) <= InputCap
  <2>1. Len(x.inbox) <= InputCap
    BY <1>4, EmptySeq, DaemonAssumption
  <2> QED  BY <1>3, <1>5, <1>8, <2>1 DEF IInv, Types, TypeOK
<1>10. EntryServed'
  BY <1>3, <1>6, <1>8 DEF IInv, Handling, EntryServed, Types, TypeOK
<1>11. HandlerListed'
  BY <1>6, <1>8 DEF IInv, Handling, HandlerListed, Of
<1>12. OneScan' /\ ScansFree'
  BY <1>6 DEF IInv, Handling, OneScan, ScansFree, Types
<1>13. Started' /\ Fresh'
  BY <1>8 DEF IInv, Handling, Started, Fresh
<1> QED  BY <1>5, <1>6, <1>7, <1>9, <1>10, <1>11, <1>12, <1>13 DEF Handling

\* A handler begins: what it is and where the table has it.
LEMMA BeginsTyped ==
    ASSUME IInv, NEW h \in Handlers, NEW s \in Sessions, NEW kind \in {"fresh", "reclaim"},
           NEW pc \in {"auth", "spawn", "attach"}, Begin(h, s, kind, pc)
    PROVE  /\ handler' \in [Handlers -> Handler] /\ ~Live(h)
           /\ \A g \in Handlers : g # h => handler'[g] = handler[g]
           /\ handler'[h].s = s /\ handler'[h].pc = pc /\ Len(handler'[h].inbox) = 0
           /\ table' = [table EXCEPT ![s] = h] /\ table' \in [Sessions -> Handlers \union {None}]
<1> DEFINE x == [s |-> s, kind |-> kind, pc |-> pc, in |-> "idle", inbox |-> <<>>]
<1>1. handler' = [handler EXCEPT ![h] = x] /\ table' = [table EXCEPT ![s] = h]
      /\ handler[h].pc = "none"
  BY DEF Begin, New, Free
<1>2. x \in Handler /\ x.s = s /\ x.pc = pc /\ Len(x.inbox) = 0
  BY EmptySeq DEF Handler
<1> HIDE DEF x
<1> QED  BY <1>1, <1>2 DEF IInv, Types, TypeOK, Live

(* Eggs, and what cleans up after them *)

LEMMA EggInv ==
    ASSUME IInv, NEW s \in Sessions,
           EggStep(s) \/ AgentEnds(s) \/ EggDies(s)
    PROVE  IInv'
<1>1. /\ UNCHANGED <<wing, link, told, sweep, handler, table, watched>>
      /\ UNCHANGED <<scan, overlap, killing>>
      /\ proc[s] \notin {"none", "dead"}
      /\ \E p \in {"listen", "up", "ending", "dead"} : proc' = [proc EXCEPT ![s] = p]
      /\ \E f \in SUBSET Both : files' = [files EXCEPT ![s] = f]
  <2>1. files[s] \in SUBSET Both
    BY DEF IInv, Types, TypeOK
  <2>2. files = [files EXCEPT ![s] = files[s]]
    BY DEF IInv, Types, TypeOK
  <2> QED
    BY <2>1, <2>2 DEF EggStep, Listens, Serves, BootFails, AgentEnds, Leaves, EggDies, Alive,
       tabVars, scanVars, Both
<1>2. Types'
  BY <1>1 DEF IInv, Types, TypeOK
<1>3. \A t \in Sessions : proc'[t] = "none" <=> proc[t] = "none"
  BY <1>1 DEF IInv, Types, TypeOK
<1>4. Swept'
  BY <1>1, <1>3 DEF IInv, Swept, Types, TypeOK
<1> QED  BY <1>1, <1>2, <1>3, <1>4, Aside DEF IInv

LEMMA SweepsInv == ASSUME IInv, NEW s \in Sessions, Sweeps(s) PROVE IInv'
<1>1. /\ UNCHANGED <<wing, link, proc, told, handler, table, watched, scan, overlap, killing>>
      /\ sweep' = [sweep EXCEPT ![s] = "no"] /\ files' = [files EXCEPT ![s] = {}]
  BY DEF Sweeps, tabVars, scanVars
<1>2. Types' /\ Swept'
  BY <1>1 DEF IInv, Types, TypeOK, Swept
<1> QED  BY <1>1, <1>2, Aside DEF IInv

LEMMA ReapsInv == ASSUME IInv, Reaps PROVE IInv'
<1>1. /\ UNCHANGED <<link, proc, told, files, handler, table, watched, scan, overlap, killing>>
      /\ wing' = "up"
      /\ sweep' = [s \in Sessions |-> IF proc[s] = "none" THEN "no" ELSE ToSweep(s)]
  BY DEF Reaps, eggVars, tabVars, scanVars
<1>2. \A s \in Sessions : ToSweep(s) \in {"no", "dead", "stale"}
                          /\ (ToSweep(s) = "dead" /\ proc[s] # "none" => proc[s] = "dead")
  BY DEF ToSweep, Alive, IInv, Types, TypeOK
<1>3. Types' /\ Swept'
  BY <1>1, <1>2 DEF IInv, Types, TypeOK, Swept
<1> QED  BY <1>1, <1>3, Aside DEF IInv

LEMMA ListsInv == ASSUME IInv, NEW s \in Sessions, Lists(s) PROVE IInv'
<1>1. /\ UNCHANGED <<wing, link, proc, told, files, handler, table, watched>>
      /\ UNCHANGED <<scan, overlap, killing>>
      /\ files[s] # {} /\ ~Alive(s)
      /\ sweep' = [sweep EXCEPT ![s] = "dead"]
  BY DEF Lists, eggVars, tabVars, scanVars
<1>2. proc[s] = "dead"
  BY <1>1 DEF Alive, IInv, Types, TypeOK, Swept
<1>3. Types' /\ Swept'
  BY <1>1, <1>2 DEF IInv, Types, TypeOK, Swept
<1> QED  BY <1>1, <1>3, Aside DEF IInv

LEMMA KillsOrphanInv == ASSUME IInv, NEW s \in Sessions, KillsOrphan(s) PROVE IInv'
<1>1. /\ UNCHANGED <<wing, link, proc, files, handler, table, watched, scan, overlap>>
      /\ told' = told \union OrphanTold(s) /\ killing' = killing \ {s}
      /\ sweep' = [sweep EXCEPT ![s] = IF files[s] = {} THEN "stale" ELSE "killed"]
  BY DEF KillsOrphan, tabVars, scanVars
<1>2. OrphanTold(s) \subseteq Sessions
  BY DEF OrphanTold
<1>3. files[s] # {} => proc[s] = "dead" \/ s \in told'
  BY <1>1 DEF OrphanTold, Alive, IInv, Types, TypeOK, Swept
<1>4. Types' /\ Swept'
  BY <1>1, <1>2, <1>3 DEF IInv, Types, TypeOK, Swept
<1> QED  BY <1>1, <1>4, Aside DEF IInv

LEMMA ReapsIdleInv == ASSUME IInv, NEW s \in Sessions, ReapsIdle(s) PROVE IInv'
<1>1. /\ UNCHANGED <<wing, link, proc, files, sweep, handler, table, scan, overlap, killing>>
      /\ told \subseteq told' /\ told' \subseteq Sessions /\ watched' \subseteq Sessions
  BY DEF ReapsIdle, scanVars, IInv, Types, TypeOK
<1>2. Types' /\ Swept'
  BY <1>1 DEF IInv, Types, TypeOK, Swept
<1> QED  BY <1>1, <1>2, Aside DEF IInv

(* Handlers *)

\* What a handler's step leaves of the types, when it touches no egg's files.
LEMMA HandlerTypes ==
    ASSUME IInv, UNCHANGED <<wing, link, files, sweep, scan, overlap, killing>>,
           handler' \in [Handlers -> Handler],
           \A g \in Handlers : handler'[g].pc # "none" => handler'[g].s \in Sessions,
           \A g \in Handlers : Len(handler'[g].inbox) <= InputCap,
           proc' \in [Sessions -> {"none", "boot", "listen", "up", "ending", "dead"}],
           table' \in [Sessions -> Handlers \union {None}],
           told' \subseteq Sessions, watched' \subseteq Sessions
    PROVE  Types'
<1>1. \A g \in Handlers :
        /\ handler'[g].s \in Sessions \union {NoSession}
        /\ handler'[g].kind \in {"none", "fresh", "reclaim"}
        /\ handler'[g].pc \in {"none", "auth", "spawn", "poll", "attach", "run", "done"}
        /\ handler'[g].in \in {"idle", "asks", "stuck", "gone"}
  BY DEF Handler
<1>2. TypeOK'
  BY <1>1 DEF IInv, Types, TypeOK
<1> QED  BY <1>2 DEF IInv, Types

LEMMA SweptKept ==
    ASSUME IInv, UNCHANGED <<proc, files, sweep>>, told \subseteq told' PROVE Swept'
  BY DEF IInv, Swept

\* A field of a live handler changes.
LEMMA FieldSet ==
    ASSUME IInv, NEW h \in Handlers, Live(h), NEW x \in Handler, x.s = handler[h].s,
           Len(x.inbox) <= InputCap, handler' = [handler EXCEPT ![h] = x]
    PROVE  /\ handler' \in [Handlers -> Handler] /\ handler'[h] = x
           /\ \A g \in Handlers : g # h => handler'[g] = handler[g]
           /\ \A g \in Handlers : handler'[g].pc # "none" => handler'[g].s \in Sessions
           /\ \A g \in Handlers : Len(handler'[g].inbox) <= InputCap
<1>1. handler \in [Handlers -> Handler] /\ handler[h].s \in Sessions
  BY DEF IInv, Types, Live
<1>2. /\ handler' \in [Handlers -> Handler] /\ handler'[h] = x
      /\ \A g \in Handlers : g # h => handler'[g] = handler[g]
  BY <1>1
<1> QED  BY <1>1, <1>2 DEF IInv, Types, TypeOK

\* It becomes something else and is as it was otherwise.
LEMMA Becomes ==
    ASSUME IInv, NEW h \in Handlers, Live(h), NEW pc \in {"poll", "attach", "run"}, Become(h, pc)
    PROVE  /\ handler' \in [Handlers -> Handler]
           /\ handler'[h].pc = pc /\ handler'[h].s = handler[h].s
           /\ \A g \in Handlers : g # h => handler'[g] = handler[g]
           /\ \A g \in Handlers : handler'[g].pc # "none" => handler'[g].s \in Sessions
           /\ \A g \in Handlers : Len(handler'[g].inbox) <= InputCap
<1> DEFINE x == [handler[h] EXCEPT !.pc = pc]
<1>1. handler' = [handler EXCEPT ![h] = x]
  BY DEF Become
<1>2. handler[h] \in Handler /\ Len(handler[h].inbox) <= InputCap
  BY DEF IInv, Types, TypeOK
<1>3. x \in Handler /\ x.pc = pc /\ x.s = handler[h].s /\ x.inbox = handler[h].inbox
  BY <1>2 DEF Handler
<1> HIDE DEF x
<1> QED  BY <1>1, <1>2, <1>3, FieldSet

\* It takes a message.
LEMMA Takes ==
    ASSUME IInv, NEW h \in Handlers, Live(h), handler[h].inbox # <<>>,
           NEW y \in Handler, y.s = handler[h].s, y.inbox = handler[h].inbox,
           NEW x, x = [y EXCEPT !.inbox = Tail(@)], handler' = [handler EXCEPT ![h] = x]
    PROVE  /\ handler' \in [Handlers -> Handler]
           /\ handler'[h].pc = y.pc /\ handler'[h].s = handler[h].s
           /\ \A g \in Handlers : g # h => handler'[g] = handler[g]
           /\ \A g \in Handlers : handler'[g].pc # "none" => handler'[g].s \in Sessions
           /\ \A g \in Handlers : Len(handler'[g].inbox) <= InputCap
<1>1. y.inbox \in Seq(Msgs) /\ y.inbox # <<>>
  BY DEF Handler
<1>2. Tail(y.inbox) \in Seq(Msgs) /\ Len(Tail(y.inbox)) = Len(y.inbox) - 1 /\ Len(y.inbox) \in Nat
  BY <1>1, HeadTailProperties, LenProperties
<1>3. Len(y.inbox) <= InputCap /\ InputCap \in Nat
  BY DaemonAssumption DEF IInv, Types, TypeOK
<1>4. x \in Handler /\ x.pc = y.pc /\ x.s = handler[h].s /\ x.inbox = Tail(y.inbox)
  BY <1>2 DEF Handler
<1>5. Len(x.inbox) <= InputCap
  BY <1>2, <1>3, <1>4
<1> QED  BY <1>4, <1>5, FieldSet
LEMMA StartsInv ==
    ASSUME IInv, NEW h \in Handlers, NEW s \in Sessions, Starts(h, s) PROVE IInv'
<1>1. /\ \A g \in Handlers : handler[g].s # s
      /\ UNCHANGED <<wing, link, proc, told, files, sweep, scan, overlap, watched, killing>>
  BY DEF Starts, eggVars, scanVars
<1>2. PICK pc \in {"auth", "spawn"} : Begin(h, s, "fresh", pc)
  BY DEF Starts
<1>3. /\ handler' \in [Handlers -> Handler] /\ ~Live(h)
      /\ \A g \in Handlers : g # h => handler'[g] = handler[g]
      /\ handler'[h].s = s /\ handler'[h].pc = pc /\ Len(handler'[h].inbox) = 0
      /\ table' = [table EXCEPT ![s] = h] /\ table' \in [Sessions -> Handlers \union {None}]
  BY <1>2, BeginsTyped
<1>4. Types'
  <2>1. \A g \in Handlers : Len(handler'[g].inbox) <= InputCap
    BY <1>3, DaemonAssumption DEF IInv, Types, TypeOK
  <2>2. \A g \in Handlers : handler'[g].pc # "none" => handler'[g].s \in Sessions
    BY <1>3 DEF IInv, Types
  <2>3. /\ proc' \in [Sessions -> {"none", "boot", "listen", "up", "ending", "dead"}]
        /\ told' \subseteq Sessions /\ watched' \subseteq Sessions
    BY <1>1 DEF IInv, Types, TypeOK
  <2> QED  BY <1>1, <1>3, <2>1, <2>2, <2>3, HandlerTypes
<1>5. proc[s] = "none"
  BY <1>1 DEF IInv, Handling, Started
<1>6. table'[s] = h /\ \A t \in Sessions : t # s => table'[t] = table[t]
  BY <1>3 DEF IInv, Types, TypeOK
<1>7. \A t \in Sessions : t # s => table[t] # h
  BY <1>3 DEF IInv, Handling, EntryServed, Handlers, None
<1>8. EntryServed' /\ HandlerListed'
  <2>1. Live(h)' /\ \A g \in Handlers : g # h => (Live(g)' <=> Live(g)) /\ handler'[g].s # s
    BY <1>1, <1>3 DEF Live
  <2>2. table \in [Sessions -> Handlers \union {None}]
    BY DEF IInv, Types, TypeOK
  <2>3. EntryServed'
    BY <1>3, <1>6, <1>7, <2>1, <2>2 DEF IInv, Handling, EntryServed
  <2>4. HandlerListed'
    BY <1>1, <1>3, <1>6, <2>1 DEF IInv, Handling, HandlerListed, Of
  <2> QED  BY <2>3, <2>4
<1>9. OneScan' /\ ScansFree'
  BY <1>1, <1>5, <1>6 DEF IInv, Handling, OneScan, ScansFree, Types
<1>10. Started'
  <2> SUFFICES ASSUME NEW t \in Sessions, proc[t] # "none"
               PROVE  \E g \in Handlers : handler'[g].s = t /\ handler'[g].pc # "none"
    BY <1>1 DEF Started
  <2>1. PICK g \in Handlers : handler[g].s = t /\ handler[g].pc # "none"
    BY DEF IInv, Handling, Started
  <2>2. g # h
    BY <1>1, <2>1, <1>2 DEF Begin, New, Free
  <2> QED  BY <1>3, <2>1, <2>2
<1>11. Fresh'
  BY <1>1, <1>3, <1>5 DEF IInv, Handling, Fresh
<1> QED  BY <1>1, <1>4, <1>8, <1>9, <1>10, <1>11, SweptKept DEF IInv, Handling
\* A handler returns, having changed nothing else.
LEMMA ReturnsInv ==
    ASSUME IInv, NEW h \in Handlers, Live(h), Returns(h),
           UNCHANGED <<wing, link, proc, told, files, sweep, scan, overlap, killing>>
    PROVE  IInv'
<1>1. /\ told' \subseteq Sessions
      /\ proc' \in [Sessions -> {"none", "boot", "listen", "up", "ending", "dead"}]
  BY DEF IInv, Types, TypeOK
<1>2. UNCHANGED <<scan, overlap, proc>>
  OBVIOUS
<1>3. /\ Handling' /\ handler' \in [Handlers -> Handler]
      /\ table' \in [Sessions -> Handlers \union {None}] /\ watched' \subseteq Sessions
      /\ \A g \in Handlers : handler'[g].pc # "none" => handler'[g].s \in Sessions
      /\ \A g \in Handlers : Len(handler'[g].inbox) <= InputCap
  BY <1>2, GoesAway
<1>4. Types'
  BY <1>1, <1>3, HandlerTypes
<1>5. Swept'
  BY SweptKept
<1> QED  BY <1>3, <1>4, <1>5 DEF IInv

\* A handler goes on, and its session may be watched or told to end.
LEMMA StepsInv ==
    ASSUME IInv, NEW h \in Handlers, Live(h),
           UNCHANGED <<wing, link, proc, files, sweep, table, scan, overlap, killing>>,
           told \subseteq told', told' \subseteq Sessions, watched' \subseteq Sessions,
           handler' \in [Handlers -> Handler],
           handler'[h].pc \notin {"none", "done"}, handler'[h].s = handler[h].s,
           handler'[h].pc \in {"auth", "spawn"} => handler[h].pc \in {"auth", "spawn"},
           \A g \in Handlers : g # h => handler'[g] = handler[g],
           \A g \in Handlers : handler'[g].pc # "none" => handler'[g].s \in Sessions,
           \A g \in Handlers : Len(handler'[g].inbox) <= InputCap
    PROVE  IInv'
<1>1. /\ proc' \in [Sessions -> {"none", "boot", "listen", "up", "ending", "dead"}]
      /\ table' \in [Sessions -> Handlers \union {None}]
  BY DEF IInv, Types, TypeOK
<1>2. Types'
  BY <1>1, HandlerTypes
<1>3. Handling'
  BY GoesOn
<1> QED  BY <1>2, <1>3, SweptKept DEF IInv

LEMMA AuthenticatesInv == ASSUME IInv, NEW h \in Handlers, Authenticates(h) PROVE IInv'
<1>1. /\ UNCHANGED <<wing, link, proc, told, files, sweep, scan, overlap, killing>>
      /\ handler[h].pc = "auth" /\ Live(h)
  BY DEF Authenticates, eggVars, scanVars, Live
<1>2. told' \subseteq Sessions /\ told \subseteq told' /\ watched \subseteq Sessions
  BY <1>1 DEF IInv, Types, TypeOK
<1>3. handler[h] \in Handler
  BY DEF IInv, Types
<1>4. CASE Returns(h)
  BY <1>1, <1>4, ReturnsInv
<1>5. CASE /\ handler[h].inbox # <<>> /\ handler' = [handler EXCEPT ![h].inbox = Tail(@)]
           /\ UNCHANGED <<table, watched>>
  <2> DEFINE x == [handler[h] EXCEPT !.inbox = Tail(@)]
  <2>1. handler' = [handler EXCEPT ![h] = x]
    BY <1>5
  <2> HIDE DEF x
  <2>2. /\ handler' \in [Handlers -> Handler]
        /\ handler'[h].pc = "auth" /\ handler'[h].s = handler[h].s
        /\ \A g \in Handlers : g # h => handler'[g] = handler[g]
        /\ \A g \in Handlers : handler'[g].pc # "none" => handler'[g].s \in Sessions
        /\ \A g \in Handlers : Len(handler'[g].inbox) <= InputCap
    BY <1>1, <1>3, <1>5, <2>1, Takes DEF x
  <2> QED  BY <1>1, <1>2, <1>5, <2>2, StepsInv
<1>6. CASE /\ handler[h].inbox # <<>> /\ UNCHANGED <<table, watched>>
           /\ handler' = [handler EXCEPT ![h].pc = "spawn", ![h].inbox = Tail(@)]
  <2> DEFINE y == [handler[h] EXCEPT !.pc = "spawn"]
             x == [y EXCEPT !.inbox = Tail(@)]
  <2>1. handler' = [handler EXCEPT ![h] = x]
    BY <1>6
  <2>2. y \in Handler /\ y.pc = "spawn" /\ y.s = handler[h].s /\ y.inbox = handler[h].inbox
    BY <1>3 DEF Handler
  <2> HIDE DEF x, y
  <2>3. x = [y EXCEPT !.inbox = Tail(@)]
    BY DEF x
  <2>4. /\ handler' \in [Handlers -> Handler]
        /\ handler'[h].pc = "spawn" /\ handler'[h].s = handler[h].s
        /\ \A g \in Handlers : g # h => handler'[g] = handler[g]
        /\ \A g \in Handlers : handler'[g].pc # "none" => handler'[g].s \in Sessions
        /\ \A g \in Handlers : Len(handler'[g].inbox) <= InputCap
    <3>1. Live(h) /\ handler[h].inbox # <<>>
      BY <1>1, <1>6
    <3>2. y \in Handler /\ y.s = handler[h].s /\ y.inbox = handler[h].inbox
      BY <2>2
    <3> QED  BY <2>1, <2>2, <2>3, <3>1, <3>2, Takes
  <2> QED  BY <1>1, <1>2, <1>6, <2>4, StepsInv
<1> QED  BY <1>4, <1>5, <1>6 DEF Authenticates

LEMMA SpawnsInv == ASSUME IInv, NEW h \in Handlers, Spawns(h) PROVE IInv'
<1> DEFINE s == handler[h].s
<1>1. /\ UNCHANGED <<wing, link, told, files, sweep, scan, overlap, killing>>
      /\ handler[h].pc = "spawn" /\ Live(h)
  BY DEF Spawns, scanVars, Live
<1>2. CASE Returns(h) /\ UNCHANGED proc
  BY <1>1, <1>2, ReturnsInv
<1>3. CASE Become(h, "poll") /\ proc' = [proc EXCEPT ![s] = "boot"] /\ UNCHANGED <<table, watched>>
  <2>1. s \in Sessions /\ proc[s] = "none"
    BY <1>1 DEF IInv, Types, Handling, Fresh
  <2>2. /\ handler' \in [Handlers -> Handler]
        /\ handler'[h].pc = "poll" /\ handler'[h].s = s
        /\ \A g \in Handlers : g # h => handler'[g] = handler[g]
        /\ \A g \in Handlers : handler'[g].pc # "none" => handler'[g].s \in Sessions
        /\ \A g \in Handlers : Len(handler'[g].inbox) <= InputCap
    BY <1>1, <1>3, Becomes
  <2>3. /\ proc' \in [Sessions -> {"none", "boot", "listen", "up", "ending", "dead"}]
        /\ table' \in [Sessions -> Handlers \union {None}]
        /\ told' \subseteq Sessions /\ watched' \subseteq Sessions
        /\ proc'[s] = "boot" /\ \A t \in Sessions : t # s => proc'[t] = proc[t]
    BY <1>1, <1>3, <2>1 DEF IInv, Types, TypeOK
  <2>4. Types'
    BY <1>1, <2>2, <2>3, HandlerTypes
  <2>5. Handling'
    <3> HIDE DEF s
    <3>1. \A t \in Sessions : proc[t] # "none" => proc'[t] # "none"
      BY <2>3
    <3> QED  BY <1>1, <1>3, <2>2, <2>3, <3>1, GoesOn DEF s
  <2>6. Swept'
    BY <1>1, <2>1, <2>3 DEF IInv, Swept
  <2> QED  BY <2>4, <2>5, <2>6 DEF IInv
<1> QED  BY <1>2, <1>3 DEF Spawns

LEMMA PollsAttachesInv ==
    ASSUME IInv, NEW h \in Handlers, Polls(h) \/ Attaches(h) \/ SeesExit(h) PROVE IInv'
<1>1. /\ UNCHANGED <<wing, link, proc, told, files, sweep, scan, overlap, killing>>
      /\ handler[h].pc \in {"poll", "attach", "run"} /\ Live(h)
  BY DEF Polls, Attaches, SeesExit, eggVars, scanVars, Live
<1>2. CASE Returns(h)
  BY <1>1, <1>2, ReturnsInv
<1>3. CASE /\ Become(h, "attach") \/ Become(h, "run")
           /\ UNCHANGED table /\ watched' = watched \union {handler[h].s}
  <2>1. PICK pc \in {"attach", "run"} : Become(h, pc)
    BY <1>3
  <2>2. /\ handler' \in [Handlers -> Handler]
        /\ handler'[h].pc = pc /\ handler'[h].s = handler[h].s
        /\ \A g \in Handlers : g # h => handler'[g] = handler[g]
        /\ \A g \in Handlers : handler'[g].pc # "none" => handler'[g].s \in Sessions
        /\ \A g \in Handlers : Len(handler'[g].inbox) <= InputCap
    BY <1>1, <2>1, Becomes
  <2>3. watched' \subseteq Sessions /\ told' \subseteq Sessions /\ told \subseteq told'
    BY <1>1, <1>3 DEF IInv, Types, TypeOK
  <2> QED  BY <1>1, <1>3, <2>2, <2>3, StepsInv
<1> QED  BY <1>2, <1>3 DEF Polls, Attaches, SeesExit

LEMMA TakesInputInv == ASSUME IInv, NEW h \in Handlers, TakesInput(h) PROVE IInv'
<1>1. /\ UNCHANGED <<wing, link, proc, files, sweep, table, watched, scan, overlap, killing>>
      /\ handler[h].pc = "run" /\ Live(h) /\ handler[h].inbox # <<>>
  BY DEF TakesInput, scanVars, Live
<1>2. PICK in \in {"idle", "asks", "gone"} :
          handler' = [handler EXCEPT ![h].in = in, ![h].inbox = Tail(@)]
  BY DEF TakesInput
<1>3. told \subseteq told' /\ told' \subseteq Sessions /\ watched' \subseteq Sessions
  BY <1>1 DEF TakesInput, IInv, Types, TypeOK
<1> DEFINE y == [handler[h] EXCEPT !.in = in]
           x == [y EXCEPT !.inbox = Tail(@)]
<1>4. handler' = [handler EXCEPT ![h] = x]
  BY <1>2
<1>5. y \in Handler /\ y.pc = "run" /\ y.s = handler[h].s /\ y.inbox = handler[h].inbox
  <2>1. handler[h] \in Handler
    BY DEF IInv, Types
  <2> QED  BY <1>1, <2>1 DEF Handler
<1> HIDE DEF x, y
<1>6. x = [y EXCEPT !.inbox = Tail(@)]
  BY DEF x
<1>7. /\ handler' \in [Handlers -> Handler]
      /\ handler'[h].pc = "run" /\ handler'[h].s = handler[h].s
      /\ \A g \in Handlers : g # h => handler'[g] = handler[g]
      /\ \A g \in Handlers : handler'[g].pc # "none" => handler'[g].s \in Sessions
      /\ \A g \in Handlers : Len(handler'[g].inbox) <= InputCap
  BY <1>1, <1>4, <1>5, <1>6, Takes
<1> QED  BY <1>1, <1>3, <1>7, StepsInv

LEMMA TakesPasskeyInv == ASSUME IInv, NEW h \in Handlers, TakesPasskey(h) PROVE IInv'
<1>1. /\ UNCHANGED <<wing, link, proc, told, files, sweep, table, watched, scan, overlap, killing>>
      /\ handler[h].pc = "run" /\ Live(h)
  BY DEF TakesPasskey, scanVars, eggVars, Live
<1>2. told' \subseteq Sessions /\ watched' \subseteq Sessions /\ told \subseteq told'
  BY <1>1 DEF IInv, Types, TypeOK
<1>3. handler[h] \in Handler /\ Len(handler[h].inbox) <= InputCap
  BY DEF IInv, Types, TypeOK
<1>4. CASE handler' = [handler EXCEPT ![h].in = "stuck"]
  <2> DEFINE x == [handler[h] EXCEPT !.in = "stuck"]
  <2>1. handler' = [handler EXCEPT ![h] = x]
    BY <1>4
  <2>2. x \in Handler /\ x.pc = "run" /\ x.s = handler[h].s /\ x.inbox = handler[h].inbox
    BY <1>1, <1>3 DEF Handler
  <2> HIDE DEF x
  <2>3. /\ handler' \in [Handlers -> Handler] /\ handler'[h] = x
        /\ \A g \in Handlers : g # h => handler'[g] = handler[g]
        /\ \A g \in Handlers : handler'[g].pc # "none" => handler'[g].s \in Sessions
        /\ \A g \in Handlers : Len(handler'[g].inbox) <= InputCap
    BY <1>1, <1>3, <2>1, <2>2, FieldSet
  <2> QED  BY <1>1, <1>2, <2>2, <2>3, StepsInv
<1>5. ASSUME NEW in \in {"idle", "asks", "stuck"}, handler[h].inbox # <<>>,
             handler' = [handler EXCEPT ![h].in = in, ![h].inbox = Tail(@)]
      PROVE  IInv'
  <2> DEFINE y == [handler[h] EXCEPT !.in = in]
             x == [y EXCEPT !.inbox = Tail(@)]
  <2>1. handler' = [handler EXCEPT ![h] = x]
    BY <1>5
  <2>2. y \in Handler /\ y.pc = "run" /\ y.s = handler[h].s /\ y.inbox = handler[h].inbox
    BY <1>1, <1>3 DEF Handler
  <2> HIDE DEF x, y
  <2>3. x = [y EXCEPT !.inbox = Tail(@)]
    BY DEF x
  <2>4. /\ handler' \in [Handlers -> Handler]
        /\ handler'[h].pc = "run" /\ handler'[h].s = handler[h].s
        /\ \A g \in Handlers : g # h => handler'[g] = handler[g]
        /\ \A g \in Handlers : handler'[g].pc # "none" => handler'[g].s \in Sessions
        /\ \A g \in Handlers : Len(handler'[g].inbox) <= InputCap
    <3>1. Live(h) /\ handler[h].inbox # <<>>
      BY <1>1, <1>5
    <3>2. y \in Handler /\ y.s = handler[h].s /\ y.inbox = handler[h].inbox
      BY <2>2
    <3> QED  BY <2>1, <2>2, <2>3, <3>1, <3>2, Takes
  <2> QED  BY <1>1, <1>2, <2>4, StepsInv
<1> QED  BY <1>4, <1>5 DEF TakesPasskey
(* The connection, and the reclaims *)

\* The wing and its connection change, nothing else.
LEMMA LinkInv ==
    ASSUME IInv, wing' \in {"down", "reaping", "up"}, link' \in {"off", "dialed", "on"},
           UNCHANGED <<proc, told, files, sweep, handler, table, watched, scan, overlap, killing>>
    PROVE  IInv'
<1>1. Types'
  BY DEF IInv, Types, TypeOK
<1> QED  BY <1>1, Aside, SweptKept DEF IInv

LEMMA DialsDropsInv == ASSUME IInv, Dials \/ Drops \/ WingStarts PROVE IInv'
<1>1. /\ wing' \in {"down", "reaping", "up"} /\ link' \in {"off", "dialed", "on"}
      /\ UNCHANGED <<proc, told, files, sweep, handler, table, watched, scan, overlap, killing>>
  BY DEF Dials, Drops, WingStarts, TableAtDial, eggVars, tabVars, scanVars, IInv, Types, TypeOK
<1> QED  BY <1>1, LinkInv

\* A message finds its channel in the table.
LEMMA ReceivesInv ==
    ASSUME IInv, NEW s \in Sessions, NEW m \in Msgs, Receives(s, m) PROVE IInv'
<1>1. /\ UNCHANGED <<wing, link, proc, told, files, sweep, table, watched, scan, overlap>>
      /\ killing' \subseteq Sessions
  BY DEF Receives, eggVars, scanVars, IInv, Types, TypeOK
<1>2. CASE handler' = handler
  <2>1. Types'
    BY <1>1, <1>2 DEF IInv, Types, TypeOK
  <2> QED  BY <1>1, <1>2, <2>1, Aside, SweptKept DEF IInv
<1>3. CASE handler' # handler
  <2> DEFINE h == table[s]
             x == [handler[h] EXCEPT !.inbox = Append(@, m)]
  <2>1. h \in Handlers /\ Live(h)
    BY <1>3 DEF Receives, IInv, Handling, EntryServed, Types, TypeOK
  <2>2. Len(handler[h].inbox) < InputCap /\ handler' = [handler EXCEPT ![h] = x]
    BY <1>3 DEF Receives, Push
  <2>3. handler[h] \in Handler /\ handler[h].inbox \in Seq(Msgs)
    BY <2>1 DEF IInv, Types, Handler
  <2>4. /\ Append(handler[h].inbox, m) \in Seq(Msgs)
        /\ Len(Append(handler[h].inbox, m)) = Len(handler[h].inbox) + 1
        /\ Len(handler[h].inbox) \in Nat
    BY <2>3, AppendProperties, LenProperties
  <2>5. x \in Handler /\ x.s = handler[h].s /\ x.pc = handler[h].pc
        /\ x.inbox = Append(handler[h].inbox, m)
    BY <2>3, <2>4 DEF Handler
  <2> HIDE DEF h, x
  <2>6. Len(x.inbox) <= InputCap
    BY <2>2, <2>4, <2>5, DaemonAssumption
  <2>7. /\ handler' \in [Handlers -> Handler] /\ handler'[h] = x
        /\ \A g \in Handlers : g # h => handler'[g] = handler[g]
        /\ \A g \in Handlers : handler'[g].pc # "none" => handler'[g].s \in Sessions
        /\ \A g \in Handlers : Len(handler'[g].inbox) <= InputCap
    BY <2>1, <2>2, <2>5, <2>6, FieldSet
  <2>8. Types'
    <3>1. \A g \in Handlers :
            /\ handler'[g].s \in Sessions \union {NoSession}
            /\ handler'[g].kind \in {"none", "fresh", "reclaim"}
            /\ handler'[g].pc \in {"none", "auth", "spawn", "poll", "attach", "run", "done"}
            /\ handler'[g].in \in {"idle", "asks", "stuck", "gone"}
      BY <2>7 DEF Handler
    <3>2. TypeOK'
      BY <1>1, <2>7, <3>1 DEF IInv, Types, TypeOK
    <3> QED  BY <1>1, <2>7, <3>2 DEF IInv, Types
  <2>9. Handling'
    <3>1. handler'[h].s = handler[h].s /\ handler'[h].pc = handler[h].pc
          /\ handler'[h].pc \notin {"none", "done"}
      BY <2>1, <2>5, <2>7 DEF Live
    <3> QED  BY <1>1, <2>1, <2>7, <3>1, GoesOn
  <2> QED  BY <1>1, <2>8, <2>9, SweptKept DEF IInv
<1> QED  BY <1>2, <1>3

\* What a reclaim does to itself.
LEMMA ScanTypes ==
    ASSUME IInv, UNCHANGED <<wing, proc, told, files, handler, table, watched, killing>>,
           link' \in {"off", "dialed", "on"},
           sweep' \in [Sessions -> {"no", "dead", "stale", "killed"}],
           scan' \in [Scans -> [pc : {"none", "sleep", "scan", "done"}, todo : SUBSET Sessions,
                                at : Sessions \union {NoSession}]],
           overlap' \in BOOLEAN
    PROVE  Types'
  BY DEF IInv, Types, TypeOK

LEMMA TableFrame ==
    ASSUME IInv, UNCHANGED <<proc, handler, table>>, overlap => overlap'
    PROVE  EntryServed' /\ HandlerListed' /\ Started' /\ Fresh'
<1>1. EntryServed' /\ HandlerListed'
  BY DEF IInv, Handling, EntryServed, HandlerListed, Of, Live
<1>2. Started' /\ Fresh'
  BY DEF IInv, Handling, Started, Fresh
<1> QED  BY <1>1, <1>2

\* The scan's record, once one of its fields has been set.
ScanRec == [pc : {"none", "sleep", "scan", "done"}, todo : SUBSET Sessions,
            at : Sessions \union {NoSession}]

LEMMA RegisteredInv == ASSUME IInv, NEW r \in Scans, Registered(r) PROVE IInv'
<1>1. /\ UNCHANGED <<wing, proc, told, files, sweep, handler, table, watched, overlap, killing>>
      /\ link' = "on"
      /\ scan' = [scan EXCEPT ![r] = [NoScan EXCEPT !.pc = "sleep"]]
  BY DEF Registered, eggVars, tabVars
<1> DEFINE x == [NoScan EXCEPT !.pc = "sleep"]
<1>2. x \in ScanRec /\ x.pc = "sleep" /\ x.todo = {} /\ x.at = NoSession
  BY DEF NoScan, ScanRec
<1>3. scan \in [Scans -> ScanRec]
  BY DEF IInv, Types, ScanRec
<1>4. scan' = [scan EXCEPT ![r] = x]
  BY <1>1
<1> HIDE DEF x
<1>5. /\ scan' \in [Scans -> ScanRec] /\ scan'[r] = x
      /\ \A q \in Scans : q # r => scan'[q] = scan[q]
  BY <1>2, <1>3, <1>4
<1>6. Types'
  <2>1. overlap' \in BOOLEAN /\ sweep' \in [Sessions -> {"no", "dead", "stale", "killed"}]
    BY <1>1 DEF IInv, Types, TypeOK
  <2> QED  BY <1>1, <1>5, <2>1, ScanTypes DEF ScanRec
<1>7. OneScan' /\ ScansFree'
  BY <1>1, <1>2, <1>5 DEF IInv, Handling, OneScan, ScansFree
<1> QED  BY <1>1, <1>6, <1>7, TableFrame, SweptKept DEF IInv, Handling

LEMMA ScanBeginsInv == ASSUME IInv, NEW r \in Scans, ScanBegins(r) PROVE IInv'
<1> DEFINE x == [pc |-> "scan", at |-> NoSession, todo |-> {s \in Sessions : proc[s] # "none"}]
<1>1. /\ UNCHANGED <<wing, link, proc, told, files, sweep, handler, table, watched, killing>>
      /\ scan[r].pc = "sleep" /\ scan' = [scan EXCEPT ![r] = x]
      /\ overlap' = (overlap \/ Scanning # {})
  BY DEF ScanBegins, eggVars, tabVars
<1>2. x \in ScanRec /\ x.pc = "scan" /\ x.at = NoSession /\ \A s \in x.todo : proc[s] # "none"
  BY DEF ScanRec
<1>3. scan \in [Scans -> ScanRec]
  BY DEF IInv, Types, ScanRec
<1> HIDE DEF x
<1>4. /\ scan' \in [Scans -> ScanRec] /\ scan'[r] = x
      /\ \A q \in Scans : q # r => scan'[q] = scan[q]
  BY <1>1, <1>2, <1>3
<1>5. Types'
  <2>1. /\ overlap' \in BOOLEAN /\ sweep' \in [Sessions -> {"no", "dead", "stale", "killed"}]
        /\ link' \in {"off", "dialed", "on"}
    BY <1>1 DEF IInv, Types, TypeOK
  <2> QED  BY <1>1, <1>4, <2>1, ScanTypes DEF ScanRec
<1>6. OneScan'
  <2>1. \A q \in Scans : scan[q].pc = "scan" => overlap'
    BY <1>1 DEF Scanning
  <2> QED  BY <1>1, <1>4, <2>1 DEF IInv, Handling, OneScan
<1>7. ScansFree'
  BY <1>1, <1>2, <1>4 DEF IInv, Handling, ScansFree
<1> QED  BY <1>1, <1>5, <1>6, <1>7, TableFrame, SweptKept DEF IInv, Handling

LEMMA ScanChecksInv ==
    ASSUME IInv, NEW r \in Scans, NEW s \in Sessions, ScanChecks(r, s) PROVE IInv'
<1> DEFINE at == IF "pid" \in files[s] /\ Alive(s) /\ ~Tracked(s) THEN s ELSE NoSession
           y == [scan[r] EXCEPT !.todo = @ \ {s}]
           x == [y EXCEPT !.at = at]
<1>1. /\ UNCHANGED <<wing, link, proc, told, files, handler, table, watched, overlap, killing>>
      /\ scan[r].pc = "scan" /\ s \in scan[r].todo
      /\ scan' = [scan EXCEPT ![r] = x]
      /\ sweep' = IF "pid" \in files[s] /\ ~Alive(s) THEN [sweep EXCEPT ![s] = "dead"] ELSE sweep
  BY DEF ScanChecks, eggVars, tabVars
<1>2. scan \in [Scans -> ScanRec]
  BY DEF IInv, Types, ScanRec
<1>3. at \in Sessions \union {NoSession} /\ (at # NoSession => at = s /\ table[s] = None)
  BY DEF Tracked
<1>4. /\ y \in ScanRec /\ y.pc = "scan" /\ y.todo \subseteq scan[r].todo
  BY <1>1, <1>2 DEF ScanRec
<1> HIDE DEF at, y
<1>5. x \in ScanRec /\ x.pc = "scan" /\ x.at = at /\ x.todo = y.todo
  BY <1>3, <1>4 DEF ScanRec
<1> HIDE DEF x
<1>6. /\ scan' \in [Scans -> ScanRec] /\ scan'[r] = x
      /\ \A q \in Scans : q # r => scan'[q] = scan[q]
  BY <1>1, <1>2, <1>5
<1>7. Types'
  <2>1. /\ overlap' \in BOOLEAN /\ sweep' \in [Sessions -> {"no", "dead", "stale", "killed"}]
        /\ link' \in {"off", "dialed", "on"}
    BY <1>1 DEF IInv, Types, TypeOK
  <2> QED  BY <1>1, <1>6, <2>1, ScanTypes DEF ScanRec
<1>8. proc[s] # "none" /\ \A t \in scan[r].todo : proc[t] # "none"
  BY <1>1 DEF IInv, Handling, ScansFree
<1>9. OneScan' /\ ScansFree'
  BY <1>1, <1>3, <1>4, <1>5, <1>6, <1>8 DEF IInv, Handling, OneScan, ScansFree
<1>10. Swept'
  BY <1>1, <1>8 DEF IInv, Swept, Alive, Types, TypeOK
<1> QED  BY <1>1, <1>7, <1>9, <1>10, TableFrame DEF IInv, Handling

LEMMA ScanEndsInv == ASSUME IInv, NEW r \in Scans, ScanEnds(r) PROVE IInv'
<1> DEFINE x == [scan[r] EXCEPT !.pc = "done"]
<1>1. /\ UNCHANGED <<wing, link, proc, told, files, sweep, handler, table, watched>>
      /\ UNCHANGED <<overlap, killing>>
      /\ scan[r].at = NoSession /\ scan' = [scan EXCEPT ![r] = x]
  BY DEF ScanEnds, eggVars, tabVars
<1>2. scan \in [Scans -> ScanRec]
  BY DEF IInv, Types, ScanRec
<1>3. x \in ScanRec /\ x.pc = "done" /\ x.at = NoSession /\ x.todo = scan[r].todo
  BY <1>1, <1>2 DEF ScanRec
<1> HIDE DEF x
<1>4. /\ scan' \in [Scans -> ScanRec] /\ scan'[r] = x
      /\ \A q \in Scans : q # r => scan'[q] = scan[q]
  BY <1>1, <1>2, <1>3
<1>5. Types'
  <2>1. /\ overlap' \in BOOLEAN /\ sweep' \in [Sessions -> {"no", "dead", "stale", "killed"}]
        /\ link' \in {"off", "dialed", "on"}
    BY <1>1 DEF IInv, Types, TypeOK
  <2> QED  BY <1>1, <1>4, <2>1, ScanTypes DEF ScanRec
<1>6. OneScan' /\ ScansFree'
  BY <1>1, <1>3, <1>4 DEF IInv, Handling, OneScan, ScansFree
<1> QED  BY <1>1, <1>5, <1>6, TableFrame, SweptKept DEF IInv, Handling
LEMMA ScanRegistersInv ==
    ASSUME IInv, NEW r \in Scans, NEW h \in Handlers, ScanRegisters(r, h) PROVE IInv'
<1> DEFINE s == scan[r].at
           x == [scan[r] EXCEPT !.at = NoSession]
<1>1. /\ UNCHANGED <<wing, link, proc, told, files, sweep, watched, overlap, killing>>
      /\ scan[r].pc = "scan" /\ s # NoSession /\ scan' = [scan EXCEPT ![r] = x]
      /\ Begin(h, s, "reclaim", "attach") \/ UNCHANGED <<handler, table>>
  BY DEF ScanRegisters, eggVars
<1>2. scan \in [Scans -> ScanRec] /\ s \in Sessions
  BY <1>1 DEF IInv, Types, ScanRec
<1>3. x \in ScanRec /\ x.pc = "scan" /\ x.at = NoSession /\ x.todo = scan[r].todo
  BY <1>1, <1>2 DEF ScanRec
<1> HIDE DEF x
<1>4. /\ scan' \in [Scans -> ScanRec] /\ scan'[r] = x
      /\ \A q \in Scans : q # r => scan'[q] = scan[q]
  BY <1>1, <1>2, <1>3
<1>5. /\ overlap' \in BOOLEAN /\ sweep' \in [Sessions -> {"no", "dead", "stale", "killed"}]
      /\ link' \in {"off", "dialed", "on"}
  BY <1>1 DEF IInv, Types, TypeOK
<1>6. OneScan'
  BY <1>1, <1>3, <1>4 DEF IInv, Handling, OneScan
<1>7. CASE UNCHANGED <<handler, table>>
  <2>1. Types'
    BY <1>1, <1>4, <1>5, <1>7, ScanTypes DEF ScanRec
  <2>2. ScansFree'
    BY <1>1, <1>3, <1>4, <1>7 DEF IInv, Handling, ScansFree
  <2> QED  BY <1>1, <1>6, <1>7, <2>1, <2>2, TableFrame, SweptKept DEF IInv, Handling
<1>8. CASE Begin(h, s, "reclaim", "attach")
  <2>1. /\ handler' \in [Handlers -> Handler] /\ ~Live(h)
        /\ \A g \in Handlers : g # h => handler'[g] = handler[g]
        /\ handler'[h].s = s /\ handler'[h].pc = "attach" /\ Len(handler'[h].inbox) = 0
        /\ table' = [table EXCEPT ![s] = h]
        /\ table' \in [Sessions -> Handlers \union {None}]
    BY <1>2, <1>8, BeginsTyped
  <2>2. handler[h].pc = "none"
    BY <1>8 DEF Begin, New, Free
  <2>3. proc[s] # "none" /\ (table[s] = None \/ overlap)
    BY <1>1 DEF IInv, Handling, ScansFree
  <2>4. table'[s] = h /\ \A t \in Sessions : t # s => table'[t] = table[t]
    BY <1>2, <2>1 DEF IInv, Types, TypeOK
  <2>5. \A t \in Sessions : t # s => table[t] # h
    BY <2>1 DEF IInv, Handling, EntryServed, Handlers, None
  <2>6. Live(h)' /\ \A g \in Handlers : g # h => (Live(g)' <=> Live(g))
    BY <2>1 DEF Live
  <2>7. Types'
    <3>1. \A g \in Handlers :
            /\ handler'[g].s \in Sessions \union {NoSession}
            /\ handler'[g].kind \in {"none", "fresh", "reclaim"}
            /\ handler'[g].pc \in {"none", "auth", "spawn", "poll", "attach", "run", "done"}
            /\ handler'[g].in \in {"idle", "asks", "stuck", "gone"}
      BY <2>1 DEF Handler
    <3>2. \A g \in Handlers : Len(handler'[g].inbox) <= InputCap
      BY <2>1, DaemonAssumption DEF IInv, Types, TypeOK
    <3>3. \A g \in Handlers : handler'[g].pc # "none" => handler'[g].s \in Sessions
      BY <1>2, <2>1 DEF IInv, Types
    <3>4. \A q \in Scans : scan'[q].pc \in {"none", "sleep", "scan", "done"}
      BY <1>4 DEF ScanRec
    <3>5. TypeOK'
      BY <1>1, <2>1, <3>1, <3>2, <3>4 DEF IInv, Types, TypeOK
    <3> QED  BY <1>4, <2>1, <3>3, <3>5 DEF Types, ScanRec
  <2>8. EntryServed'
    <3>1. table \in [Sessions -> Handlers \union {None}]
      BY DEF IInv, Types, TypeOK
    <3> QED  BY <2>1, <2>4, <2>5, <2>6, <3>1 DEF IInv, Handling, EntryServed
  <2>9. HandlerListed'
    <3> SUFFICES ASSUME NEW t \in Sessions, NEW g \in Handlers, Live(g)', handler'[g].s = t,
                        ~overlap'
                 PROVE  table'[t] = g
      BY DEF HandlerListed, Of
    <3>1. CASE g = h
      BY <2>1, <2>4, <3>1
    <3>2. CASE g # h
      <4>1. Live(g) /\ handler[g].s = t
        BY <2>1, <2>6, <3>2
      <4>2. table[t] = g
        BY <1>1, <4>1 DEF IInv, Handling, HandlerListed, Of
      <4>3. t # s
        BY <1>1, <2>3, <4>2 DEF Handlers, None
      <4> QED  BY <2>4, <4>2, <4>3
    <3> QED  BY <3>1, <3>2
  <2>10. ScansFree'
    <3> SUFFICES ASSUME NEW q \in Scans
                 PROVE  /\ \A t \in scan'[q].todo : proc'[t] # "none"
                        /\ scan'[q].at # NoSession =>
                            /\ scan'[q].pc = "scan" /\ proc'[scan'[q].at] # "none"
                            /\ table'[scan'[q].at] = None \/ overlap'
      BY DEF ScansFree
    <3>1. CASE q = r
      BY <1>1, <1>3, <1>4, <3>1 DEF IInv, Handling, ScansFree
    <3>2. CASE q # r
      BY <1>1, <1>4, <3>2 DEF IInv, Handling, ScansFree, OneScan
    <3> QED  BY <3>1, <3>2
  <2>11. Started'
    <3> SUFFICES ASSUME NEW t \in Sessions, proc[t] # "none"
                 PROVE  \E g \in Handlers : handler'[g].s = t /\ handler'[g].pc # "none"
      BY <1>1 DEF Started
    <3>1. PICK g \in Handlers : handler[g].s = t /\ handler[g].pc # "none"
      BY DEF IInv, Handling, Started
    <3> QED  BY <2>1, <2>2, <3>1
  <2>12. Fresh'
    <3> SUFFICES ASSUME NEW g \in Handlers, handler'[g].pc \in {"auth", "spawn"}
                 PROVE  /\ proc'[handler'[g].s] = "none"
                        /\ \A f \in Handlers : handler'[f].s = handler'[g].s => f = g
      BY DEF Fresh
    <3>1. g # h /\ handler'[g] = handler[g]
      BY <2>1
    <3>2. /\ proc[handler[g].s] = "none"
          /\ \A f \in Handlers : handler[f].s = handler[g].s => f = g
      BY <3>1 DEF IInv, Handling, Fresh
    <3> QED  BY <1>1, <2>1, <2>3, <3>1, <3>2
  <2> QED
    BY <1>1, <1>6, <2>7, <2>8, <2>9, <2>10, <2>11, <2>12, SweptKept DEF IInv, Handling
<1> QED  BY <1>1, <1>7, <1>8

LEMMA WingDiesInv == ASSUME IInv, WingDies PROVE IInv'
<1>1. /\ wing' = "down" /\ link' = "off" /\ UNCHANGED <<proc, told, files>>
      /\ sweep' = [s \in Sessions |-> "no"]
      /\ table' = [s \in Sessions |-> None] /\ watched' = {}
      /\ overlap' = FALSE /\ killing' = {}
  BY DEF WingDies, eggVars
<1>2. /\ \A h \in Handlers : Live(h) => handler'[h] = [s |-> handler[h].s, kind |-> "none",
            pc |-> "done", in |-> "idle", inbox |-> <<>>]
      /\ \A h \in Handlers : ~Live(h) => handler'[h] = handler[h]
      /\ handler' = [h \in Handlers |-> handler'[h]]
  BY Gone DEF WingDies
<1>3. \A h \in Handlers :
        /\ handler'[h] \in Handler /\ handler'[h].s = handler[h].s
        /\ handler'[h].pc = (IF Live(h) THEN "done" ELSE handler[h].pc)
        /\ Len(handler'[h].inbox) <= InputCap
  <2> SUFFICES ASSUME NEW h \in Handlers
               PROVE  /\ handler'[h] \in Handler /\ handler'[h].s = handler[h].s
                      /\ handler'[h].pc = (IF Live(h) THEN "done" ELSE handler[h].pc)
                      /\ Len(handler'[h].inbox) <= InputCap
    OBVIOUS
  <2>1. handler[h] \in Handler /\ Len(handler[h].inbox) <= InputCap
    BY DEF IInv, Types, TypeOK
  <2>2. CASE Live(h)
    <3> DEFINE x == [s |-> handler[h].s, kind |-> "none", pc |-> "done", in |-> "idle",
                     inbox |-> <<>>]
    <3>1. handler'[h] = x
      BY <1>2, <2>2
    <3>2. x \in Handler /\ x.inbox = <<>> /\ x.s = handler[h].s /\ x.pc = "done"
      BY <2>1, EmptySeq DEF Handler
    <3> HIDE DEF x
    <3> QED  BY <3>2, <2>2, <3>1, EmptySeq, DaemonAssumption
  <2>3. CASE ~Live(h)
    BY <1>2, <2>1, <2>3
  <2> QED  BY <2>2, <2>3
<1>4. handler' \in [Handlers -> Handler]
  BY <1>2, <1>3
<1>5. /\ scan' \in [Scans -> ScanRec]
      /\ \A r \in Scans : scan'[r].pc # "scan" /\ scan'[r].todo = {} /\ scan'[r].at = NoSession
  <2> DEFINE x == [NoScan EXCEPT !.pc = "done"]
  <2>1. \A q \in {x, NoScan} : q \in ScanRec /\ q.pc # "scan" /\ q.todo = {} /\ q.at = NoSession
    BY DEF NoScan, ScanRec
  <2>2. scan' = [r \in Scans |-> IF scan[r].pc = "none" THEN NoScan ELSE x]
    BY DEF WingDies
  <2> HIDE DEF x
  <2> QED  BY <2>1, <2>2
<1>6. \A h \in Handlers : ~Live(h)'
  BY <1>3 DEF Live
<1>7. Types'
  <2>1. \A g \in Handlers :
          /\ handler'[g].s \in Sessions \union {NoSession}
          /\ handler'[g].kind \in {"none", "fresh", "reclaim"}
          /\ handler'[g].pc \in {"none", "auth", "spawn", "poll", "attach", "run", "done"}
          /\ handler'[g].in \in {"idle", "asks", "stuck", "gone"}
    BY <1>3 DEF Handler
  <2>2. \A r \in Scans : scan'[r].pc \in {"none", "sleep", "scan", "done"}
    BY <1>5 DEF ScanRec
  <2>3. TypeOK'
    BY <1>1, <1>3, <2>1, <2>2 DEF IInv, Types, TypeOK
  <2>4. \A g \in Handlers : handler'[g].pc # "none" => handler'[g].s \in Sessions
    BY <1>3 DEF IInv, Types, Live
  <2> QED  BY <1>4, <1>5, <2>3, <2>4 DEF Types, ScanRec
<1>8. EntryServed' /\ HandlerListed'
  BY <1>1, <1>6 DEF EntryServed, HandlerListed, Of
<1>9. OneScan' /\ ScansFree'
  BY <1>5 DEF OneScan, ScansFree
<1>10. Started' /\ Fresh'
  BY <1>1, <1>3 DEF IInv, Handling, Started, Fresh, Live
<1>11. Swept'
  BY <1>1 DEF IInv, Swept
<1> QED  BY <1>7, <1>8, <1>9, <1>10, <1>11 DEF IInv, Handling

LEMMA StepInv == ASSUME IInv, [Next]_vars PROVE IInv'
<1>1. CASE UNCHANGED vars
  <2>1. UNCHANGED <<wing, link, proc, told, files, sweep, handler, table, watched>>
        /\ UNCHANGED <<scan, overlap, killing>>
    BY <1>1 DEF vars, eggVars, tabVars, scanVars
  <2>2. wing' \in {"down", "reaping", "up"} /\ link' \in {"off", "dialed", "on"}
    BY <2>1 DEF IInv, Types, TypeOK
  <2> QED  BY <2>1, <2>2, LinkInv
<1>2. ASSUME NEW s \in Sessions,
             \/ EggStep(s) \/ AgentEnds(s) \/ EggDies(s)
             \/ Sweeps(s) \/ Lists(s) \/ KillsOrphan(s) \/ ReapsIdle(s)
      PROVE  IInv'
  BY <1>2, EggInv, SweepsInv, ListsInv, KillsOrphanInv, ReapsIdleInv
<1>3. ASSUME NEW s \in Sessions, NEW h \in Handlers, Starts(h, s) PROVE IInv'
  BY <1>3, StartsInv
<1>4. ASSUME NEW s \in Sessions, NEW m \in Msgs, Receives(s, m) PROVE IInv'
  BY <1>4, ReceivesInv
<1>5. ASSUME NEW h \in Handlers, HandlerStep(h) \/ TakesPasskey(h) PROVE IInv'
  BY <1>5, AuthenticatesInv, SpawnsInv, PollsAttachesInv, TakesInputInv, TakesPasskeyInv
     DEF HandlerStep
<1>6. ASSUME NEW r \in Scans, ScanStep(r) \/ Registered(r) PROVE IInv'
  BY <1>6, ScanBeginsInv, ScanEndsInv, ScanChecksInv, ScanRegistersInv, RegisteredInv
     DEF ScanStep
<1>7. CASE Reaps \/ Dials \/ Drops \/ WingDies \/ WingStarts
  BY <1>7, ReapsInv, DialsDropsInv, WingDiesInv
<1> QED  BY <1>1, <1>2, <1>3, <1>4, <1>5, <1>6, <1>7 DEF Next, Msgs

LEMMA Invariant == Spec => []IInv
<1>1. IInv /\ [Next]_vars => IInv'
  BY StepInv
<1> QED  BY <1>1, InitInv, PTL DEF Spec

(* The theorems *)

\* The daemon's table, its handlers and their channels, the reclaims and the
\* eggs' files keep their types; no channel holds more than its capacity.
THEOREM TypeCorrect == Spec => []TypeOK
<1>1. IInv => TypeOK
  BY DEF IInv, Types
<1> QED  BY <1>1, Invariant, PTL

\* Unless two reclaims have overlapped, a session has one handler, and the
\* table has it; and what is in the table is always a handler that is there,
\* through reconnects, restarts and eggs that die.
THEOREM HandlersAreSound == Spec => []HandlersHold
<1>1. ASSUME IInv PROVE HandlersHold
  <2>1. EntryServed /\ HandlerListed
    BY <1>1 DEF IInv, Handling
  <2>2. OneHandler
    <3> SUFFICES ASSUME NEW s \in Sessions, ~overlap PROVE ~(Cardinality(Of(s)) > 1)
      BY DEF OneHandler
    <3>1. \A h \in Of(s) : h = table[s]
      BY <2>1 DEF HandlerListed
    <3>2. CASE Of(s) = {}
      BY <3>2, FS_EmptySet
    <3>3. CASE Of(s) # {}
      <4>1. Of(s) = {table[s]}
        BY <3>1, <3>3
      <4>2. Cardinality(Of(s)) = 1
        BY <4>1, FS_Singleton
      <4> QED  BY <4>2
    <3> QED  BY <3>2, <3>3
  <2> QED  BY <2>1, <2>2 DEF HandlersHold
<1> QED  BY <1>1, Invariant, PTL

\* What a step may do to the files of an egg that serves.
KeepsFiles(s) ==
    (proc[s] = "up" /\ s \notin told /\ files[s] = Both /\ files'[s] # Both)
        => sweep[s] = "stale" \/ proc'[s] # "up"

LEMMA FilesStep == ASSUME IInv, [Next]_vars, NEW s \in Sessions PROVE KeepsFiles(s)
<1> SUFFICES ASSUME proc[s] = "up", s \notin told, files[s] = Both, files'[s] # Both
             PROVE  sweep[s] = "stale" \/ proc'[s] # "up"
  BY DEF KeepsFiles
<1>1. files \in [Sessions -> SUBSET Both] /\ sweep[s] \in {"no", "dead", "stale", "killed"}
  BY DEF IInv, Types, TypeOK
<1>2. ASSUME NEW t \in Sessions, EggStep(t) PROVE FALSE
  <2>1. files' = [files EXCEPT ![t] = files[t] \union {"token"}]
        \/ files' = [files EXCEPT ![t] = files[t] \union {"pid"}]
        \/ (files' = [files EXCEPT ![t] = {}] /\ proc[t] \in {"boot", "ending"})
    BY <1>2 DEF EggStep, Listens, Serves, BootFails, Leaves
  <2> QED  BY <1>1, <2>1 DEF Both
<1>3. ASSUME NEW t \in Sessions, Sweeps(t) PROVE sweep[s] = "stale"
  <2>1. t = s /\ sweep[s] # "no"
    BY <1>1, <1>3 DEF Sweeps
  <2> QED  BY <1>1, <2>1 DEF IInv, Swept
<1>4. ASSUME files' = files PROVE FALSE
  BY <1>4
<1>5. ASSUME NEW t \in Sessions,
             \/ AgentEnds(t) \/ EggDies(t) \/ Lists(t) \/ KillsOrphan(t) \/ ReapsIdle(t)
             \/ \E h \in Handlers : Starts(h, t)
             \/ \E m \in Msgs : Receives(t, m)
      PROVE  FALSE
  BY <1>4, <1>5 DEF AgentEnds, EggDies, Lists, KillsOrphan, ReapsIdle, Starts, Receives, eggVars
<1>6. ASSUME NEW h \in Handlers, HandlerStep(h) \/ TakesPasskey(h) PROVE FALSE
  BY <1>4, <1>6 DEF HandlerStep, Authenticates, Spawns, Polls, Attaches, SeesExit, TakesInput,
     TakesPasskey, eggVars
<1>7. ASSUME NEW r \in Scans, ScanStep(r) \/ Registered(r) PROVE FALSE
  BY <1>4, <1>7 DEF ScanStep, ScanBegins, ScanEnds, ScanChecks, ScanRegisters, Registered, eggVars
<1>8. CASE UNCHANGED vars \/ Reaps \/ Dials \/ Drops \/ WingDies \/ WingStarts
  BY <1>4, <1>8 DEF vars, Reaps, Dials, Drops, WingDies, WingStarts, eggVars
<1> QED  BY <1>2, <1>3, <1>5, <1>6, <1>7, <1>8 DEF Next, Msgs

\* An egg that serves keeps its files, by which alone it is found again, until
\* it is told to end: sweeps of what was dead, and kills of what was told, come
\* too late to hit it, unless it was seen before it had written its pid.
THEOREM FilesStay == Spec => FilesKept
<1>1. IInv /\ [Next]_vars =>
        [\A s \in Sessions :
            (proc[s] = "up" /\ s \notin told /\ files[s] = Both /\ files'[s] # Both)
                => sweep[s] = "stale" \/ proc'[s] # "up"]_vars
  BY FilesStep DEF KeepsFiles
<1> QED  BY <1>1, Invariant, PTL DEF Spec, FilesKept
=============================================================================
