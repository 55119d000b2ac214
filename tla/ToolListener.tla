---------------------------- MODULE ToolListener ----------------------------
(* The socket over which the agent in an egg calls the wing's tools            *)
(* (internal/egg/tool_socket.go, cmd/wt/tool_call.go): connections handled by  *)
(* goroutines of their own, a semaphore per tool that Reload carries over, and *)
(* a Close that waits for the calls it finds. An egg's session closes it; the  *)
(* repository's tests are all that calls Reload.                               *)
EXTENDS Integers, FiniteSets

CONSTANTS
    Calls,      \* calls of `wt tool-call`
    Tools,
    Caps,       \* values of max_concurrent; 0 is no limit
    MaxReloads  \* bound

VARIABLES
    calls,      \* a call: how far, for which tool, and the semaphore it looked up
    tools,      \* tool -> its max_concurrent, or Absent: the listener's configurations
    sema,       \* tool -> which of its semaphores is in the map, 0 is none
    listener,   \* open, closing (Close waits) or closed
    reloads,
    since       \* history: calls of a tool that found the limit it still has

vars == <<calls, tools, sema, listener, reloads, since>>
Absent == -1
NoCall == [st |-> "new", tool |-> "none", s |-> 0, cap |-> 0, reply |-> "none"]

\* The tools there are, each with its limit.
Configs == [Tools -> Caps \union {Absent}]

\* NewToolListener: a semaphore for every tool that has a limit.
Init ==
    /\ calls = [c \in Calls |-> NoCall]
    /\ tools \in Configs
    /\ sema = [t \in Tools |-> IF tools[t] > 0 THEN 1 ELSE 0]
    /\ listener = "open" /\ reloads = 0
    /\ since = [t \in Tools |-> {}]

Accept(c) ==
    /\ listener = "open" /\ calls[c].st = "new"
    /\ \E t \in Tools : calls' = [calls EXCEPT ![c].st = "read", ![c].tool = t]
    /\ UNCHANGED <<tools, sema, listener, reloads, since>>

\* Under the lock: the tool's configuration and its semaphore, as they are now.
Answered(c, reply) == [calls EXCEPT ![c] = [NoCall EXCEPT !.st = "done", !.reply = reply]]
LooksUp(c) ==
    /\ calls[c].st = "read"
    /\ LET t == calls[c].tool IN
       IF tools[t] = Absent THEN calls' = Answered(c, "unknown") /\ UNCHANGED since
       ELSE /\ calls' = [calls EXCEPT ![c].st = "found", ![c].s = sema[t], ![c].cap = tools[t]]
            /\ since' = [since EXCEPT ![t] = @ \union {c}]
    /\ UNCHANGED <<tools, sema, listener, reloads>>

\* A place in the semaphore it looked up, or the call is refused.
Holders(t, s) == {c \in Calls : calls[c].st = "runs" /\ calls[c].tool = t /\ calls[c].s = s}
\* Mutant: there is one place too many.
MutantFull(c) == calls[c].s # 0 /\ Cardinality(Holders(calls[c].tool, calls[c].s)) > calls[c].cap
Full(c) == calls[c].s # 0 /\ Cardinality(Holders(calls[c].tool, calls[c].s)) >= calls[c].cap
Admits(c) ==
    /\ calls[c].st = "found"
    /\ LET t == calls[c].tool IN
       IF Full(c)
       THEN calls' = Answered(c, "limit") /\ since' = [since EXCEPT ![t] = @ \ {c}]
       ELSE calls' = [calls EXCEPT ![c].st = "runs"] /\ UNCHANGED since
    /\ UNCHANGED <<tools, sema, listener, reloads>>

\* executeTool: the process ends by itself, or its group is killed at the timeout.
Finishes(c) ==
    /\ calls[c].st = "runs"
    /\ \E reply \in {"exit", "timeout"} : calls' = Answered(c, reply)
    /\ since' = [since EXCEPT ![calls[c].tool] = @ \ {c}]
    /\ UNCHANGED <<tools, sema, listener, reloads>>

\* The old semaphore stays if it has the same capacity; a new one is empty.
Keeps(t, cfg) == sema[t] # 0 /\ tools[t] = cfg[t]
Reload ==
    /\ reloads < MaxReloads
    /\ \E cfg \in Configs \ {tools} :
         /\ tools' = cfg
         /\ sema' = [t \in Tools |-> IF cfg[t] <= 0 THEN 0
                                     ELSE IF Keeps(t, cfg) THEN sema[t] ELSE reloads + 2]
         /\ since' = [t \in Tools |-> IF cfg[t] = tools[t] THEN since[t] ELSE {}]
    /\ reloads' = reloads + 1
    /\ UNCHANGED <<calls, listener>>

\* The listener goes first, so nothing is accepted any more; then Close waits.
Close ==
    /\ listener = "open" /\ listener' = "closing"
    /\ UNCHANGED <<calls, tools, sema, reloads, since>>
Closed ==
    /\ listener = "closing" /\ \A c \in Calls : calls[c].st \in {"new", "done"}
    /\ listener' = "closed"
    /\ UNCHANGED <<calls, tools, sema, reloads, since>>

Next ==
    \/ \E c \in Calls : Accept(c) \/ LooksUp(c) \/ Admits(c) \/ Finishes(c)
    \/ Reload \/ Close \/ Closed

Spec == Init /\ [][Next]_vars

-----------------------------------------------------------------------------
TypeOK ==
    /\ calls \in [Calls -> [st : {"new", "read", "found", "runs", "done"}, tool : Tools \union {"none"},
                            s : 0 .. MaxReloads + 1, cap : Caps \union {0},
                            reply : {"none", "unknown", "limit", "exit", "timeout"}]]
    /\ tools \in Configs /\ sema \in [Tools -> 0 .. MaxReloads + 1]
    /\ listener \in {"open", "closing", "closed"} /\ reloads \in 0 .. MaxReloads
    /\ since \in [Tools -> SUBSET Calls]

(* However calls come together, are refused, end or time out, a tool never runs  *)
(* more of them than its limit, counting every call that found this limit, also  *)
(* those a reload with the same one finds running. (A limit that changes counts  *)
(* from zero: calls found before stay in the old semaphore.)                     *)
ToolLimit ==
    \A t \in Tools : tools[t] > 0 =>
        Cardinality({c \in since[t] : calls[c].st = "runs"}) <= tools[t]
=============================================================================
