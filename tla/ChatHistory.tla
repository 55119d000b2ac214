----------------------------- MODULE ChatHistory -----------------------------
(* The chat history of a session (internal/egg/chat_capture.go, server.go): the *)
(* egg copies the agent's own file into its directory, now and then while the   *)
(* agent runs and once more when it has exited; the copy is read by the wing    *)
(* (cmd/wt/wing.go), synced to another machine (cmd/wt/session.go) and put back *)
(* for a later session (chat_restore.go, cmd/wt/egg.go).  A file is two halves, *)
(* so that it can be seen half written.                                         *)
EXTENDS Integers

CONSTANTS
    MaxLines,   \* bound: lines of a conversation
    MaxTicks    \* bound: captures while the agent runs

VARIABLES
    home,       \* the agent's files: of each conversation, what is in its file
    newest,     \* the one modified last since the session started
    egg, agent, \* the processes
    captors,    \* the ticker's goroutine and the final capture: step and file
    inodes,     \* the files captures wrote
    dir,        \* the egg's directory: which file has which name, chat.meta
    sync,       \* `wt session sync' on another machine: whose text it writes, its copy
    ticks,
    past        \* history: what went on, for the properties

vars == <<home, newest, egg, agent, captors, inodes, dir, sync, ticks, past>>

Convs == {"main", "other"}
Captors == {"ticker", "final"}
Inodes == 1 .. MaxTicks + 1

Lines(c, n) == [of |-> c, n |-> n]
Torn == Lines("torn", 0)
Empty == Lines("none", 0)
\* What a file holds when it is read: something only when its halves agree.
Reads(f) == IF f.head = f.tail THEN f.head ELSE Torn

Idle == [pc |-> "idle", conv |-> "none", what |-> Empty, ino |-> 0]
Writing(k) == captors[k].pc \in {"writing", "closing", "renaming"}

Init ==
    /\ \E old \in 0 .. 1 :   \* lines of a conversation of before the session
         home = [c \in Convs |-> Lines(c, IF c = "other" THEN old ELSE 0)]
    /\ newest = "none"
    /\ egg = "up" /\ agent = "runs"
    /\ captors = [k \in Captors |-> Idle]
    /\ inodes = [i \in Inodes |-> [head |-> Empty, tail |-> Empty]]
    /\ dir = [tmp |-> 0, chat |-> 0, meta |-> "none"]
    /\ sync = [of |-> "none", copy |-> "none"]
    /\ ticks = 0
    /\ past = [overlap |-> FALSE, failed |-> FALSE, others |-> FALSE,
               captured |-> FALSE, stopped |-> FALSE, resumed |-> FALSE, cut |-> FALSE]

\* The agent, or another one in the same directory, goes on with its conversation.
Says(c) ==
    /\ home[c].n < MaxLines /\ egg # "gone" /\ (c = "main" => agent = "runs")
    /\ home' = [home EXCEPT ![c].n = @ + 1] /\ newest' = c
    /\ past' = [past EXCEPT !.others = @ \/ c = "other"]
    /\ UNCHANGED <<egg, agent, captors, inodes, dir, sync, ticks>>

Step(k, cap) == captors' = [captors EXCEPT ![k] = cap]

\* Every 30 s; a tick that is pending when the agent exits may still be taken.
Tick ==
    /\ egg # "gone" /\ captors["ticker"].pc = "idle" /\ ticks < MaxTicks
    /\ captors["final"].pc # "done"
    /\ ticks' = ticks + 1
    /\ Step("ticker", [Idle EXCEPT !.pc = "finding"])
    /\ UNCHANGED <<home, newest, egg, agent, inodes, dir, sync, past>>

\* The agent exits; the configuration and the sandbox are put back first.
AgentExits ==
    /\ egg # "gone" /\ agent = "runs"
    /\ agent' = "done"
    /\ Step("final", [Idle EXCEPT !.pc = "finding"])
    /\ UNCHANGED <<home, newest, egg, inodes, dir, sync, ticks, past>>

Done(k) == [Idle EXCEPT !.pc = IF k = "final" THEN "done" ELSE "idle"]

\* CaptureSessionHistory: the newest file, if there is one, ...
Finds(k) ==
    /\ captors[k].pc = "finding"
    /\ \/ newest = "none" /\ Step(k, Done(k))
       \/ newest # "none" /\ Step(k, [captors[k] EXCEPT !.pc = "found", !.conv = newest])
    /\ UNCHANGED <<home, newest, egg, agent, inodes, dir, sync, ticks, past>>

\* ... os.Create, which empties the file when there is one, ...
\* Mutant: without a temporary file.
MutantTarget == "chat"
Target == "tmp"
Unused == CHOOSE i \in Inodes : inodes[i].head = Empty /\ i \notin {dir.tmp, dir.chat}
Creates(k) ==
    /\ captors[k].pc = "found" /\ egg # "leaving"
    /\ LET i == IF dir[Target] # 0 THEN dir[Target] ELSE Unused IN
       /\ inodes' = [inodes EXCEPT ![i] = [head |-> Torn, tail |-> Empty]]
       /\ dir' = [dir EXCEPT ![Target] = i]
       /\ Step(k, [captors[k] EXCEPT !.pc = "writing", !.ino = i])
    /\ past' = [past EXCEPT !.overlap = @ \/ \E q \in Captors \ {k} : Writing(q)]
    /\ UNCHANGED <<home, newest, egg, agent, sync, ticks>>

\* ... the copy, of the lines there are by now, in two writes, ...
Copies(k) ==
    LET cap == captors[k] IN
    /\ cap.pc = "writing"
    /\ inodes' = [inodes EXCEPT ![cap.ino].head = home[cap.conv]]
    /\ Step(k, [cap EXCEPT !.pc = "closing", !.what = home[cap.conv]])
    /\ UNCHANGED <<home, newest, egg, agent, dir, sync, ticks, past>>
Closes(k) ==
    LET cap == captors[k] IN
    /\ cap.pc = "closing"
    /\ inodes' = [inodes EXCEPT ![cap.ino].tail = cap.what]
    /\ Step(k, [cap EXCEPT !.pc = "renaming"])
    /\ UNCHANGED <<home, newest, egg, agent, dir, sync, ticks, past>>

\* ... or an error on the way, that the directory is gone, too: a temporary file
\* it has begun is removed, ...
Fails(k) ==
    /\ captors[k].pc \in {"found", "writing", "closing", "meta"}
    /\ dir' = IF captors[k].pc \in {"writing", "closing"} THEN [dir EXCEPT !.tmp = 0] ELSE dir
    /\ Step(k, Done(k))
    /\ past' = [past EXCEPT !.failed = TRUE]
    /\ UNCHANGED <<home, newest, egg, agent, inodes, sync, ticks>>

\* ... the rename, an error when the name is no longer there, and chat.meta.
Renames(k) ==
    /\ captors[k].pc = "renaming"
    /\ IF dir[Target] = 0
       THEN Step(k, Done(k)) /\ UNCHANGED <<dir, past>>
       ELSE /\ dir' = [dir EXCEPT !.chat = dir[Target], !.tmp = 0]
            /\ past' = [past EXCEPT !.captured = @ \/ egg \in {"up", "stopping"}]
            /\ Step(k, [captors[k] EXCEPT !.pc = "meta"])
    /\ UNCHANGED <<home, newest, egg, agent, inodes, sync, ticks>>
WritesMeta(k) ==
    /\ captors[k].pc = "meta" /\ egg # "leaving"
    /\ dir' = [dir EXCEPT !.meta = captors[k].conv]
    /\ Step(k, Done(k))
    /\ UNCHANGED <<home, newest, egg, agent, inodes, sync, ticks, past>>

-----------------------------------------------------------------------------
Gone ==
    /\ egg' = "gone" /\ agent' = "done"
    /\ captors' = [k \in Captors |-> Idle]
    /\ UNCHANGED <<home, newest, inodes, dir, sync, ticks>>

\* cleanup: the directory stays when there is a history in it. Captures go on
\* while it looks, removes what is there, and until the process is gone.
Cleanup ==
    \/ dir.chat # 0 /\ Gone
    \/ /\ dir.chat = 0 /\ egg' = "removing"
       /\ UNCHANGED <<home, newest, agent, captors, inodes, dir, sync, ticks>>
Removes ==
    /\ egg = "removing"
    /\ dir' = [tmp |-> 0, chat |-> 0, meta |-> "none"] /\ egg' = "leaving"
    /\ UNCHANGED <<home, newest, agent, captors, inodes, sync, ticks, past>>
Leaves == egg = "leaving" /\ Gone /\ UNCHANGED past

\* After the final capture the gRPC server is stopped and Serve returns.
MayEnd == captors["final"].pc = "done"
Ends == egg = "up" /\ MayEnd /\ Cleanup /\ UNCHANGED past

\* shutdown: the agent is told to stop, then killed, and nothing waits for the
\* final capture.
ShutdownBegins ==
    /\ egg = "up"
    /\ egg' = "stopping" /\ past' = [past EXCEPT !.stopped = TRUE]
    /\ UNCHANGED <<home, newest, agent, captors, inodes, dir, sync, ticks>>
Shutdown == egg = "stopping" /\ Cleanup /\ UNCHANGED past
Dies == egg # "gone" /\ Gone /\ past' = [past EXCEPT !.stopped = TRUE]

-----------------------------------------------------------------------------
\* getSessionsHistory and `wt session list': past sessions with a history.
Listed == egg = "gone" /\ dir.chat # 0

\* streamAuditData reads the file and sends it in pieces; the other side keeps
\* them (a stream that breaks leaves nothing) and after the last one writes its own
\* file, in place. Bound: again only when the copy is no good.
SyncStarts ==
    /\ sync.of = "none" /\ sync.copy \in {"none", "torn"} /\ dir.chat # 0
    /\ sync' = [of |-> Reads(inodes[dir.chat]).of, copy |-> "torn"]
    /\ UNCHANGED <<home, newest, egg, agent, captors, inodes, dir, ticks, past>>
SyncEnds ==
    /\ sync.of # "none"
    /\ sync' = [of |-> "none", copy |-> sync.of]
    /\ past' = [past EXCEPT !.cut = FALSE]
    /\ UNCHANGED <<home, newest, egg, agent, captors, inodes, dir, ticks>>
SyncBreaks ==
    /\ sync.of # "none"
    /\ sync' = [sync EXCEPT !.of = "none"]
    /\ past' = [past EXCEPT !.cut = TRUE]
    /\ UNCHANGED <<home, newest, egg, agent, captors, inodes, dir, ticks>>

\* `wt egg --resume': the copy overwrites the file of the conversation that
\* chat.meta names, in place: all of it, or less when that is cut short.
Resumes ==
    /\ egg = "gone" /\ ~past.resumed /\ dir.meta # "none" /\ dir.chat # 0
    /\ \E whole \in BOOLEAN :
         /\ home' = [home EXCEPT ![dir.meta] = IF whole THEN Reads(inodes[dir.chat]) ELSE Torn]
         /\ past' = [past EXCEPT !.resumed = TRUE, !.failed = @ \/ ~whole]
    /\ UNCHANGED <<newest, egg, agent, captors, inodes, dir, sync, ticks>>

Next ==
    \/ \E c \in Convs : Says(c)
    \/ Tick \/ AgentExits
    \/ \E k \in Captors :
          Finds(k) \/ Creates(k) \/ Copies(k) \/ Closes(k) \/ Fails(k) \/ Renames(k) \/ WritesMeta(k)
    \/ Ends \/ ShutdownBegins \/ Shutdown \/ Removes \/ Leaves \/ Dies
    \/ SyncStarts \/ SyncEnds \/ SyncBreaks \/ Resumes

Spec == Init /\ [][Next]_vars

-----------------------------------------------------------------------------
File == [of : Convs \cup {"torn", "none"}, n : 0 .. MaxLines]
TypeOK ==
    /\ home \in [Convs -> File] /\ newest \in Convs \cup {"none"}
    /\ egg \in {"up", "stopping", "removing", "leaving", "gone"} /\ agent \in {"runs", "done"}
    /\ \A k \in Captors : captors[k].ino \in Inodes \cup {0} /\ captors[k].what \in File
    /\ inodes \in [Inodes -> [head : File, tail : File]]
    /\ dir \in [tmp : Inodes \cup {0}, chat : Inodes \cup {0}, meta : Convs \cup {"none"}]
    /\ sync.copy \in Convs \cup {"torn", "none"} /\ sync.of \in Convs \cup {"torn", "none"}
    /\ ticks \in 0 .. MaxTicks
    /\ \A f \in DOMAIN past : past[f] \in BOOLEAN

(* Unless two captures ran into each other: once there is a history, before     *)
(* cleanup looks for one, there always is one, whatever fails or dies after; any *)
(* history there is a whole copy of one conversation (one that is renamed into  *)
(* place after cleanup has looked may go with the directory, but not half); and *)
(* so is what was synced of it, unless the writing of the copy was cut short.   *)
CaptureWhole ==
    ~past.overlap =>
        /\ past.captured => dir.chat # 0
        /\ dir.chat # 0 => Reads(inodes[dir.chat]).of \in Convs
        /\ sync.of = "none" /\ ~past.cut => sync.copy \in Convs \cup {"none"}

(* A session that ended by itself, alone in its directory, with no error on the *)
(* way, has its whole conversation in its history, under its own name, and it   *)
(* may be resumed without a line of it lost.                                    *)
HistoryKept ==
    egg = "gone" /\ ~past.overlap /\ ~past.failed /\ ~past.others /\ ~past.stopped /\ newest = "main" =>
        /\ Listed /\ dir.meta = "main"
        /\ past.resumed => home["main"].of = "main"
        /\ Reads(inodes[dir.chat]) = home["main"]
=============================================================================
