----------------------------- MODULE WingCommand -----------------------------
(* The commands that start, stop, restart and replace the background daemon    *)
(* (cmd/wt/wing.go, roost.go, main.go, update.go) and the daemon itself as they *)
(* see it: a process, the pid files and args files the commands write, the      *)
(* status file the daemon writes, the token and the roost's port. One command   *)
(* runs at a time; daemons take their own steps meanwhile.                      *)
EXTENDS Integers, FiniteSets

CONSTANTS
    MaxProcs,   \* bound: daemons ever spawned
    MaxOps,     \* bound: commands given
    MaxFaults   \* bound: kills, expiries of the token and lost connections

VARIABLES
    procs,      \* the daemons: kind, how far they are, and whether SIGTERM was sent
    pidFile,    \* wing.pid and roost.pid: 0 is no file
    args,       \* whether wing.args and roost.args exist
    status,     \* wing.status
    token,      \* device_token.yaml
    port,       \* the daemon that listens on the roost's port, or 0
    cli,        \* the command that runs
    ops, faults

files == <<pidFile, args>>
vars == <<procs, pidFile, args, status, token, port, cli, ops, faults>>

Kinds == {"wing", "roost"}
Pids == 1 .. MaxProcs
NoCli == [op |-> "none", pid |-> 0]
States == {"connecting", "connected", "disconnected", "auth_failed"}

Init ==
    /\ procs = [p \in Pids |-> [kind |-> "none", st |-> "new", told |-> FALSE]]
    /\ pidFile = [k \in Kinds |-> 0] /\ args = [k \in Kinds |-> FALSE]
    /\ status = "none" /\ token \in {"none", "valid"} /\ port = 0
    /\ cli = NoCli /\ ops = 0 /\ faults = 0

Alive(p) == p # 0 /\ procs[p].st \in {"boot", "up", "left"}

\* readPidFrom removes a file that names a dead process; readPid asks for the
\* wing's first and for the roost's only if that one is not alive.
Live(k) == Alive(pidFile[k])
\* Mutant: readPid only knows wing.pid.
MutantReadPid == IF Live("wing") THEN pidFile["wing"] ELSE 0
ReadPid == IF Live("wing") THEN pidFile["wing"]
           ELSE IF Live("roost") THEN pidFile["roost"] ELSE 0
Tidy(k) == IF Live(k) THEN pidFile[k] ELSE 0
Tidied == [k \in Kinds |-> IF k = "roost" /\ Live("wing") THEN pidFile[k] ELSE Tidy(k)]

Told(p) == [procs EXCEPT ![p].told = TRUE]
Free == {p \in Pids : procs[p].st = "new"}
Spawned(ps, k, p) == [ps EXCEPT ![p] = [kind |-> k, st |-> "boot", told |-> FALSE]]
Begins(op) == cli = NoCli /\ ops < MaxOps /\ ops' = ops + 1

\* The daemon is spawned and its files written; `wt start` then watches the status.
Spawns(k, ps, pidf, argf, next) ==
    \E p \in Free :
        /\ \A q \in Free : p <= q
        /\ procs' = Spawned(ps, k, p)
        /\ pidFile' = [pidf EXCEPT ![k] = p]
        /\ args' = [argf EXCEPT ![k] = TRUE]
        /\ cli' = IF next = "none" THEN NoCli ELSE [op |-> next, pid |-> p]

\* wt start: refused when a daemon lives or the token is not good.
StartWing(ps, pidf, argf) ==
    /\ token = "valid"
    /\ status' = "none"
    /\ Spawns("wing", ps, pidf, argf, "start")
WingStart ==
    /\ Begins("start")
    /\ ReadPid = 0
    /\ StartWing(procs, Tidied, args)
    /\ UNCHANGED <<token, port, faults>>

\* wt roost start: refused when the roost or a wing lives.
RoostStart ==
    /\ Begins("roost")
    /\ ~Live("roost") /\ ~Live("wing")
    /\ Spawns("roost", procs, [k \in Kinds |-> Tidy(k)], args, "none")
    /\ UNCHANGED <<status, token, port, faults>>

Drop(f, ks, v) == [k \in Kinds |-> IF k \in ks THEN v ELSE f[k]]

\* waitForWingStatus: a dead child without a status file counts as a rejected token.
WaitSays ==
    IF ~Alive(cli.pid) THEN IF status = "none" THEN "auth_failed" ELSE status
    ELSE IF status \in {"connected", "auth_failed"} THEN status ELSE "waits"
StartEnds ==
    /\ cli.op \in {"start", "again"}
    /\ cli' = NoCli     \* at once, or after five seconds of waiting
    /\ IF cli.op = "start" /\ WaitSays = "auth_failed"
       THEN /\ procs' = Told(cli.pid)
            /\ pidFile' = Drop(pidFile, {"wing"}, 0) /\ args' = Drop(args, {"wing"}, FALSE)
            /\ status' = "none"
       ELSE UNCHANGED <<procs, files, status>>
    /\ UNCHANGED <<token, port, ops, faults>>

\* wt wing stop leaves the roost's files, wt roost stop the wing's; wt stop takes all.
Stops(ks) ==
    /\ ReadPid # 0
    /\ procs' = Told(ReadPid)
    /\ pidFile' = Drop(Tidied, ks, 0) /\ args' = Drop(args, ks, FALSE)
Stop ==
    /\ Begins("stop")
    /\ Stops(Kinds)
    /\ UNCHANGED <<status, token, port, cli, faults>>
WingStop ==
    /\ Begins("stop")
    /\ Stops({"wing"})
    /\ status' = "none"
    /\ UNCHANGED <<token, port, cli, faults>>
RoostStop ==
    /\ Begins("stop")
    /\ Live("roost")
    /\ procs' = Told(pidFile["roost"])
    /\ pidFile' = Drop(pidFile, {"roost"}, 0) /\ args' = Drop(args, {"roost"}, FALSE)
    /\ UNCHANGED <<status, token, port, cli, faults>>

\* wt wing status and wt roost status only clear what is stale.
WingStatus ==
    /\ cli = NoCli /\ pidFile' = Tidied
    /\ UNCHANGED <<procs, args, status, token, port, cli, ops, faults>>
RoostStatus ==
    /\ cli = NoCli /\ pidFile' = [pidFile EXCEPT !["roost"] = Tidy("roost")]
    /\ UNCHANGED <<procs, args, status, token, port, cli, ops, faults>>

\* wt logout and wt login stop the daemon and wait for its end, but not for ever.
Halts(op) ==
    /\ ReadPid # 0
    /\ procs' = Told(ReadPid)
    /\ pidFile' = Tidied
    /\ cli' = [op |-> op, pid |-> ReadPid]
    /\ UNCHANGED <<args, status, port, faults>>
Logout ==
    /\ Begins("logout")
    /\ IF ReadPid # 0 THEN Halts("logout") /\ UNCHANGED token
       ELSE token' = "none" /\ pidFile' = Tidied /\ UNCHANGED <<procs, args, status, port, cli, faults>>
LogoutEnds ==
    /\ cli.op = "logout"
    /\ token' = "none"
    /\ pidFile' = Drop(pidFile, Kinds, 0) /\ args' = Drop(args, Kinds, FALSE)
    /\ cli' = NoCli
    /\ UNCHANGED <<procs, status, port, ops, faults>>

\* wt login with a new token restarts the daemon with what wing.args says.
Login ==
    /\ Begins("login") /\ token # "valid"
    /\ token' = "valid"
    /\ IF ReadPid # 0 /\ args["wing"] THEN Halts("login")
       ELSE pidFile' = Tidied /\ UNCHANGED <<procs, args, status, port, cli, faults>>
LoginEnds ==
    /\ cli.op = "login"
    /\ status' = "none"
    /\ Spawns("wing", procs, pidFile, args, "again")
    /\ UNCHANGED <<token, port, ops, faults>>

\* wt update: signal the daemon, drop its pid file, run `start` with its args at
\* once; that start looks for a living daemon itself, and so clears what is stale.
Update ==
    /\ Begins("update")
    /\ \E k \in Kinds :
        /\ Live(k) /\ (k = "roost" => ~Live("wing"))
        /\ LET pidf == [q \in Kinds |-> IF q = k THEN 0 ELSE Tidy(q)]
               ps == Told(pidFile[k]) IN
           IF k = "roost" THEN Spawns("roost", ps, pidf, args, "none") /\ UNCHANGED status
           ELSE IF pidf["roost"] = 0 /\ token = "valid" THEN StartWing(ps, pidf, args)
           ELSE procs' = ps /\ pidFile' = pidf /\ UNCHANGED <<args, cli, status>>
    /\ UNCHANGED <<token, port, faults>>

-----------------------------------------------------------------------------
Set(p, st) == procs' = [procs EXCEPT ![p].st = st]

\* A wing without a good token leaves at once, and its status file with it; a roost
\* writes a token of its own and leaves when its port is taken.
Boot(p) ==
    /\ procs[p].st = "boot"
    /\ IF procs[p].kind = "roost"
       THEN /\ token' = "valid"
            /\ IF port = 0 THEN port' = p /\ Set(p, "up") /\ status' = "connecting"
               ELSE Set(p, "dead") /\ UNCHANGED <<port, status>>
       ELSE /\ IF token = "valid" THEN Set(p, "up") /\ status' = "connecting"
               ELSE Set(p, "dead") /\ status' = "none"
            /\ UNCHANGED <<token, port>>
    /\ UNCHANGED <<files, cli, ops, faults>>

Connects(p) ==
    /\ procs[p].st = "up" /\ ~procs[p].told /\ status # "connected"
    /\ IF token = "valid" THEN status' = "connected" /\ UNCHANGED procs
       ELSE status' = "auth_failed" /\ Set(p, "left")
    /\ UNCHANGED <<files, token, port, cli, ops, faults>>

\* A lost connection; isAuthError takes every error whose text has 401 in it, a
\* port for example, for a rejected token, and the daemon gives up.
Loses(p) ==
    /\ procs[p].st = "up" /\ faults < MaxFaults
    /\ faults' = faults + 1
    /\ \/ status' = "disconnected" /\ UNCHANGED procs
       \/ status' = "auth_failed" /\ Set(p, "left")
    /\ UNCHANGED <<files, token, port, cli, ops>>

\* SIGTERM: the wing writes one more status and then removes the file; the roost
\* frees its port and leaves the file.
Quits(p) ==
    /\ procs[p].told /\ procs[p].st \in {"boot", "up"}
    /\ Set(p, "left")
    /\ status' = IF procs[p].st = "up" THEN "disconnected" ELSE status
    /\ UNCHANGED <<files, token, port, cli, ops, faults>>
Exits(p) ==
    /\ procs[p].st = "left"
    /\ Set(p, "dead")
    /\ status' = IF procs[p].kind = "wing" THEN "none" ELSE status
    /\ port' = IF port = p THEN 0 ELSE port
    /\ UNCHANGED <<files, token, cli, ops, faults>>

Killed(p) ==
    /\ Alive(p) /\ faults < MaxFaults
    /\ faults' = faults + 1
    /\ Set(p, "dead")
    /\ port' = IF port = p THEN 0 ELSE port
    /\ UNCHANGED <<files, status, token, cli, ops>>
TokenExpires ==
    /\ token = "valid" /\ faults < MaxFaults
    /\ faults' = faults + 1
    /\ token' = "expired"
    /\ UNCHANGED <<procs, files, status, port, cli, ops>>

Next ==
    \/ WingStart \/ RoostStart \/ StartEnds \/ Stop \/ WingStop \/ RoostStop \/ WingStatus \/ RoostStatus
    \/ Logout \/ LogoutEnds \/ Login \/ LoginEnds \/ Update \/ TokenExpires
    \/ \E p \in Pids : Boot(p) \/ Connects(p) \/ Loses(p) \/ Quits(p) \/ Exits(p) \/ Killed(p)

Spec == Init /\ [][Next]_vars

-----------------------------------------------------------------------------
TypeOK ==
    /\ procs \in [Pids -> [kind : Kinds \union {"none"}, told : BOOLEAN,
                           st : {"new", "boot", "up", "left", "dead"}]]
    /\ pidFile \in [Kinds -> 0 .. MaxProcs] /\ args \in [Kinds -> BOOLEAN]
    /\ status \in States \union {"none"} /\ token \in {"none", "valid", "expired"}
    /\ port \in 0 .. MaxProcs
    /\ cli \in [op : {"none", "start", "again", "logout", "login"}, pid : 0 .. MaxProcs]

\* Daemons nobody has told to stop, nor found the door themselves.
Running == {p \in Pids : procs[p].st \in {"boot", "up"} /\ ~procs[p].told}

(* There is never a second daemon, and the one that runs is named by a pid file: *)
(* whatever order the commands came in, `wt stop` finds it. A wing and a roost    *)
(* have files of their own, and every command clears others of them.              *)
OneDaemon ==
    /\ Cardinality(Running) <= 1
    /\ \A p \in Running : p \in {pidFile[k] : k \in Kinds}
=============================================================================
