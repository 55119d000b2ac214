----------------------------- MODULE Parts_proofs -----------------------------
(***************************************************************************)
(* What holds of the parts of a wing's machine, for all values of their     *)
(* constants: there is one daemon, a reload of the tools keeps their        *)
(* limits, a sandbox keeps what it should and nothing else, changes of the   *)
(* configuration land, a session's history is whole, and a terminal that     *)
(* moves to a data channel shows its output once and in order.              *)
(***************************************************************************)
EXTENDS Parts, Sequences, SequenceTheorems, FiniteSetTheorems, TLAPS

-----------------------------------------------------------------------------
(* WingCommand *)

\* A daemon is named by wing.pid, or by roost.pid while wing.pid names nobody.
Named ==
    \A p \in Command!Running :
        pidFile["wing"] = p \/ (pidFile["roost"] = p /\ ~Command!Live("wing"))
CommandInv ==
    /\ Command!TypeOK
    /\ \A p, q \in Command!Running : p = q
    /\ Named
    /\ cli.op = "start" => cli.pid # 0 /\ pidFile["wing"] = cli.pid
    /\ cli.op \in {"logout", "login"} => Command!Running = {}

\* `readPid' finds the daemon that runs.
LEMMA Found ==
    ASSUME CommandInv, NEW p \in Command!Running PROVE p = Command!ReadPid /\ p # 0
<1>1. p \in 1..MaxProcs /\ Command!Alive(p)
  BY DEF Command!Running, Command!Alive, Command!Pids
<1>2. pidFile["wing"] = p \/ (pidFile["roost"] = p /\ ~Command!Live("wing"))
  BY DEF CommandInv, Named
<1>3. p # 0
  BY <1>1, PartsAssumption
<1> QED  BY <1>1, <1>2, <1>3 DEF Command!ReadPid, Command!Live

LEMMA Shrinks ==
    ASSUME CommandInv, Command!TypeOK', UNCHANGED <<pidFile, cli>>,
           Command!Running' \subseteq Command!Running,
           \A q \in 0..MaxProcs : Command!Alive(q)' => Command!Alive(q)
    PROVE  CommandInv'
<1>1. pidFile["wing"] \in 0..MaxProcs
  BY DEF CommandInv, Command!TypeOK, Command!Kinds
<1>2. Command!Live("wing")' => Command!Live("wing")
  BY <1>1 DEF Command!Live
<1>3. Named'
  BY <1>2 DEF CommandInv, Named
<1> QED  BY <1>3 DEF CommandInv

LEMMA CommandInit == Command!Init => CommandInv
  BY PartsAssumption DEF Command!Init, CommandInv, Command!TypeOK, Named, Command!Running,
     Command!Pids, Command!Kinds, Command!NoCli, Command!States

\* What a command finds when it begins, and what its signal leaves.
LEMMA Signalled ==
    ASSUME CommandInv, NEW p, p = Command!ReadPid, p # 0, procs' = Command!Told(p)
    PROVE  Command!Running' = {}
<1>1. ASSUME NEW q \in Command!Running' PROVE FALSE
  <2>1. q \in 1..MaxProcs /\ procs'[q].st \in {"boot", "up"} /\ ~procs'[q].told
    BY <1>1 DEF Command!Running, Command!Pids
  <2>2. procs \in [1..MaxProcs -> [kind : Command!Kinds \union {"none"}, told : BOOLEAN,
                           st : {"new", "boot", "up", "left", "dead"}]]
    BY DEF CommandInv, Command!TypeOK, Command!Pids
  <2>3. q \in Command!Running
    BY <2>1, <2>2 DEF Command!Running, Command!Told, Command!Pids
  <2>4. q = p
    BY <2>3, Found
  <2> QED  BY <2>1, <2>2, <2>4 DEF Command!Told
<1> QED  BY <1>1

LEMMA NoneRuns ==
    ASSUME Command!TypeOK', Command!Running' = {}, cli'.op # "start"
    PROVE  CommandInv'
  BY DEF CommandInv, Named

\* A daemon is spawned when none runs.
LEMMA OneRuns ==
    ASSUME CommandInv, NEW ps, NEW k \in Command!Kinds, NEW pidf, NEW argf, NEW next,
           ps \in [Command!Pids -> [kind : Command!Kinds \union {"none"}, told : BOOLEAN,
                           st : {"new", "boot", "up", "left", "dead"}]],
           \A q \in Command!Pids : ps[q].st \notin {"boot", "up"} \/ ps[q].told,
           pidf \in [Command!Kinds -> 0..MaxProcs], argf \in [Command!Kinds -> BOOLEAN],
           k = "roost" => \A q \in 1..MaxProcs : q = pidf["wing"] => ps[q].st \notin {"boot", "up", "left"},
           next \in {"none", "start", "again"}, next = "start" => k = "wing",
           Command!Spawns(k, ps, pidf, argf, next),
           status' \in Command!States \union {"none"}, token' \in {"none", "valid", "expired"},
           port' \in 0..MaxProcs,
           \A q \in Command!Pids : procs[q].st = "new" => ps[q].st = "new"
    PROVE  CommandInv'
<1>1. PICK p \in Command!Free :
        /\ procs' = Command!Spawned(ps, k, p)
        /\ pidFile' = [pidf EXCEPT ![k] = p]
        /\ args' = [argf EXCEPT ![k] = TRUE]
        /\ cli' = IF next = "none" THEN Command!NoCli ELSE [op |-> next, pid |-> p]
  BY DEF Command!Spawns
<1>2. p \in 1..MaxProcs /\ p # 0 /\ p \in 0..MaxProcs /\ procs[p].st = "new" /\ ps[p].st = "new"
  BY <1>1, PartsAssumption DEF Command!Free, Command!Pids
<1>3. Command!TypeOK'
  <2>1. procs' \in [Command!Pids -> [kind : Command!Kinds \union {"none"}, told : BOOLEAN,
                           st : {"new", "boot", "up", "left", "dead"}]]
    BY <1>1 DEF Command!Spawned
  <2>2. cli' \in [op : {"none", "start", "again", "logout", "login"}, pid : 0 .. MaxProcs]
    BY <1>1, <1>2, PartsAssumption DEF Command!NoCli
  <2>3. pidFile' \in [Command!Kinds -> 0 .. MaxProcs] /\ args' \in [Command!Kinds -> BOOLEAN]
    BY <1>1, <1>2
  <2> QED  BY <2>1, <2>2, <2>3 DEF Command!TypeOK
<1>4. Command!Running' \subseteq {p} /\ pidFile'[k] = p
  BY <1>1, <1>2 DEF Command!Running, Command!Spawned, Command!Pids
<1>5. Named'
  <2>1. CASE k = "wing"
    BY <1>4, <2>1 DEF Named
  <2>2. CASE k = "roost"
    <3>1. pidFile'["wing"] = pidf["wing"] /\ pidf["wing"] \in 0..MaxProcs
      BY <1>1, <2>2 DEF Command!Kinds
    <3>2. CASE pidf["wing"] = p
      BY <1>4, <3>1, <3>2 DEF Named
    <3>3. CASE pidf["wing"] # p
      <4>1. ASSUME pidf["wing"] # 0 PROVE procs'[pidf["wing"]].st \notin {"boot", "up", "left"}
        BY <1>1, <2>2, <3>1, <3>3, <4>1, PartsAssumption DEF Command!Spawned, Command!Pids
      <4>2. ~Command!Alive(pidFile["wing"])'
        BY <3>1, <4>1 DEF Command!Alive
      <4> QED  BY <1>4, <2>2, <4>2 DEF Named, Command!Live
    <3> QED  BY <3>2, <3>3
  <2> QED  BY <2>1, <2>2 DEF Command!Kinds
<1>6. cli'.op \in {"none", "start", "again"} /\ (cli'.op = "start" => cli'.pid = p /\ k = "wing")
  BY <1>1 DEF Command!NoCli
<1> QED  BY <1>2, <1>3, <1>4, <1>5, <1>6 DEF CommandInv

(* The commands *)

LEMMA ReadPidIs ==
    ASSUME CommandInv
    PROVE  /\ Command!ReadPid \in 0..MaxProcs
           /\ Command!ReadPid # 0 => Command!Alive(Command!ReadPid)
           /\ Command!ReadPid = 0 => ~Command!Live("wing") /\ ~Command!Live("roost")
           /\ Command!ReadPid = 0 => Command!Running = {}
           /\ Command!Tidied \in [Command!Kinds -> 0..MaxProcs]
<1>1. pidFile \in [Command!Kinds -> 0..MaxProcs] /\ 0 \in 0..MaxProcs
  BY PartsAssumption DEF CommandInv, Command!TypeOK
<1>2. \A k \in Command!Kinds : Command!Live(k) => pidFile[k] # 0
  BY DEF Command!Live, Command!Alive
<1>3. Command!ReadPid = 0 => Command!Running = {}
  BY Found
<1>4. Command!Tidied \in [Command!Kinds -> 0..MaxProcs]
  BY <1>1 DEF Command!Tidied, Command!Tidy
<1> QED  BY <1>1, <1>2, <1>3, <1>4 DEF Command!ReadPid, Command!Kinds, Command!Live

LEMMA ToldIs ==
    ASSUME CommandInv, NEW p
    PROVE  Command!Told(p) \in [Command!Pids -> [kind : Command!Kinds \union {"none"}, told : BOOLEAN,
                           st : {"new", "boot", "up", "left", "dead"}]]
  BY ZenonT(40) DEF CommandInv, Command!TypeOK, Command!Told

\* What the variables are.
LEMMA CommandKnown ==
    ASSUME CommandInv
    PROVE  /\ procs \in [Command!Pids -> [kind : Command!Kinds \union {"none"}, told : BOOLEAN,
                           st : {"new", "boot", "up", "left", "dead"}]]
           /\ pidFile \in [Command!Kinds -> 0..MaxProcs] /\ args \in [Command!Kinds -> BOOLEAN]
           /\ status \in Command!States \union {"none"} /\ token \in {"none", "valid", "expired"}
           /\ port \in 0..MaxProcs /\ 0 \in 0..MaxProcs
           /\ cli \in [op : {"none", "start", "again", "logout", "login"}, pid : 0 .. MaxProcs]
           /\ \A p : procs' = Command!Told(p) =>
                procs' \in [Command!Pids -> [kind : Command!Kinds \union {"none"}, told : BOOLEAN,
                           st : {"new", "boot", "up", "left", "dead"}]]
           /\ \A q \in Command!Pids : q \notin Command!Running =>
                procs[q].st \notin {"boot", "up"} \/ procs[q].told
<1> QED  BY ToldIs, PartsAssumption DEF CommandInv, Command!TypeOK, Command!Running

LEMMA WingStartInv == ASSUME CommandInv, Command!WingStart PROVE CommandInv'
<1>1. Command!ReadPid = 0 /\ Command!Spawns("wing", procs, Command!Tidied, args, "start")
  BY DEF Command!WingStart, Command!StartWing
<1>2. status' = "none" /\ token' = token /\ port' = port
  BY DEF Command!WingStart, Command!StartWing
<1> QED  BY <1>1, <1>2, OneRuns, ReadPidIs, CommandKnown DEF Command!Kinds

LEMMA RoostStartInv == ASSUME CommandInv, Command!RoostStart PROVE CommandInv'
<1>1. /\ ~Command!Live("roost") /\ ~Command!Live("wing")
      /\ Command!Spawns("roost", procs, [k \in Command!Kinds |-> Command!Tidy(k)], args, "none")
      /\ status' = status /\ token' = token /\ port' = port
  BY DEF Command!RoostStart
<1>2. Command!ReadPid = 0
  BY <1>1 DEF Command!ReadPid
<1>3. [k \in Command!Kinds |-> Command!Tidy(k)] = [k \in Command!Kinds |-> 0]
  BY <1>1 DEF Command!Tidy, Command!Kinds
<1> QED  BY <1>1, <1>2, <1>3, OneRuns, ReadPidIs, CommandKnown, PartsAssumption DEF Command!Kinds

LEMMA StartEndsInv == ASSUME CommandInv, Command!StartEnds PROVE CommandInv'
<1>0. cli' = Command!NoCli /\ token' = token /\ port' = port
  BY DEF Command!StartEnds
<1>1. CASE UNCHANGED <<procs, pidFile, args, status>>
  <2>1. Command!TypeOK' /\ Command!Running' = Command!Running /\ Named'
    BY <1>0, <1>1, CommandKnown DEF CommandInv, Command!TypeOK, Command!NoCli, Command!Running, Named, Command!Live, Command!Alive
  <2> QED  BY <1>0, <2>1 DEF CommandInv, Command!NoCli
<1>2. CASE /\ cli.op = "start" /\ procs' = Command!Told(cli.pid) /\ status' = "none"
           /\ pidFile' = Command!Drop(pidFile, {"wing"}, 0) /\ args' = Command!Drop(args, {"wing"}, FALSE)
  <2>1. Command!TypeOK'
    BY <1>0, <1>2, CommandKnown DEF Command!TypeOK, Command!NoCli, Command!Drop
  <2>2. \A p \in Command!Running' : p \in Command!Running /\ p # cli.pid
    <3>1. cli.pid \in Command!Pids
      BY <1>2, CommandKnown, PartsAssumption DEF CommandInv, Command!Pids
    <3> QED  BY <1>2, <3>1, CommandKnown DEF Command!Running, Command!Told
  <2>3. pidFile'["wing"] = 0 /\ pidFile'["roost"] = pidFile["roost"] /\ pidFile["wing"] = cli.pid
    BY <1>2, CommandKnown DEF Command!Drop, Command!Kinds, CommandInv
  <2>4. Named'
    BY <2>2, <2>3 DEF CommandInv, Named, Command!Live, Command!Alive
  <2> QED  BY <1>0, <2>1, <2>2, <2>4 DEF CommandInv, Command!NoCli
<1> QED  BY <1>1, <1>2 DEF Command!StartEnds, Command!files

LEMMA StopsInv ==
    ASSUME CommandInv, NEW ks \in SUBSET Command!Kinds, Command!Stops(ks), cli' = cli, cli.op = "none",
           status' \in {status, "none"}, token' = token, port' = port
    PROVE  CommandInv'
<1>1. Command!Running' = {}
  BY Signalled DEF Command!Stops
<1>2. Command!TypeOK'
  BY ReadPidIs, CommandKnown DEF Command!Stops, Command!TypeOK, Command!Drop
<1> QED  BY <1>1, <1>2, NoneRuns

LEMMA StopInv == ASSUME CommandInv, Command!Stop \/ Command!WingStop PROVE CommandInv'
  BY StopsInv DEF Command!Stop, Command!WingStop, Command!Begins, Command!NoCli, Command!Kinds

LEMMA RoostStopInv == ASSUME CommandInv, Command!RoostStop PROVE CommandInv'
<1>1. /\ Command!Live("roost") /\ procs' = Command!Told(pidFile["roost"])
      /\ pidFile' = Command!Drop(pidFile, {"roost"}, 0) /\ args' = Command!Drop(args, {"roost"}, FALSE)
      /\ UNCHANGED <<status, token, port, cli>> /\ cli.op = "none"
  BY DEF Command!RoostStop, Command!Begins, Command!NoCli
<1>2. Command!TypeOK'
  BY <1>1, CommandKnown DEF Command!TypeOK, Command!Drop
<1>3. pidFile["roost"] \in Command!Pids /\ pidFile'["wing"] = pidFile["wing"]
  BY <1>1, CommandKnown, PartsAssumption DEF Command!Live, Command!Alive, Command!Pids, Command!Drop, Command!Kinds
<1>4. \A p \in Command!Running' : p \in Command!Running /\ p # pidFile["roost"]
  BY <1>1, <1>3, CommandKnown DEF Command!Running, Command!Told
<1>5. Named'
  BY <1>3, <1>4 DEF CommandInv, Named
<1> QED  BY <1>1, <1>2, <1>4, <1>5 DEF CommandInv

\* A command that finds no daemon, or only looks, clears stale pid files.
LEMMA TidiesInv ==
    ASSUME CommandInv, cli.op = "none", UNCHANGED <<procs, args, status, port, cli>>,
           token' \in {"none", "valid", "expired"},
           pidFile' = Command!Tidied \/ pidFile' = [pidFile EXCEPT !["roost"] = Command!Tidy("roost")]
    PROVE  CommandInv'
<1>1. Command!TypeOK'
  <2>1. pidFile' \in [Command!Kinds -> 0..MaxProcs]
    BY ReadPidIs, CommandKnown DEF Command!Tidy
  <2> QED  BY <2>1, CommandKnown DEF Command!TypeOK
<1>2. /\ pidFile'["wing"] = pidFile["wing"] \/ (~Command!Live("wing") /\ pidFile'["wing"] = 0)
      /\ pidFile'["roost"] = pidFile["roost"] \/ ~Command!Live("roost")
  BY CommandKnown DEF Command!Tidied, Command!Tidy, Command!Kinds
<1>3. Command!Running' = Command!Running /\ \A p \in Command!Running : Command!Alive(p)
  BY PartsAssumption DEF Command!Running, Command!Alive, Command!Pids
<1>4. Command!Live("wing")' => Command!Live("wing")
  BY <1>2 DEF Command!Live, Command!Alive
<1>5. Named'
  BY <1>2, <1>3, <1>4 DEF CommandInv, Named, Command!Live
<1> QED  BY <1>1, <1>3, <1>5 DEF CommandInv

LEMMA StatusInv == ASSUME CommandInv, Command!WingStatus \/ Command!RoostStatus PROVE CommandInv'
  BY TidiesInv, CommandKnown DEF Command!WingStatus, Command!RoostStatus, Command!NoCli

LEMMA HaltsInv ==
    ASSUME CommandInv, NEW op \in {"logout", "login"}, Command!Halts(op), token' \in {"none", "valid", "expired"}
    PROVE  CommandInv'
<1>1. Command!Running' = {}
  BY Signalled DEF Command!Halts
<1>2. Command!TypeOK'
  <2>1. cli' \in [op : {"none", "start", "again", "logout", "login"}, pid : 0 .. MaxProcs] /\ cli'.op = op
    BY ReadPidIs DEF Command!Halts
  <2> QED  BY <2>1, ReadPidIs, CommandKnown DEF Command!Halts, Command!TypeOK
<1>3. cli'.op # "start"
  BY DEF Command!Halts
<1> QED  BY <1>1, <1>2, <1>3, NoneRuns

LEMMA LogoutInv == ASSUME CommandInv, Command!Logout PROVE CommandInv'
<1>1. cli.op = "none"
  BY DEF Command!Logout, Command!Begins, Command!NoCli
<1>2. CASE Command!ReadPid # 0
  BY <1>2, HaltsInv, CommandKnown DEF Command!Logout
<1>3. CASE Command!ReadPid = 0
  BY <1>1, <1>3, TidiesInv DEF Command!Logout
<1> QED  BY <1>2, <1>3

LEMMA LogoutEndsInv == ASSUME CommandInv, Command!LogoutEnds PROVE CommandInv'
<1>1. Command!Running' = {} /\ cli' = Command!NoCli
  BY DEF Command!LogoutEnds, CommandInv, Command!Running
<1>2. Command!TypeOK'
  BY <1>1, CommandKnown DEF Command!LogoutEnds, Command!TypeOK, Command!NoCli, Command!Drop
<1> QED  BY <1>1, <1>2, NoneRuns DEF Command!NoCli

LEMMA LoginInv == ASSUME CommandInv, Command!Login PROVE CommandInv'
<1>1. cli.op = "none" /\ token' = "valid"
  BY DEF Command!Login, Command!Begins, Command!NoCli
<1>2. CASE Command!ReadPid # 0 /\ args["wing"]
  BY <1>1, <1>2, HaltsInv DEF Command!Login
<1>3. CASE ~(Command!ReadPid # 0 /\ args["wing"])
  BY <1>1, <1>3, TidiesInv DEF Command!Login
<1> QED  BY <1>2, <1>3

LEMMA LoginEndsInv == ASSUME CommandInv, Command!LoginEnds PROVE CommandInv'
<1>1. /\ Command!Running = {} /\ status' = "none" /\ UNCHANGED <<token, port>>
      /\ Command!Spawns("wing", procs, pidFile, args, "again")
  BY DEF Command!LoginEnds, CommandInv
<1> QED  BY <1>1, OneRuns, CommandKnown DEF Command!Kinds

LEMMA UpdateInv == ASSUME CommandInv, Command!Update PROVE CommandInv'
<1>1. PICK k \in Command!Kinds :
        /\ Command!Live(k) /\ (k = "roost" => ~Command!Live("wing"))
        /\ LET pidf == [q \in Command!Kinds |-> IF q = k THEN 0 ELSE Command!Tidy(q)]
               ps == Command!Told(pidFile[k]) IN
           IF k = "roost" THEN Command!Spawns("roost", ps, pidf, args, "none") /\ UNCHANGED status
           ELSE IF pidf["roost"] = 0 /\ token = "valid" THEN Command!StartWing(ps, pidf, args)
           ELSE procs' = ps /\ pidFile' = pidf /\ UNCHANGED <<args, cli, status>>
  BY DEF Command!Update
<1> DEFINE pidf == [q \in Command!Kinds |-> IF q = k THEN 0 ELSE Command!Tidy(q)]
           ps == Command!Told(pidFile[k])
<1>2. /\ cli.op = "none" /\ UNCHANGED <<token, port>>
      /\ pidFile[k] = Command!ReadPid /\ Command!ReadPid \in Command!Pids
  <2>1. pidFile[k] = Command!ReadPid /\ pidFile[k] # 0
    BY <1>1 DEF Command!ReadPid, Command!Live, Command!Alive, Command!Kinds
  <2> QED  BY <2>1, ReadPidIs, PartsAssumption DEF Command!Update, Command!Begins, Command!NoCli, Command!Pids
<1>3. ps \in [Command!Pids -> [kind : Command!Kinds \union {"none"}, told : BOOLEAN,
                           st : {"new", "boot", "up", "left", "dead"}]]
  BY ToldIs
<1>4. \A q \in Command!Pids : ps[q].st \notin {"boot", "up"} \/ ps[q].told
  <2>1. ASSUME NEW q \in Command!Pids, q # Command!ReadPid
        PROVE  procs[q].st \notin {"boot", "up"} \/ procs[q].told
    BY <2>1, Found, CommandKnown
  <2> QED  BY <1>2, <2>1, CommandKnown DEF Command!Told
<1>5. pidf \in [Command!Kinds -> 0..MaxProcs]
  BY CommandKnown, PartsAssumption DEF Command!Tidy
<1>6. \A q \in Command!Pids : procs[q].st = "new" => ps[q].st = "new"
  BY CommandKnown DEF Command!Told
<1>7. CASE k = "roost"
  <2>1. pidf["wing"] = 0
    BY <1>1, <1>7 DEF Command!Tidy, Command!Kinds
  <2>2. Command!Spawns("roost", ps, pidf, args, "none") /\ UNCHANGED status
    BY <1>1, <1>7
  <2>3. \A q \in 1..MaxProcs : q # pidf["wing"]
    BY <2>1, PartsAssumption
  <2> HIDE DEF pidf, ps
  <2> QED  BY <1>2, <1>3, <1>4, <1>5, <1>6, <1>7, <2>2, <2>3, OneRuns, CommandKnown
<1>8. CASE k = "wing" /\ pidf["roost"] = 0 /\ token = "valid"
  <2>1. Command!Spawns("wing", ps, pidf, args, "start") /\ status' = "none"
    BY <1>1, <1>8 DEF Command!StartWing
  <2> HIDE DEF pidf, ps
  <2> QED  BY <1>2, <1>3, <1>4, <1>5, <1>6, <1>8, <2>1, OneRuns, CommandKnown
<1>9. CASE procs' = ps /\ pidFile' = pidf /\ UNCHANGED <<args, cli, status>>
  <2>1. Command!Running' = {}
    BY <1>4, <1>9 DEF Command!Running
  <2>2. Command!TypeOK'
    BY <1>2, <1>3, <1>5, <1>9, CommandKnown DEF Command!TypeOK
  <2> QED  BY <1>2, <1>9, <2>1, <2>2, NoneRuns
<1> QED  BY <1>1, <1>7, <1>8, <1>9 DEF Command!Kinds

(* The daemons *)

LEMMA SetIs ==
    ASSUME CommandInv, NEW p \in Command!Pids, NEW s \in {"up", "left", "dead"}, Command!Set(p, s),
           procs[p].st \in {"boot", "up", "left"},
           s = "up" => procs[p].st = "boot"
    PROVE  /\ procs' \in [Command!Pids -> [kind : Command!Kinds \union {"none"}, told : BOOLEAN,
                           st : {"new", "boot", "up", "left", "dead"}]]
           /\ Command!Running' \subseteq Command!Running
           /\ \A q \in 0..MaxProcs : Command!Alive(q)' => Command!Alive(q)
<1>1. /\ procs' \in [Command!Pids -> [kind : Command!Kinds \union {"none"}, told : BOOLEAN,
                           st : {"new", "boot", "up", "left", "dead"}]]
      /\ procs'[p] = [procs[p] EXCEPT !.st = s] /\ \A q \in Command!Pids \ {p} : procs'[q] = procs[q]
  BY CommandKnown DEF Command!Set
<1>2. Command!Running' \subseteq Command!Running
  BY <1>1, CommandKnown DEF Command!Running
<1>3. \A q \in 0..MaxProcs : q # 0 => q \in Command!Pids
  BY PartsAssumption DEF Command!Pids
<1>4. \A q \in 0..MaxProcs : Command!Alive(q)' => Command!Alive(q)
  BY <1>1, <1>3, CommandKnown DEF Command!Alive
<1> QED  BY <1>1, <1>2, <1>4

LEMMA DaemonInv ==
    ASSUME CommandInv, NEW p \in Command!Pids,
           Command!Boot(p) \/ Command!Connects(p) \/ Command!Loses(p)
             \/ Command!Quits(p) \/ Command!Exits(p) \/ Command!Killed(p)
    PROVE  CommandInv'
<1>1. UNCHANGED procs \/ \E s \in {"up", "left", "dead"} : Command!Set(p, s)
        /\ procs[p].st \in {"boot", "up", "left"} /\ (s = "up" => procs[p].st = "boot")
  BY DEF Command!Boot, Command!Connects, Command!Loses, Command!Quits, Command!Exits,
     Command!Killed, Command!Alive
<1>2. /\ status' \in Command!States \union {"none"} /\ token' \in {"none", "valid", "expired"}
      /\ port' \in 0..MaxProcs
  <2>1. p \in 0..MaxProcs
    BY PartsAssumption DEF Command!Pids
  <2> QED
    BY <2>1, CommandKnown DEF Command!Boot, Command!Connects, Command!Loses, Command!Quits,
       Command!Exits, Command!Killed, Command!States
<1>3. UNCHANGED <<pidFile, args, cli>>
  BY DEF Command!Boot, Command!Connects, Command!Loses, Command!Quits, Command!Exits,
     Command!Killed, Command!files
<1>4. /\ procs' \in [Command!Pids -> [kind : Command!Kinds \union {"none"}, told : BOOLEAN,
                           st : {"new", "boot", "up", "left", "dead"}]]
      /\ Command!Running' \subseteq Command!Running
      /\ \A q \in 0..MaxProcs : Command!Alive(q)' => Command!Alive(q)
  <2>1. CASE UNCHANGED procs
    BY <2>1, CommandKnown DEF Command!Running, Command!Alive
  <2> QED  BY <1>1, <2>1, SetIs
<1>5. Command!TypeOK'
  BY <1>2, <1>3, <1>4, CommandKnown DEF Command!TypeOK
<1> QED  BY <1>3, <1>4, <1>5, Shrinks

LEMMA CommandStep == CommandInv /\ [Command!Next]_commandVars => CommandInv'
<1> SUFFICES ASSUME CommandInv, [Command!Next]_commandVars PROVE CommandInv'
  OBVIOUS
<1>1. CASE UNCHANGED commandVars
  BY <1>1 DEF commandVars, CommandInv, Named, Command!TypeOK, Command!Running, Command!Live, Command!Alive
<1>2. CASE Command!TokenExpires
  <2>1. token' = "expired" /\ UNCHANGED <<procs, pidFile, args, status, port, cli>>
    BY <1>2 DEF Command!TokenExpires, Command!files
  <2> QED  BY <2>1 DEF CommandInv, Named, Command!TypeOK, Command!Running, Command!Live, Command!Alive
<1>3. ASSUME NEW p \in Command!Pids,
             Command!Boot(p) \/ Command!Connects(p) \/ Command!Loses(p)
             \/ Command!Quits(p) \/ Command!Exits(p) \/ Command!Killed(p)
      PROVE  CommandInv'
  BY <1>3, DaemonInv
<1> QED
  BY <1>1, <1>2, <1>3, WingStartInv, RoostStartInv, StartEndsInv, StopInv, RoostStopInv, StatusInv,
     LogoutInv, LogoutEndsInv, LoginInv, LoginEndsInv, UpdateInv DEF Command!Next

LEMMA CommandSays == CommandInv => Command!TypeOK /\ Command!OneDaemon
<1> SUFFICES ASSUME CommandInv PROVE Command!TypeOK /\ Command!OneDaemon
  OBVIOUS
<1>1. Cardinality(Command!Running) <= 1
  <2>1. CASE Command!Running = {}
    BY <2>1, FS_EmptySet
  <2>2. ASSUME NEW p \in Command!Running PROVE Cardinality(Command!Running) = 1
    <3>1. Command!Running = {p}
      BY DEF CommandInv
    <3> QED  BY <3>1, FS_Singleton
  <2> QED  BY <2>1, <2>2
<1>2. \A p \in Command!Running : p \in {pidFile[k] : k \in Command!Kinds}
  BY DEF CommandInv, Named, Command!Kinds
<1>3. Command!OneDaemon
  BY <1>1, <1>2 DEF Command!OneDaemon, Command!Cardinality, Cardinality
<1> QED  BY <1>3 DEF CommandInv

-----------------------------------------------------------------------------
(* ToolListener *)

ToolTypes ==
    /\ tools \in Tool!Configs /\ tools \in [Tools -> Int]
    /\ sema \in [Tools -> Nat] /\ reloads \in Nat
    /\ since \in [Tools -> SUBSET Calls]
    /\ calls \in [Calls -> [st : {"new", "read", "found", "runs", "done"},
                            tool : Tools \union {"none"}, s : Nat, cap : Nat,
                            reply : {"none", "unknown", "limit", "exit", "timeout"}]]

\* Whoever goes on has a tool.
HaveTools == \A c \in Calls : calls[c].st \in {"read", "found", "runs"} => calls[c].tool \in Tools

\* A tool has a semaphore exactly if it has a limit.
LimitIsSema == \A t \in Tools : tools[t] > 0 <=> sema[t] # 0

\* The calls that found the limit a tool has hold the semaphore it has.
SinceHolds ==
    \A t \in Tools : \A c \in since[t] :
        /\ calls[c].st \in {"found", "runs"}
        /\ calls[c].tool = t /\ calls[c].s = sema[t] /\ calls[c].cap = tools[t]

Running(t) == {c \in since[t] : calls[c].st = "runs"}
ToolInv == ToolTypes /\ HaveTools /\ LimitIsSema /\ SinceHolds /\ Tool!ToolLimit

\* The number of elements, there and here.
LEMMA ToolCount == \A S : Tool!Cardinality(S) = Cardinality(S)
  BY DEF Tool!Cardinality, Cardinality

\* Any set of calls has a number of calls.
LEMMA Countable ==
    ASSUME NEW S \in SUBSET Calls PROVE IsFiniteSet(S) /\ Cardinality(S) \in Nat
  BY PartsAssumption, FS_Subset, FS_CardinalityType

\* A number of calls that are some of others' is no larger.
LEMMA Fewer ==
    ASSUME NEW S \in SUBSET Calls, NEW T \in SUBSET S, NEW n \in Int,
           Cardinality(S) <= n
    PROVE  Cardinality(T) <= n
<1>1. Cardinality(T) <= Cardinality(S) /\ Cardinality(T) \in Nat /\ Cardinality(S) \in Nat
  BY Countable, FS_Subset
<1> QED  BY <1>1

LEMMA ConfigsAreInts ==  Tool!Configs \subseteq [Tools -> Int]
<1>1. Caps \union {Tool!Absent} \subseteq Int
  BY PartsAssumption DEF Tool!Absent
<1> QED  BY <1>1 DEF Tool!Configs

LEMMA ToolInit == ASSUME Tool!Init PROVE ToolInv
<1>1. ToolTypes
  <2>1. tools \in Tool!Configs /\ tools \in [Tools -> Int]
    BY ConfigsAreInts DEF Tool!Init
  <2>2. calls \in [Calls -> [st : {"new", "read", "found", "runs", "done"},
                            tool : Tools \union {"none"}, s : Nat, cap : Nat,
                            reply : {"none", "unknown", "limit", "exit", "timeout"}]]
    BY DEF Tool!Init, Tool!NoCall
  <2> QED  BY <2>1, <2>2 DEF Tool!Init, ToolTypes
<1>2. HaveTools /\ LimitIsSema /\ SinceHolds
  <2>1. \A t \in Tools : tools[t] > 0 <=> sema[t] # 0
    BY DEF Tool!Init
  <2> QED  BY <2>1 DEF Tool!Init, HaveTools, LimitIsSema, SinceHolds, Tool!NoCall
<1>3. Tool!ToolLimit
  <2> SUFFICES ASSUME NEW t \in Tools, tools[t] > 0 PROVE Cardinality(Running(t)) <= tools[t]
    BY ToolCount DEF Tool!ToolLimit, Running
  <2>1. Cardinality(Running(t)) = 0
    BY FS_EmptySet DEF Tool!Init, Running
  <2>2. tools[t] \in Int
    BY <1>1 DEF ToolTypes
  <2> QED  BY <2>1, <2>2
<1> QED  BY <1>1, <1>2, <1>3 DEF ToolInv

\* A step that leaves the limits alone and starts no call keeps to them.
LEMMA NoneStarts ==
    ASSUME ToolInv, UNCHANGED tools, \A t \in Tools : Running(t)' \subseteq Running(t)
    PROVE  Tool!ToolLimit'
<1> SUFFICES ASSUME NEW t \in Tools, tools[t] > 0
             PROVE  Cardinality(Running(t)') <= tools[t]
  BY ToolCount DEF Tool!ToolLimit, Running
<1>1. Running(t) \in SUBSET Calls
  BY DEF Running, ToolInv, ToolTypes
<1>2. Cardinality(Running(t)) <= tools[t]
  BY ToolCount DEF ToolInv, Tool!ToolLimit, Running
<1>3. tools[t] \in Int
  BY DEF ToolInv, ToolTypes
<1> QED  BY <1>1, <1>2, <1>3, Fewer

(* One lemma per action *)

LEMMA AcceptInv == ASSUME ToolInv, NEW c \in Calls, Tool!Accept(c) PROVE ToolInv'
<1> USE DEF ToolInv
<1>1. PICK t \in Tools : calls' = [calls EXCEPT ![c].st = "read", ![c].tool = t]
  BY DEF Tool!Accept
<1>2. calls[c].st = "new" /\ UNCHANGED <<tools, sema, reloads, since>>
  BY DEF Tool!Accept
<1>3. ToolTypes'
  BY ZenonT(40), <1>1, <1>2 DEF ToolTypes
<1>4. HaveTools' /\ LimitIsSema'
  BY <1>1, <1>2 DEF ToolTypes, HaveTools, LimitIsSema
<1>5. \A u \in Tools : c \notin since[u]
  BY <1>2 DEF SinceHolds
<1>6. \A d \in Calls \ {c} : calls'[d] = calls[d]
  BY <1>1 DEF ToolTypes
<1>7. SinceHolds'
  BY <1>2, <1>5, <1>6 DEF SinceHolds, ToolTypes
<1>8. \A u \in Tools : Running(u)' \subseteq Running(u)
  BY <1>2, <1>5, <1>6 DEF Running, ToolTypes
<1> QED  BY <1>2, <1>3, <1>4, <1>7, <1>8, NoneStarts

\* A call that is answered counts no longer.
LEMMA AnswerInv ==
    ASSUME ToolInv, NEW c \in Calls, NEW t \in Tools,
           NEW reply \in {"unknown", "limit", "exit", "timeout"},
           calls' = Tool!Answered(c, reply), UNCHANGED <<tools, sema, reloads>>,
           since' = [since EXCEPT ![t] = @ \ {c}], calls[c].tool = t
    PROVE  ToolInv'
<1> USE DEF ToolInv
<1>1. calls' = [calls EXCEPT ![c] = [st |-> "done", tool |-> "none", s |-> 0, cap |-> 0,
                                     reply |-> reply]]
  <2> DEFINE done == [Tool!NoCall EXCEPT !.st = "done"]
  <2>1. done = [st |-> "done", tool |-> "none", s |-> 0, cap |-> 0, reply |-> "none"]
    BY ONLY DEF Tool!NoCall
  <2> HIDE DEF done
  <2>2. [done EXCEPT !.reply = reply]
          = [st |-> "done", tool |-> "none", s |-> 0, cap |-> 0, reply |-> reply]
    BY ONLY <2>1
  <2>3. [Tool!NoCall EXCEPT !.st = "done", !.reply = reply] = [done EXCEPT !.reply = reply]
    BY DEF done
  <2> QED  BY <2>2, <2>3 DEF Tool!Answered
<1>2. ToolTypes'
  BY <1>1 DEF ToolTypes
<1>3. HaveTools' /\ LimitIsSema'
  BY <1>1 DEF ToolTypes, HaveTools, LimitIsSema
<1>4. \A u \in Tools : c \notin since'[u] /\ since'[u] \subseteq since[u]
  BY DEF SinceHolds, ToolTypes
<1>5. \A d \in Calls \ {c} : calls'[d] = calls[d]
  BY <1>1 DEF ToolTypes
<1>6. SinceHolds'
  BY <1>4, <1>5 DEF SinceHolds, ToolTypes
<1>7. \A u \in Tools : Running(u)' \subseteq Running(u)
  BY <1>4, <1>5 DEF Running, ToolTypes
<1> QED  BY <1>2, <1>3, <1>6, <1>7, NoneStarts

LEMMA LooksUpInv == ASSUME ToolInv, NEW c \in Calls, Tool!LooksUp(c) PROVE ToolInv'
<1> USE DEF ToolInv
<1> DEFINE t == calls[c].tool
<1>1. calls[c].st = "read" /\ UNCHANGED <<tools, sema, listener, reloads>> /\ t \in Tools
  BY DEF Tool!LooksUp, HaveTools
<1>2. \A u \in Tools : c \notin since[u]
  BY <1>1 DEF SinceHolds
<1>3. CASE tools[t] = Tool!Absent
  <2>1. calls' = Tool!Answered(c, "unknown") /\ since' = since
    BY <1>3 DEF Tool!LooksUp
  <2>2. since' = [since EXCEPT ![t] = @ \ {c}]
    BY <1>1, <1>2, <2>1 DEF ToolTypes
  <2> QED  BY <1>1, <2>1, <2>2, AnswerInv
<1>4. CASE tools[t] # Tool!Absent
  <2>1. /\ calls' = [calls EXCEPT ![c].st = "found", ![c].s = sema[t], ![c].cap = tools[t]]
        /\ since' = [since EXCEPT ![t] = @ \union {c}]
    BY <1>4 DEF Tool!LooksUp
  <2>2. tools[t] \in Nat /\ sema[t] \in Nat
    BY <1>1, <1>4, PartsAssumption DEF ToolTypes, Tool!Configs
  <2> DEFINE Call == [st : {"new", "read", "found", "runs", "done"},
                      tool : Tools \union {"none"}, s : Nat, cap : Nat,
                      reply : {"none", "unknown", "limit", "exit", "timeout"}]
             found == [calls[c] EXCEPT !.st = "found"]
             holds == [found EXCEPT !.s = sema[t]]
             knows == [holds EXCEPT !.cap = tools[t]]
  <2>3. calls \in [Calls -> Call] /\ calls' = [calls EXCEPT ![c] = knows]
    BY <2>1 DEF ToolTypes
  <2>4. ToolTypes'
    <3>1. found \in Call
      BY <2>3
    <3>2. holds \in Call
      BY <2>2, <3>1
    <3>3. knows \in Call
      BY <2>2, <3>2
    <3> HIDE DEF knows, Call
    <3>4. calls' \in [Calls -> Call]
      BY <2>3, <3>3
    <3> USE DEF Call
    <3>5. since' \in [Tools -> SUBSET Calls]
      BY <2>1 DEF ToolTypes
    <3> QED  BY <1>1, <3>4, <3>5 DEF ToolTypes
  <2>5. HaveTools' /\ LimitIsSema'
    BY <1>1, <2>1 DEF ToolTypes, HaveTools, LimitIsSema
  <2>6. \A d \in Calls \ {c} : calls'[d] = calls[d]
    BY <2>1 DEF ToolTypes
  <2>7. /\ calls'[c].st = "found" /\ calls'[c].tool = t
        /\ calls'[c].s = sema[t] /\ calls'[c].cap = tools[t]
    <3>1. found.st = "found" /\ found.tool = t /\ DOMAIN found = {"st", "tool", "s", "cap", "reply"}
      BY <2>3
    <3> HIDE DEF found
    <3>2. holds.st = "found" /\ holds.tool = t /\ holds.s = sema[t]
          /\ DOMAIN holds = {"st", "tool", "s", "cap", "reply"}
      BY <3>1
    <3> HIDE DEF holds
    <3>3. knows.st = "found" /\ knows.tool = t /\ knows.s = sema[t] /\ knows.cap = tools[t]
      BY <3>2
    <3> HIDE DEF knows
    <3> QED  BY <2>3, <3>3
  <2>8. \A u \in Tools : \A d \in since'[u] : d \in since[u] \/ (d = c /\ u = t)
    BY <2>1 DEF ToolTypes
  <2>9. SinceHolds'
    BY <1>1, <1>2, <2>6, <2>7, <2>8 DEF SinceHolds, ToolTypes
  <2>10. \A u \in Tools : Running(u)' \subseteq Running(u)
    BY <1>2, <2>6, <2>7, <2>8 DEF Running, ToolTypes
  <2> QED  BY <1>1, <2>4, <2>5, <2>9, <2>10, NoneStarts
<1> QED  BY <1>3, <1>4

\* The semaphore a call looked up bounds those who hold it, whoever found it
\* since the limit is what it is among them.
LEMMA AdmitsInv == ASSUME ToolInv, NEW c \in Calls, Tool!Admits(c) PROVE ToolInv'
<1> USE DEF ToolInv
<1> DEFINE t == calls[c].tool
           full == calls[c].s # 0 /\ Cardinality(Tool!Holders(t, calls[c].s)) >= calls[c].cap
<1>1. calls[c].st = "found" /\ UNCHANGED <<tools, sema, listener, reloads>> /\ t \in Tools
  BY ToolCount DEF Tool!Admits, Tool!Full, HaveTools
<1>2. CASE full
  BY <1>1, <1>2, AnswerInv, ToolCount DEF Tool!Admits, Tool!Full
<1>3. CASE ~full
  <2>1. calls' = [calls EXCEPT ![c].st = "runs"] /\ since' = since
    BY <1>3, ToolCount DEF Tool!Admits, Tool!Full
  <2>2. ToolTypes'
    BY <1>1, <2>1 DEF ToolTypes
  <2>3. HaveTools' /\ LimitIsSema'
    BY <1>1, <2>1 DEF ToolTypes, HaveTools, LimitIsSema
  <2>4. \A d \in Calls \ {c} : calls'[d] = calls[d]
    BY <2>1 DEF ToolTypes
  <2>5. /\ calls'[c].st = "runs" /\ calls'[c].tool = t
        /\ calls'[c].s = calls[c].s /\ calls'[c].cap = calls[c].cap
    BY <2>1 DEF ToolTypes
  <2>6. SinceHolds'
    BY <1>1, <2>1, <2>4, <2>5 DEF SinceHolds, ToolTypes
  <2>7. ASSUME NEW u \in Tools, tools[u] > 0 PROVE Cardinality(Running(u)') <= tools[u]
    <3>1. tools[u] \in Int /\ Running(u) \in SUBSET Calls /\ Cardinality(Running(u)) <= tools[u]
      BY <2>7, ToolCount DEF ToolTypes, Tool!ToolLimit, Running
    <3>2. CASE c \notin since[u]
      <4>1. Running(u)' = Running(u)
        BY <2>1, <2>4, <3>2 DEF Running, ToolTypes
      <4> QED  BY <3>1, <4>1
    <3>3. CASE c \in since[u]
      <4>1. u = t /\ calls[c].s = sema[u] /\ calls[c].cap = tools[u]
        BY <3>3 DEF SinceHolds
      <4>2. sema[u] # 0
        BY <2>7 DEF LimitIsSema
      <4>3. ~ (Cardinality(Tool!Holders(u, sema[u])) >= tools[u])
        BY <1>3, <4>1, <4>2
      <4>4. Tool!Holders(u, sema[u]) \in SUBSET Calls /\ c \notin Tool!Holders(u, sema[u])
        BY <1>1 DEF Tool!Holders
      <4>5. Running(u)' \subseteq Tool!Holders(u, sema[u]) \union {c}
        BY <2>1, <2>4 DEF Running, Tool!Holders, SinceHolds, ToolTypes
      <4>6. Cardinality(Tool!Holders(u, sema[u]) \union {c}) = Cardinality(Tool!Holders(u, sema[u])) + 1
        BY <4>4, Countable, FS_AddElement
      <4>7. Cardinality(Tool!Holders(u, sema[u])) \in Nat
        BY <4>4, Countable
      <4>8. Cardinality(Tool!Holders(u, sema[u]) \union {c}) <= tools[u]
        BY <3>1, <4>3, <4>6, <4>7
      <4> QED  BY <3>1, <4>4, <4>5, <4>8, Fewer
    <3> QED  BY <3>2, <3>3
  <2>8. Tool!ToolLimit'
    BY <1>1, <2>7, ToolCount DEF Tool!ToolLimit, Running
  <2> QED  BY <2>2, <2>3, <2>6, <2>8
<1> QED  BY <1>2, <1>3

LEMMA FinishesInv == ASSUME ToolInv, NEW c \in Calls, Tool!Finishes(c) PROVE ToolInv'
<1>1. PICK reply \in {"exit", "timeout"} : calls' = Tool!Answered(c, reply)
  BY DEF Tool!Finishes
<1>2. calls[c].tool \in Tools
  BY DEF Tool!Finishes, ToolInv, HaveTools
<1> QED  BY <1>1, <1>2, AnswerInv DEF Tool!Finishes

\* A tool whose limit stays keeps its semaphore; one whose limit changes starts
\* to count anew.
LEMMA ReloadInv == ASSUME ToolInv, Tool!Reload PROVE ToolInv'
<1> USE DEF ToolInv
<1>1. PICK cfg \in Tool!Configs :
        /\ tools' = cfg
        /\ sema' = [t \in Tools |-> IF cfg[t] <= 0 THEN 0
                                    ELSE IF Tool!Keeps(t, cfg) THEN sema[t] ELSE reloads + 2]
        /\ since' = [t \in Tools |-> IF cfg[t] = tools[t] THEN since[t] ELSE {}]
  BY DEF Tool!Reload
<1>2. reloads' = reloads + 1 /\ UNCHANGED calls
  BY DEF Tool!Reload
<1>3. cfg \in [Tools -> Int]
  BY ConfigsAreInts
<1>4. ToolTypes'
  <2>1. sema' \in [Tools -> Nat]
    BY <1>1 DEF ToolTypes
  <2>2. since' \in [Tools -> SUBSET Calls]
    BY <1>1 DEF ToolTypes
  <2> QED  BY <1>1, <1>2, <1>3, <2>1, <2>2 DEF ToolTypes
<1>5. HaveTools'
  BY <1>2 DEF HaveTools
<1>6. ASSUME NEW t \in Tools PROVE cfg[t] > 0 <=> sema'[t] # 0
  BY <1>1, <1>3 DEF ToolTypes, Tool!Keeps
<1>7. ASSUME NEW t \in Tools, cfg[t] = tools[t] PROVE sema'[t] = sema[t] /\ since'[t] = since[t]
  <2>1. tools[t] > 0 <=> sema[t] # 0
    BY DEF LimitIsSema
  <2> QED  BY <1>1, <1>3, <1>7, <2>1 DEF ToolTypes, Tool!Keeps
<1>8. ASSUME NEW t \in Tools, cfg[t] # tools[t] PROVE since'[t] = {}
  BY <1>1, <1>8
<1>9. LimitIsSema' /\ SinceHolds'
  BY <1>1, <1>2, <1>6, <1>7, <1>8 DEF LimitIsSema, SinceHolds
<1>10. ASSUME NEW t \in Tools, cfg[t] > 0 PROVE Cardinality(Running(t)') <= cfg[t]
  <2>1. CASE cfg[t] = tools[t]
    BY <1>2, <1>7, <1>10, <2>1, ToolCount DEF Tool!ToolLimit, Running
  <2>2. CASE cfg[t] # tools[t]
    <3>1. Cardinality(Running(t)') = 0
      BY <1>8, <2>2, FS_EmptySet DEF Running
    <3> QED  BY <1>3, <1>10, <3>1
  <2> QED  BY <2>1, <2>2
<1> QED  BY <1>1, <1>4, <1>5, <1>9, <1>10, ToolCount DEF Tool!ToolLimit, Running

LEMMA ToolStep == ASSUME ToolInv, [Tool!Next]_toolVars PROVE ToolInv'
<1>1. CASE Tool!Close \/ Tool!Closed \/ UNCHANGED toolVars
  <2>1. UNCHANGED <<calls, tools, sema, reloads, since>>
    BY <1>1 DEF Tool!Close, Tool!Closed, toolVars
  <2> QED  BY <2>1, ToolCount DEF ToolInv, ToolTypes, HaveTools, LimitIsSema, SinceHolds, Tool!ToolLimit
<1>2. CASE \E c \in Calls : Tool!Accept(c) \/ Tool!LooksUp(c) \/ Tool!Admits(c) \/ Tool!Finishes(c)
  BY <1>2, AcceptInv, LooksUpInv, AdmitsInv, FinishesInv
<1>3. CASE Tool!Reload
  BY <1>3, ReloadInv
<1> QED  BY <1>1, <1>2, <1>3 DEF Tool!Next

\* A call, with the semaphores and limits there can be.
ToolCall == [st : {"new", "read", "found", "runs", "done"}, tool : Tools \union {"none"},
             s : 0..(MaxReloads + 1), cap : Caps \union {0},
             reply : {"none", "unknown", "limit", "exit", "timeout"}]

\* The semaphores are numbered by the reloads.
LEMMA ToolRanges == ASSUME ToolInv, Tool!TypeOK, [Tool!Next]_toolVars PROVE Tool!TypeOK'
<1> USE PartsAssumption
<1>0. /\ calls \in [Calls -> ToolCall] /\ tools \in Tool!Configs
      /\ sema \in [Tools -> 0..(MaxReloads + 1)] /\ listener \in {"open", "closing", "closed"}
      /\ reloads \in 0..MaxReloads /\ since \in [Tools -> SUBSET Calls]
  BY DEF Tool!TypeOK, ToolCall
<1>1. since' \in [Tools -> SUBSET Calls] /\ tools' \in Tool!Configs
  BY ToolStep DEF ToolInv, ToolTypes
<1>2. SUFFICES /\ calls' \in [Calls -> ToolCall] /\ sema' \in [Tools -> 0..(MaxReloads + 1)]
               /\ listener' \in {"open", "closing", "closed"} /\ reloads' \in 0..MaxReloads
  BY <1>1 DEF Tool!TypeOK, ToolCall
<1>3. ASSUME NEW c \in Calls, NEW reply \in {"unknown", "limit", "exit", "timeout"}
      PROVE  Tool!Answered(c, reply) \in [Calls -> ToolCall]
  <2>1. [Tool!NoCall EXCEPT !.st = "done", !.reply = reply] \in ToolCall
    <3>1. Tool!NoCall \in ToolCall
      BY DEF Tool!NoCall, ToolCall
    <3>2. [Tool!NoCall EXCEPT !.st = "done"] \in ToolCall
      BY <3>1 DEF ToolCall
    <3> QED  BY <3>2 DEF ToolCall
  <2> QED  BY <1>0, <2>1 DEF Tool!Answered
<1>4. CASE UNCHANGED toolVars
  BY <1>0, <1>4 DEF toolVars
<1>5. ASSUME NEW c \in Calls, Tool!Accept(c) \/ Tool!LooksUp(c) \/ Tool!Admits(c) \/ Tool!Finishes(c)
      PROVE  calls' \in [Calls -> ToolCall]
  <2>0. calls[c] \in ToolCall
    BY <1>0
  <2>1. CASE Tool!Accept(c)
    <3>1. PICK t \in Tools : calls' = [calls EXCEPT ![c].st = "read", ![c].tool = t]
      BY <2>1 DEF Tool!Accept
    <3> DEFINE r == [calls[c] EXCEPT !.st = "read"]
               g == [r EXCEPT !.tool = t]
    <3>2. calls' = [calls EXCEPT ![c] = g]
      BY <3>1
    <3>3. r \in ToolCall
      BY <2>0 DEF ToolCall
    <3> HIDE DEF r
    <3>4. g \in ToolCall
      BY <3>3 DEF ToolCall
    <3> HIDE DEF g
    <3> QED  BY <1>0, <3>2, <3>4
  <2>2. CASE Tool!LooksUp(c)
    <3> DEFINE t == calls[c].tool
               r == [calls[c] EXCEPT !.st = "found"]
               h == [r EXCEPT !.s = sema[t]]
               g == [h EXCEPT !.cap = tools[t]]
    <3>0. t \in Tools
      BY <2>2 DEF Tool!LooksUp, ToolInv, HaveTools
    <3>1. CASE tools[t] = Tool!Absent
      BY <1>3, <2>2, <3>1 DEF Tool!LooksUp
    <3>2. CASE tools[t] # Tool!Absent
      <4>1. calls' = [calls EXCEPT ![c] = g]
        BY <2>2, <3>2 DEF Tool!LooksUp
      <4>2. tools[t] \in Caps /\ sema[t] \in 0..(MaxReloads + 1)
        BY <1>0, <3>0, <3>2 DEF Tool!Configs
      <4>3. r \in ToolCall
        BY <2>0 DEF ToolCall
      <4> HIDE DEF r
      <4>4. h \in ToolCall
        BY <4>2, <4>3 DEF ToolCall
      <4> HIDE DEF h
      <4>5. g \in ToolCall
        BY <4>2, <4>4 DEF ToolCall
      <4> HIDE DEF g
      <4> QED  BY <1>0, <4>1, <4>5
    <3> QED  BY <3>1, <3>2
  <2>3. CASE Tool!Admits(c)
    <3> DEFINE r == [calls[c] EXCEPT !.st = "runs"]
    <3>1. calls' = Tool!Answered(c, "limit") \/ calls' = [calls EXCEPT ![c] = r]
      BY <2>3 DEF Tool!Admits, Tool!Full
    <3>2. r \in ToolCall
      BY <2>0 DEF ToolCall
    <3> HIDE DEF r
    <3> QED  BY <1>0, <1>3, <3>1, <3>2
  <2>4. CASE Tool!Finishes(c)
    BY <1>3, <2>4 DEF Tool!Finishes
  <2> QED  BY <1>5, <2>1, <2>2, <2>3, <2>4
<1>6. CASE \E c \in Calls : Tool!Accept(c) \/ Tool!LooksUp(c) \/ Tool!Admits(c) \/ Tool!Finishes(c)
  <2>1. calls' \in [Calls -> ToolCall]
    BY <1>5, <1>6
  <2>2. UNCHANGED <<sema, listener, reloads>>
    BY <1>6 DEF Tool!Accept, Tool!LooksUp, Tool!Admits, Tool!Full, Tool!Finishes
  <2> QED  BY <1>0, <2>1, <2>2
<1>7. CASE Tool!Reload
  <2>1. PICK cfg \in Tool!Configs :
          sema' = [t \in Tools |-> IF cfg[t] <= 0 THEN 0
                                   ELSE IF Tool!Keeps(t, cfg) THEN sema[t] ELSE reloads + 2]
    BY <1>7 DEF Tool!Reload
  <2>2. reloads < MaxReloads /\ reloads' = reloads + 1 /\ UNCHANGED <<calls, listener>>
    BY <1>7 DEF Tool!Reload
  <2>3. reloads + 2 \in 0..(MaxReloads + 1) /\ 0 \in 0..(MaxReloads + 1) /\ reloads + 1 \in 0..MaxReloads
    BY <1>0, <2>2
  <2>4. sema' \in [Tools -> 0..(MaxReloads + 1)]
    <3> SUFFICES ASSUME NEW t \in Tools
                 PROVE  (IF cfg[t] <= 0 THEN 0
                         ELSE IF Tool!Keeps(t, cfg) THEN sema[t] ELSE reloads + 2) \in 0..(MaxReloads + 1)
      BY <2>1
    <3>1. sema[t] \in 0..(MaxReloads + 1)
      BY <1>0
    <3> QED  BY <2>3, <3>1
  <2> QED  BY <1>0, <2>2, <2>3, <2>4
<1>8. CASE Tool!Close \/ Tool!Closed
  BY <1>0, <1>8 DEF Tool!Close, Tool!Closed
<1> QED  BY <1>4, <1>6, <1>7, <1>8 DEF Tool!Next

LEMMA ToolStarts == ASSUME Tool!Init PROVE Tool!TypeOK
<1>1. Tool!NoCall \in ToolCall
  BY PartsAssumption DEF Tool!NoCall, ToolCall
<1>2. 0 \in 0..(MaxReloads + 1) /\ 1 \in 0..(MaxReloads + 1) /\ 0 \in 0..MaxReloads
  BY PartsAssumption
<1>3. calls \in [Calls -> ToolCall] /\ sema \in [Tools -> 0..(MaxReloads + 1)]
  BY <1>1, <1>2 DEF Tool!Init
<1> QED  BY <1>2, <1>3 DEF Tool!Init, Tool!TypeOK, ToolCall

-----------------------------------------------------------------------------
(* EggSandbox *)

\* What a path holds: the sessions that changed it, or nothing.
Content == (SUBSET Sessions) \union {{0}}
Place == {"disk", "upper", "ro", "hidden"}
Step == {"new", "jail", "isolate", "through", "readonly", "deny", "keep", "runs", "exited", "ended"}
Before == Step \ {"runs", "exited", "ended"}
Run == [st : Step, kind : Sandbox!Kinds, next : 1..4, persist : BOOLEAN, snap : Content,
        saved : BOOLEAN, bare : BOOLEAN, clean : BOOLEAN, alone : BOOLEAN, broken : BOOLEAN,
        wrote : SUBSET Sandbox!Paths, around : SUBSET Sandbox!Paths]
Dirs == {"cache", "lib", "agent"}

SandboxTypes ==
    /\ home \in [Sandbox!Paths -> Content] /\ run \in [Sessions -> Run]
    /\ view \in [Sessions -> [Sandbox!Paths -> Place]]
    /\ upper \in [Sessions -> [Sandbox!Paths -> Content]]
    /\ perUser \in BOOLEAN /\ sandboxFaults \in 0..MaxFaults

\* What a session's mounts are at each step.
Mounted(s) ==
    /\ run[s].st \in {"new", "jail", "isolate"} => \A p \in Sandbox!Paths : view[s][p] = "disk"
    /\ run[s].st \in {"new", "jail", "isolate", "through", "ended"} =>
         \A p \in Sandbox!Paths : upper[s][p] = {0}
    /\ run[s].st = "ended" => \A p \in Sandbox!Paths : view[s][p] = "disk"
    /\ run[s].st = "jail" => run[s].kind = "jail"
    /\ run[s].st \in {"isolate", "readonly"} => run[s].kind \in {"overlay", "bind"}
    /\ run[s].st = "isolate" => run[s].next = 1
    /\ run[s].st = "through" => run[s].next \in 1..3 /\ run[s].kind = "overlay" /\ view[s]["other"] = "upper"
    /\ ~run[s].broken =>
         /\ run[s].st \in {"deny", "keep", "runs"} /\ run[s].kind \in {"overlay", "bind"} =>
              view[s]["other"] # "disk"
         /\ run[s].st \in {"keep", "runs"} => view[s]["secret"] \in {"hidden", "ro"}
         /\ run[s].st = "runs" => view[s]["keep"] = "ro" \/ run[s].bare

\* The layer that is copied back has nothing of what is bound through it.
Bound(s) ==
    /\ run[s].persist => run[s].st \in {"deny", "keep", "runs", "exited"}
    /\ run[s].persist => \A p \in {"agent", "settings"} :
         view[s][p] = "disk" /\ upper[s][p] = {0}

\* Nobody has written who has not run.
Untouched(s) ==
    run[s].st \in Before =>
        /\ run[s].wrote = {}
        /\ \A p \in {"secret", "keep", "other", "settings"} : s \notin home[p]
        /\ \A t \in Sessions : s \notin run[t].snap

\* Without faults the listed directories are bound, if they were there.
Opened(s) ==
    /\ run[s].st = "through" =>
         /\ run[s].next > 1 => view[s]["cache"] = "disk"
         /\ run[s].next > 2 => view[s]["lib"] = "disk"
    /\ run[s].st \in {"readonly", "deny", "keep", "runs"} =>
         \A p \in Dirs : view[s][p] = "disk"
Good(s) == run[s].clean /\ sandboxFaults = 0
Direct(s) ==
    /\ run[s].st # "new" => home["agent"] # {0}
    /\ run[s].clean => run[s].st # "new" /\ \A p \in Dirs : home[p] # {0}
    /\ Good(s) =>
         /\ Opened(s)
         /\ \A p \in Dirs \intersect run[s].wrote : s \in home[p]

\* A session that runs alone took its snapshot when nobody else ran.
Alone(s) ==
    /\ ~Sandbox!Running(s) => run[s].snap = {0}
    /\ s \notin run[s].snap
    /\ run[s].alone /\ Sandbox!Running(s) => \A t \in Sessions : Sandbox!Running(t) => t = s
    /\ run[s].alone /\ run[s].st = "ended" /\ ~run[s].broken /\ ~perUser =>
         s \notin home["settings"] /\ \A t \in Sessions : s \notin run[t].snap

\* What a session changed that its rules forbid, it changed by the second mount.
Within(s) ==
    /\ run[s].around \subseteq run[s].wrote
    /\ ~run[s].broken =>
         /\ s \in home["secret"] => "secret" \in run[s].around
         /\ s \in home["keep"] => "keep" \in run[s].around \/ run[s].bare
         /\ run[s].kind \in {"overlay", "bind"} /\ s \in home["other"] => "other" \in run[s].around

\* Of every session.
Each(s) == Mounted(s) /\ Bound(s) /\ Untouched(s) /\ Direct(s) /\ Alone(s) /\ Within(s)
SandboxInv == SandboxTypes /\ \A s \in Sessions : Each(s)

LEMMA SandboxInit == Sandbox!Init => SandboxInv
<1> SUFFICES ASSUME Sandbox!Init PROVE SandboxInv
  OBVIOUS
<1>1. run = [s \in Sessions |-> Sandbox!Fresh] /\ Sandbox!Fresh \in Run
      /\ Sandbox!Fresh.st = "new" /\ Sandbox!Fresh.snap = {0} /\ Sandbox!Fresh.wrote = {}
      /\ Sandbox!Fresh.around = {}
      /\ ~Sandbox!Fresh.persist /\ ~Sandbox!Fresh.clean /\ ~Sandbox!Fresh.alone /\ ~Sandbox!Fresh.broken
  BY DEF Sandbox!Init, Sandbox!Fresh, Run, Step, Content, Sandbox!Absent, Sandbox!Kinds
<1>2. SandboxTypes
  BY <1>1, PartsAssumption DEF Sandbox!Init, SandboxTypes, Sandbox!Absent, Content, Place, Sandbox!Everywhere
<1>3. ASSUME NEW s \in Sessions PROVE Each(s)
  <2>1. \A t \in Sessions : s \notin run[t].snap
    BY <1>1, PartsAssumption
  <2>2. \A p \in Sandbox!Paths : s \notin home[p]
    BY PartsAssumption DEF Sandbox!Init, Sandbox!Absent
  <2>3. /\ \A p \in Sandbox!Paths : view[s][p] = "disk" /\ upper[s][p] = {0}
    BY DEF Sandbox!Init, Sandbox!Absent, Sandbox!Everywhere
  <2>4. {"secret", "keep", "other", "settings"} \subseteq Sandbox!Paths
    BY DEF Sandbox!Paths
  <2> QED
    BY <1>1, <2>1, <2>2, <2>3, <2>4 DEF Each, Mounted, Bound, Untouched, Direct, Good, Opened, Alone, Within, Sandbox!Running
<1> QED  BY <1>2, <1>3 DEF SandboxInv

\* What a step of session s leaves of the others.
Spares(s) ==
    /\ \A t \in Sessions \ {s} :
         /\ view'[t] = view[t] /\ upper'[t] = upper[t]
         /\ \/ run'[t] = run[t]
            \/ run[s].st = "new" /\ run'[t] = [run[t] EXCEPT !.alone = FALSE]
         /\ run[s].st = "new" => ~Sandbox!Running(t) \/ ~run'[t].alone
         /\ \A p \in {"secret", "keep", "other"} : t \in home'[p] => t \in home[p]
         /\ t \in home'["settings"] => t \in home["settings"] \/ t \in run[s].snap
         /\ t \in run'[s].snap => t \in run[s].snap \/ t \in home["settings"]
         /\ \A p \in Dirs : t \in home[p] => t \in home'[p]
    /\ \A p \in Dirs : home[p] # {0} => home'[p] # {0}
    /\ run[s].st = "ended" => run'[s].st = "ended"
    /\ sandboxFaults' = 0 => sandboxFaults = 0
    /\ perUser' = perUser

LEMMA OthersKeep ==
    ASSUME SandboxInv, NEW s \in Sessions, Spares(s), SandboxTypes', NEW t \in Sessions \ {s}
    PROVE  Each(t)'
<1>0. Each(s) /\ Each(t) /\ t \in Sessions /\ run[t] \in Run /\ run[s] \in Run
  BY DEF SandboxInv, SandboxTypes
<1>1. /\ view'[t] = view[t] /\ upper'[t] = upper[t]
      /\ run'[t].st = run[t].st /\ run'[t].kind = run[t].kind /\ run'[t].next = run[t].next
      /\ run'[t].persist = run[t].persist /\ run'[t].snap = run[t].snap
      /\ run'[t].clean = run[t].clean /\ run'[t].broken = run[t].broken
      /\ run'[t].wrote = run[t].wrote /\ run'[t].around = run[t].around
      /\ run'[t].bare = run[t].bare
      /\ run'[t].alone => run[t].alone
  <2>1. run'[t] = run[t] \/ run'[t] = [run[t] EXCEPT !.alone = FALSE]
    BY DEF Spares
  <2> QED  BY <1>0, <2>1 DEF Spares, Run
<1>2. \A p \in {"secret", "keep", "other"} : t \in home'[p] => t \in home[p]
  BY DEF Spares
<1>3. /\ t \in home'["settings"] => t \in home["settings"] \/ t \in run[s].snap
      /\ t \in run'[s].snap => t \in run[s].snap \/ t \in home["settings"]
  BY DEF Spares
<1>4. \A x \in Sessions \ {s, t} : run'[x].snap = run[x].snap
  <2> SUFFICES ASSUME NEW x \in Sessions \ {s, t} PROVE run'[x].snap = run[x].snap
    OBVIOUS
  <2>1. run[x] \in Run /\ (run'[x] = run[x] \/ run'[x] = [run[x] EXCEPT !.alone = FALSE])
    BY DEF Spares, SandboxInv, SandboxTypes
  <2> QED  BY <2>1 DEF Run
<1>5. \A x \in Sessions \ {s} : run'[x].st = run[x].st
  <2> SUFFICES ASSUME NEW x \in Sessions \ {s} PROVE run'[x].st = run[x].st
    OBVIOUS
  <2>1. run[x] \in Run /\ (run'[x] = run[x] \/ run'[x] = [run[x] EXCEPT !.alone = FALSE])
    BY DEF Spares, SandboxInv, SandboxTypes
  <2> QED  BY <2>1 DEF Run
<1>6. Mounted(t)' /\ Bound(t)'
  BY <1>0, <1>1 DEF Each, Mounted, Bound
<1>7. (\A x \in Sessions : t \notin run[x].snap) /\ t \notin home["settings"]
        => (\A x \in Sessions : t \notin run'[x].snap) /\ t \notin home'["settings"]
  BY <1>1, <1>3, <1>4
<1>8. Untouched(t)' /\ Within(t)'
  BY <1>0, <1>1, <1>2, <1>7 DEF Each, Untouched, Within
<1>9. Direct(t)'
  <2>1. /\ \A p \in Dirs : t \in home[p] => t \in home'[p]
        /\ \A p \in Dirs : home[p] # {0} => home'[p] # {0}
        /\ sandboxFaults' = 0 => sandboxFaults = 0
    BY DEF Spares
  <2>2. "agent" \in Dirs
    BY DEF Dirs
  <2> QED  BY <1>0, <1>1, <2>1, <2>2 DEF Each, Direct, Good, Opened
<1>10. Alone(t)'
  <2>1. run'[t].alone /\ Sandbox!Running(t)' => \A x \in Sessions : Sandbox!Running(x)' => x = t
    <3> SUFFICES ASSUME run'[t].alone, Sandbox!Running(t)', Sandbox!Running(s)' PROVE FALSE
      BY <1>0, <1>1, <1>5 DEF Each, Alone, Sandbox!Running
    <3>1. Sandbox!Running(t) /\ run[t].alone
      BY <1>1 DEF Sandbox!Running
    <3>2. run[s].st # "new"
      BY <3>1 DEF Spares
    <3>3. Sandbox!Running(s)
      BY <3>2 DEF Sandbox!Running, Spares
    <3> QED  BY <1>0, <3>1, <3>3 DEF Each, Alone
  <2>2. perUser' = perUser
    BY DEF Spares
  <2> QED  BY <1>0, <1>1, <1>7, <2>1, <2>2 DEF Each, Alone, Sandbox!Running
<1> QED  BY <1>6, <1>8, <1>9, <1>10 DEF Each

LEMMA Keeps ==
    ASSUME SandboxInv, NEW s \in Sessions, Spares(s), SandboxTypes', Each(s)'
    PROVE  SandboxInv'
  BY OthersKeep DEF SandboxInv

\* What session s has.
LEMMA Mine ==
    ASSUME SandboxInv, NEW s \in Sessions
    PROVE  /\ Each(s) /\ run[s] \in Run /\ s # 0 /\ SandboxTypes
           /\ view[s] \in [Sandbox!Paths -> Place] /\ upper[s] \in [Sandbox!Paths -> Content]
           /\ home \in [Sandbox!Paths -> Content] /\ sandboxFaults \in Nat
           /\ Dirs \subseteq Sandbox!Paths
           /\ {"agent", "settings", "file", "secret", "keep", "other"} \subseteq Sandbox!Paths
           /\ Dirs \intersect {"settings", "file", "secret", "keep", "other"} = {}
  BY PartsAssumption DEF SandboxInv, SandboxTypes, Dirs, Sandbox!Paths

\* Session s gets to v, with its rules.
Moved(s, v) ==
    /\ run' \in [Sessions -> Run] /\ \A t \in Sessions \ {s} : run'[t] = run[t]
    /\ run'[s].st = v /\ run'[s].kind = run[s].kind /\ run'[s].snap = run[s].snap
    /\ run'[s].clean = run[s].clean /\ run'[s].alone = run[s].alone
    /\ run'[s].wrote = run[s].wrote /\ run'[s].around = run[s].around

LEMMA Moves ==
    ASSUME SandboxInv, NEW s \in Sessions, NEW v \in Step, run' = [run EXCEPT ![s].st = v]
    PROVE  /\ Moved(s, v) /\ run'[s].broken = run[s].broken /\ run'[s].bare = run[s].bare
           /\ run'[s].next = run[s].next /\ run'[s].persist = run[s].persist
<1> DEFINE goes == [run[s] EXCEPT !.st = v]
<1>1. run[s] \in Run /\ run \in [Sessions -> Run] /\ run' = [run EXCEPT ![s] = goes]
  BY DEF SandboxInv, SandboxTypes
<1>2. /\ goes \in Run /\ goes.st = v /\ goes.kind = run[s].kind /\ goes.next = run[s].next
      /\ goes.persist = run[s].persist /\ goes.snap = run[s].snap
      /\ goes.clean = run[s].clean /\ goes.alone = run[s].alone
      /\ goes.wrote = run[s].wrote /\ goes.broken = run[s].broken
      /\ goes.around = run[s].around /\ goes.bare = run[s].bare
  BY <1>1 DEF Run
<1> HIDE DEF goes
<1>3. run'[s] = goes /\ run' \in [Sessions -> Run] /\ \A t \in Sessions \ {s} : run'[t] = run[t]
  BY <1>1, <1>2
<1> QED  BY <1>2, <1>3 DEF Moved

LEMMA Breaks ==
    ASSUME SandboxInv, NEW s \in Sessions, NEW v \in Step,
           run' = [run EXCEPT ![s].st = v, ![s].broken = TRUE]
    PROVE  /\ Moved(s, v) /\ run'[s].broken
           /\ run'[s].next = run[s].next /\ run'[s].persist = run[s].persist
<1> DEFINE goes == [run[s] EXCEPT !.st = v]
           lacks == [goes EXCEPT !.broken = TRUE]
<1>1. run[s] \in Run /\ run \in [Sessions -> Run] /\ run' = [run EXCEPT ![s] = lacks]
  BY DEF SandboxInv, SandboxTypes
<1>2. /\ goes \in Run /\ goes.st = v /\ goes.kind = run[s].kind /\ goes.next = run[s].next
      /\ goes.persist = run[s].persist /\ goes.snap = run[s].snap
      /\ goes.clean = run[s].clean /\ goes.alone = run[s].alone
      /\ goes.wrote = run[s].wrote /\ goes.around = run[s].around
  BY <1>1 DEF Run
<1> HIDE DEF goes
<1>3. /\ lacks \in Run /\ lacks.st = v /\ lacks.kind = goes.kind /\ lacks.next = goes.next
      /\ lacks.persist = goes.persist /\ lacks.snap = goes.snap
      /\ lacks.clean = goes.clean /\ lacks.alone = goes.alone
      /\ lacks.wrote = goes.wrote /\ lacks.around = goes.around /\ lacks.broken
  BY <1>2 DEF Run
<1> HIDE DEF lacks
<1>4. run'[s] = lacks /\ run' \in [Sessions -> Run] /\ \A t \in Sessions \ {s} : run'[t] = run[t]
  BY <1>1, <1>3
<1> QED  BY <1>2, <1>3, <1>4 DEF Moved

LEMMA Saves ==
    ASSUME SandboxInv, NEW s \in Sessions, NEW v \in Step, NEW b \in BOOLEAN,
           run' = [run EXCEPT ![s].st = v, ![s].saved = b]
    PROVE  /\ Moved(s, v) /\ run'[s].broken = run[s].broken /\ run'[s].bare = run[s].bare
           /\ run'[s].next = run[s].next /\ run'[s].persist = run[s].persist
<1> DEFINE goes == [run[s] EXCEPT !.st = v]
           saves == [goes EXCEPT !.saved = b]
<1>1. run[s] \in Run /\ run \in [Sessions -> Run] /\ run' = [run EXCEPT ![s] = saves]
  BY DEF SandboxInv, SandboxTypes
<1>2. /\ goes \in Run /\ goes.st = v /\ goes.kind = run[s].kind /\ goes.next = run[s].next
      /\ goes.persist = run[s].persist /\ goes.snap = run[s].snap
      /\ goes.clean = run[s].clean /\ goes.alone = run[s].alone
      /\ goes.wrote = run[s].wrote /\ goes.around = run[s].around
      /\ goes.broken = run[s].broken /\ goes.bare = run[s].bare
  BY <1>1 DEF Run
<1> HIDE DEF goes
<1>3. /\ saves \in Run /\ saves.st = v /\ saves.kind = goes.kind /\ saves.next = goes.next
      /\ saves.persist = goes.persist /\ saves.snap = goes.snap
      /\ saves.clean = goes.clean /\ saves.alone = goes.alone
      /\ saves.wrote = goes.wrote /\ saves.around = goes.around
      /\ saves.broken = goes.broken /\ saves.bare = goes.bare
  BY <1>2 DEF Run
<1> HIDE DEF saves
<1>4. run'[s] = saves /\ run' \in [Sessions -> Run] /\ \A t \in Sessions \ {s} : run'[t] = run[t]
  BY <1>1, <1>3
<1> QED  BY <1>2, <1>3, <1>4 DEF Moved

LEMMA Bares ==
    ASSUME SandboxInv, NEW s \in Sessions, NEW v \in Step,
           run' = [run EXCEPT ![s].st = v, ![s].bare = TRUE]
    PROVE  /\ Moved(s, v) /\ run'[s].broken = run[s].broken /\ run'[s].bare
           /\ run'[s].next = run[s].next /\ run'[s].persist = run[s].persist
<1> DEFINE goes == [run[s] EXCEPT !.st = v]
           bares == [goes EXCEPT !.bare = TRUE]
<1>1. run[s] \in Run /\ run \in [Sessions -> Run] /\ run' = [run EXCEPT ![s] = bares]
  BY DEF SandboxInv, SandboxTypes
<1>2. /\ goes \in Run /\ goes.st = v /\ goes.kind = run[s].kind /\ goes.next = run[s].next
      /\ goes.persist = run[s].persist /\ goes.snap = run[s].snap
      /\ goes.clean = run[s].clean /\ goes.alone = run[s].alone
      /\ goes.wrote = run[s].wrote /\ goes.around = run[s].around
      /\ goes.broken = run[s].broken
  BY <1>1 DEF Run
<1> HIDE DEF goes
<1>3. /\ bares \in Run /\ bares.st = v /\ bares.kind = goes.kind /\ bares.next = goes.next
      /\ bares.persist = goes.persist /\ bares.snap = goes.snap
      /\ bares.clean = goes.clean /\ bares.alone = goes.alone
      /\ bares.wrote = goes.wrote /\ bares.around = goes.around
      /\ bares.broken = goes.broken /\ bares.bare
  BY <1>2 DEF Run
<1> HIDE DEF bares
<1>4. run'[s] = bares /\ run' \in [Sessions -> Run] /\ \A t \in Sessions \ {s} : run'[t] = run[t]
  BY <1>1, <1>3
<1> QED  BY <1>2, <1>3, <1>4 DEF Moved

\* A fault leaves a mark.
LEMMA Faulty == ASSUME SandboxInv, Sandbox!Fault PROVE sandboxFaults' \in 0..MaxFaults /\ sandboxFaults' # 0
  BY PartsAssumption DEF Sandbox!Fault, SandboxInv, SandboxTypes

LEMMA PerUserIs == ASSUME SandboxInv, perUser' = perUser PROVE perUser' \in BOOLEAN
  BY DEF SandboxInv, SandboxTypes

\* A step that only mounts: what it keeps.
LEMMA MountsKeep ==
    ASSUME SandboxInv, perUser' = perUser, NEW s \in Sessions,
           NEW v \in {"through", "readonly", "deny", "keep", "runs"}, run[s].st \in Before \ {"new"},
           Moved(s, v),
           run'[s].broken = run[s].broken \/ run'[s].broken,
           \A p \in Sandbox!Paths :
              home'[p] = home[p] \/ (p \in Dirs \union {"secret"} /\ home[p] = {0} /\ home'[p] = {}),
           home' \in [Sandbox!Paths -> Content],
           sandboxFaults' \in 0..MaxFaults, sandboxFaults' = 0 => sandboxFaults = 0,
           view' \in [Sessions -> [Sandbox!Paths -> Place]],
           upper' \in [Sessions -> [Sandbox!Paths -> Content]],
           \A t \in Sessions \ {s} : view'[t] = view[t] /\ upper'[t] = upper[t],
           Mounted(s)', Bound(s)',
           Good(s)' => Opened(s)'
    PROVE  SandboxInv'
<1>0. Each(s) /\ Dirs \subseteq Sandbox!Paths
      /\ {"agent", "settings", "file", "secret", "keep", "other"} \subseteq Sandbox!Paths
      /\ Dirs \intersect {"settings", "file", "secret", "keep", "other"} = {}
  BY Mine
<1>1. SandboxTypes'
  BY PerUserIs DEF SandboxTypes, Moved
<1>2. /\ \A p \in {"settings", "file", "keep", "other"} : home'[p] = home[p]
      /\ home'["secret"] \in {home["secret"], {}}
      /\ \A p \in Dirs : home[p] # {0} => home'[p] = home[p]
      /\ \A p \in Dirs, t \in Sessions : t \in home[p] => home'[p] = home[p]
      /\ "agent" \in Dirs
  BY <1>0, PartsAssumption DEF Dirs
<1>3. Spares(s)
  BY <1>2 DEF Spares, Before, Step, Moved
<1>4. \A t \in Sessions : run'[t].snap = run[t].snap /\ (Sandbox!Running(t)' => Sandbox!Running(t))
  BY DEF Moved, Sandbox!Running, Before
<1>5. Untouched(s)'
  BY <1>0, <1>2, <1>4 DEF Each, Untouched, Before, Moved
<1>6. Within(s)'
  BY <1>0, <1>2 DEF Each, Within, Moved, Untouched
<1>7. Alone(s)'
  BY <1>0, <1>4 DEF Each, Alone, Moved, Sandbox!Running, Before
<1>8. Direct(s)'
  <2>1. run[s].wrote = {} /\ run[s].st # "new"
    BY <1>0 DEF Each, Untouched, Before
  <2> QED  BY <1>0, <1>2, <2>1 DEF Each, Direct, Good, Moved, Dirs
<1> QED  BY <1>1, <1>3, <1>5, <1>6, <1>7, <1>8, Keeps DEF Each

LEMMA SetupJailInv == ASSUME SandboxInv, perUser' = perUser, NEW s \in Sessions, Sandbox!SetupJail(s) PROVE SandboxInv'
<1>1. run[s].st = "jail" /\ UNCHANGED <<home, upper>> /\ Mounted(s) /\ Bound(s) /\ SandboxTypes
  BY Mine DEF Sandbox!SetupJail, Each
<1>2. /\ Moved(s, "deny") /\ run'[s].persist = run[s].persist
      /\ run'[s].broken = run[s].broken \/ run'[s].broken
      /\ sandboxFaults' \in 0..MaxFaults /\ (sandboxFaults' = 0 => sandboxFaults = 0 /\ view' = view)
      /\ view' \in [Sessions -> [Sandbox!Paths -> Place]]
      /\ \A t \in Sessions \ {s} : view'[t] = view[t]
  <2>1. CASE run' = [run EXCEPT ![s].st = "deny"] /\ UNCHANGED <<view, sandboxFaults>>
    BY <1>1, <2>1, Moves DEF SandboxTypes, Step
  <2>2. CASE /\ Sandbox!Fault
             /\ view' = [view EXCEPT ![s] = [p \in Sandbox!Paths |->
                           IF p \in Sandbox!Inside THEN @[p] ELSE "hidden"]]
             /\ run' = [run EXCEPT ![s].st = "deny", ![s].broken = TRUE]
    <3>1. Moved(s, "deny") /\ run'[s].persist = run[s].persist /\ run'[s].broken
      BY <2>2, Breaks DEF Step
    <3>2. /\ view' \in [Sessions -> [Sandbox!Paths -> Place]]
          /\ \A t \in Sessions \ {s} : view'[t] = view[t]
      BY <1>1, <2>2 DEF SandboxTypes, Place
    <3> QED  BY <2>2, <3>1, <3>2, Faulty
  <2> QED  BY <2>1, <2>2 DEF Sandbox!SetupJail
<1>3. Mounted(s)' /\ Bound(s)'
  BY <1>1, <1>2 DEF Mounted, Bound, Moved
<1>4. Good(s)' => Opened(s)'
  BY <1>1, <1>2, Mine DEF Good, Opened, Moved, Mounted
<1> QED  BY <1>1, <1>2, <1>3, <1>4, MountsKeep DEF Before, Step, SandboxTypes

LEMMA MountsOverlayInv == ASSUME SandboxInv, perUser' = perUser, NEW s \in Sessions, Sandbox!MountsOverlay(s) PROVE SandboxInv'
<1>1. run[s].st = "isolate" /\ UNCHANGED <<home, upper>> /\ Mounted(s) /\ Bound(s) /\ SandboxTypes
  BY Mine DEF Sandbox!MountsOverlay, Each
<1>2. PICK v \in {"through", "readonly"} :
      /\ Moved(s, v) /\ run'[s].broken = run[s].broken /\ run'[s].persist = run[s].persist
      /\ run'[s].next = run[s].next
      /\ v = "through" => run[s].kind = "overlay" /\ view'[s]["other"] = "upper"
      /\ v = "readonly" => view' = view
      /\ sandboxFaults' \in 0..MaxFaults /\ (sandboxFaults' = 0 => sandboxFaults = 0)
      /\ view' \in [Sessions -> [Sandbox!Paths -> Place]]
      /\ \A t \in Sessions \ {s} : view'[t] = view[t]
  <2>1. CASE /\ run[s].kind = "overlay"
             /\ view' = [view EXCEPT ![s] = Sandbox!Everywhere("upper")]
             /\ run' = [run EXCEPT ![s].st = "through", ![s].saved = TRUE]
             /\ UNCHANGED sandboxFaults
    <3>1. /\ view' \in [Sessions -> [Sandbox!Paths -> Place]] /\ view'[s]["other"] = "upper"
          /\ \A t \in Sessions \ {s} : view'[t] = view[t]
      BY <1>1, <2>1, Mine DEF SandboxTypes, Place, Sandbox!Everywhere
    <3>2. /\ Moved(s, "through") /\ run'[s].broken = run[s].broken
          /\ run'[s].persist = run[s].persist /\ run'[s].next = run[s].next
      BY <2>1, Saves DEF Step
    <3> QED  BY <1>1, <2>1, <3>1, <3>2 DEF SandboxTypes
  <2>2. CASE /\ Sandbox!Fault /\ UNCHANGED view
             /\ \E b \in BOOLEAN : run' = [run EXCEPT ![s].st = "readonly", ![s].saved = b]
    <3>1. /\ Moved(s, "readonly") /\ run'[s].broken = run[s].broken
          /\ run'[s].persist = run[s].persist /\ run'[s].next = run[s].next
      BY <2>2, Saves DEF Step
    <3> QED  BY <1>1, <2>2, <3>1, Faulty DEF SandboxTypes
  <2>3. CASE run' = [run EXCEPT ![s].st = "readonly"] /\ UNCHANGED <<view, sandboxFaults>>
    BY <1>1, <2>3, Moves DEF SandboxTypes, Step
  <2> QED  BY <2>1, <2>2, <2>3 DEF Sandbox!MountsOverlay
<1>3. run'[s].next = 1
  BY <1>1, <1>2 DEF Mounted
<1>4. Mounted(s)' /\ Bound(s)'
  BY <1>1, <1>2, <1>3 DEF Mounted, Bound, Moved
<1>5. Good(s)' => Opened(s)'
  BY <1>1, <1>2, <1>3, Mine DEF Good, Opened, Moved, Mounted
<1> QED  BY <1>1, <1>2, <1>3, <1>4, <1>5, MountsKeep DEF Before, Step, SandboxTypes

LEMMA ReadonlyHomeInv == ASSUME SandboxInv, perUser' = perUser, NEW s \in Sessions, Sandbox!ReadonlyHome(s) PROVE SandboxInv'
<1>1. run[s].st = "readonly" /\ Mounted(s) /\ Bound(s) /\ Direct(s) /\ SandboxTypes
  BY Mine DEF Sandbox!ReadonlyHome, Each
<1>2. /\ Moved(s, "deny") /\ run'[s].persist = run[s].persist
      /\ run'[s].broken \/ (run'[s].broken = run[s].broken /\ view'[s]["other"] = "ro")
      /\ sandboxFaults' \in 0..MaxFaults
      /\ sandboxFaults' = 0 => sandboxFaults = 0 /\ \A p \in Dirs : view'[s][p] = view[s][p]
      /\ view' \in [Sessions -> [Sandbox!Paths -> Place]]
      /\ \A t \in Sessions \ {s} : view'[t] = view[t]
  <2>1. CASE /\ view' = [view EXCEPT ![s] =
                  [p \in Sandbox!Paths |-> IF p \in Sandbox!Holes(s) THEN @[p] ELSE "ro"]]
             /\ run' = [run EXCEPT ![s].st = "deny"]
             /\ UNCHANGED sandboxFaults
    <3>1. Dirs \subseteq Sandbox!Holes(s) /\ "other" \notin Sandbox!Holes(s)
      <4>1. \A p \in Dirs : p \in Sandbox!Within(p) /\ "other" \notin Sandbox!Within(p)
        BY DEF Sandbox!Within, Dirs
      <4>2. Sandbox!Listed = Dirs
        BY DEF Sandbox!Listed, Sandbox!Writable, Dirs
      <4>3. Dirs \subseteq Sandbox!Inside /\ "other" \notin Sandbox!Inside
        BY <4>1, <4>2 DEF Sandbox!Inside
      <4> QED  BY <4>3 DEF Sandbox!Holes
    <3>2. /\ view' \in [Sessions -> [Sandbox!Paths -> Place]] /\ view'[s]["other"] = "ro"
          /\ \A t \in Sessions \ {s} : view'[t] = view[t]
          /\ \A p \in Dirs : view'[s][p] = view[s][p]
      BY <1>1, <2>1, <3>1, Mine DEF SandboxTypes, Place
    <3> QED  BY <1>1, <2>1, <3>2, Moves DEF SandboxTypes, Step
  <2>2. CASE Sandbox!Fault /\ UNCHANGED view /\ run' = [run EXCEPT ![s].st = "deny", ![s].broken = TRUE]
    BY <1>1, <2>2, Faulty, Breaks DEF SandboxTypes, Step
  <2> QED  BY <2>1, <2>2 DEF Sandbox!ReadonlyHome
<1>3. /\ \A p \in Sandbox!Paths : home'[p] = home[p] \/ (p \in Dirs /\ home[p] = {0} /\ home'[p] = {})
      /\ home' \in [Sandbox!Paths -> Content]
  <2>1. home' = [p \in Sandbox!Paths |->
                   IF p \in Sandbox!Missing(s) /\ view[s][p] = "disk" THEN {} ELSE home[p]]
    BY DEF Sandbox!ReadonlyHome
  <2>2. \A p \in Sandbox!Missing(s) : p \in Dirs /\ (view[s][p] = "disk" => home[p] = {0})
    BY DEF Sandbox!Missing, Sandbox!Shown, Sandbox!Absent, Sandbox!Listed, Sandbox!Writable, Dirs
  <2> QED  BY <1>1, <2>1, <2>2 DEF SandboxTypes, Content
<1>4. upper' \in [Sessions -> [Sandbox!Paths -> Content]] /\ \A t \in Sessions \ {s} : upper'[t] = upper[t]
  <2>1. upper' = [upper EXCEPT ![s] = [p \in Sandbox!Paths |->
                    IF p \in Sandbox!Missing(s) /\ view[s][p] = "upper" THEN {} ELSE upper[s][p]]]
    BY <1>1 DEF Sandbox!ReadonlyHome, SandboxTypes
  <2> QED  BY <1>1, <2>1 DEF SandboxTypes, Content
<1>5. Mounted(s)' /\ Bound(s)'
  BY <1>1, <1>2 DEF Mounted, Bound, Moved
<1>6. Good(s)' => Opened(s)'
  BY <1>1, <1>2, Mine DEF Good, Opened, Moved, Direct
<1> QED  BY <1>1, <1>2, <1>3, <1>4, <1>5, <1>6, MountsKeep DEF Before, Step

\* What a mount over a path leaves.
LEMMA Overmounted ==
    ASSUME SandboxInv, NEW s \in Sessions, NEW v \in Step, NEW p \in {"secret", "keep"},
           NEW how \in {"hidden", "ro"}, Sandbox!Overmounts(s, p, how, v)
    PROVE  /\ Moved(s, v) /\ run'[s].persist = run[s].persist
           /\ run'[s].broken \/ (run'[s].broken = run[s].broken /\ view'[s][p] = how)
           /\ sandboxFaults' \in 0..MaxFaults /\ (sandboxFaults' = 0 => sandboxFaults = 0)
           /\ view' \in [Sessions -> [Sandbox!Paths -> Place]]
           /\ \A t \in Sessions \ {s} : view'[t] = view[t]
           /\ \A q \in Sandbox!Paths \ {p} : view'[s][q] = view[s][q]
<1>0. SandboxTypes /\ p \in Sandbox!Paths
  BY Mine
<1>1. CASE /\ view' = [view EXCEPT ![s][p] = how]
           /\ run' = [run EXCEPT ![s].st = v] /\ UNCHANGED sandboxFaults
  <2>1. /\ view' \in [Sessions -> [Sandbox!Paths -> Place]] /\ view'[s][p] = how
        /\ \A t \in Sessions \ {s} : view'[t] = view[t]
        /\ \A q \in Sandbox!Paths \ {p} : view'[s][q] = view[s][q]
    BY <1>0, <1>1 DEF SandboxTypes, Place
  <2> QED  BY <1>0, <1>1, <2>1, Moves DEF SandboxTypes
<1>2. CASE Sandbox!Fault /\ UNCHANGED view /\ run' = [run EXCEPT ![s].st = v, ![s].broken = TRUE]
  BY <1>0, <1>2, Faulty, Breaks DEF SandboxTypes
<1> QED  BY <1>1, <1>2 DEF Sandbox!Overmounts

LEMMA DeniesInv == ASSUME SandboxInv, perUser' = perUser, NEW s \in Sessions, Sandbox!Denies(s) PROVE SandboxInv'
<1> DEFINE missing == Sandbox!Shown(s, "secret") = {0}
           place == view[s]["secret"]
<1>1. run[s].st = "deny" /\ Mounted(s) /\ Bound(s) /\ Direct(s) /\ SandboxTypes
  BY Mine DEF Sandbox!Denies, Each
<1>2. /\ Moved(s, "keep") /\ run'[s].persist = run[s].persist
      /\ run'[s].broken \/ (run'[s].broken = run[s].broken /\ view'[s]["secret"] \in {"hidden", "ro"})
      /\ sandboxFaults' \in 0..MaxFaults /\ (sandboxFaults' = 0 => sandboxFaults = 0)
      /\ view' \in [Sessions -> [Sandbox!Paths -> Place]]
      /\ \A t \in Sessions \ {s} : view'[t] = view[t]
      /\ \A q \in Sandbox!Paths \ {"secret"} : view'[s][q] = view[s][q]
  <2>1. CASE place = "ro" /\ run' = [run EXCEPT ![s].st = "keep"] /\ UNCHANGED <<view, sandboxFaults>>
    BY <1>1, <2>1, Moves DEF SandboxTypes, Step
  <2>2. CASE Sandbox!Overmounts(s, "secret", "hidden", "keep")
    BY <2>2, Overmounted DEF Step
  <2> QED  BY <2>1, <2>2 DEF Sandbox!Denies
<1>3. /\ \A p \in Sandbox!Paths : home'[p] = home[p] \/ (p = "secret" /\ home[p] = {0} /\ home'[p] = {})
      /\ home' \in [Sandbox!Paths -> Content]
  <2>1. home' = [home EXCEPT !["secret"] = IF missing /\ place = "disk" THEN {} ELSE @]
    BY DEF Sandbox!Denies, Sandbox!Absent
  <2>2. missing /\ place = "disk" => home["secret"] = {0}
    BY DEF Sandbox!Shown, Sandbox!Absent
  <2> HIDE DEF missing, place
  <2> QED  BY <2>1, <2>2, Mine DEF Content
<1>4. /\ upper' \in [Sessions -> [Sandbox!Paths -> Content]]
      /\ \A t \in Sessions \ {s} : upper'[t] = upper[t]
      /\ \A p \in Sandbox!Paths \ {"secret"} : upper'[s][p] = upper[s][p]
  <2>1. PICK c \in {{}, upper[s]["secret"]} : upper' = [upper EXCEPT ![s]["secret"] = c]
    <3>1. upper' = [upper EXCEPT ![s]["secret"] = IF missing /\ place = "upper" THEN {} ELSE upper[s]["secret"]]
      BY <1>1, Mine DEF Sandbox!Denies, Sandbox!Absent, SandboxTypes
    <3> HIDE DEF missing, place
    <3> QED  BY <3>1
  <2>2. c \in Content
    BY <2>1, Mine DEF Content
  <2> QED  BY <1>1, <2>1, <2>2, Mine DEF SandboxTypes
<1>5. Mounted(s)' /\ Bound(s)'
  BY <1>1, <1>2, <1>4, Mine DEF Mounted, Bound, Moved
<1>6. Good(s)' => Opened(s)'
  BY SMTT(30), <1>1, <1>2, Mine DEF Good, Opened, Moved, Direct
<1> QED  BY <1>1, <1>2, <1>3, <1>4, <1>5, <1>6, MountsKeep DEF Before, Step

LEMMA DeniesWriteInv == ASSUME SandboxInv, perUser' = perUser, NEW s \in Sessions, Sandbox!DeniesWrite(s) PROVE SandboxInv'
<1>1. run[s].st = "keep" /\ UNCHANGED <<home, upper>> /\ Mounted(s) /\ Bound(s) /\ Direct(s) /\ SandboxTypes
  BY Mine DEF Sandbox!DeniesWrite, Each
<1>2. /\ Moved(s, "runs") /\ run'[s].persist = run[s].persist
      /\ run'[s].broken \/ (run'[s].broken = run[s].broken /\ (view'[s]["keep"] = "ro" \/ run'[s].bare))
      /\ sandboxFaults' \in 0..MaxFaults /\ (sandboxFaults' = 0 => sandboxFaults = 0)
      /\ view' \in [Sessions -> [Sandbox!Paths -> Place]]
      /\ \A t \in Sessions \ {s} : view'[t] = view[t]
      /\ \A q \in Sandbox!Paths \ {"keep"} : view'[s][q] = view[s][q]
  <2>1. CASE run' = [run EXCEPT ![s].st = "runs", ![s].bare = TRUE] /\ UNCHANGED <<view, sandboxFaults>>
    BY <1>1, <2>1, Bares DEF SandboxTypes, Step
  <2>2. CASE Sandbox!Overmounts(s, "keep", "ro", "runs")
    BY <2>2, Overmounted DEF Step
  <2> QED  BY <2>1, <2>2 DEF Sandbox!DeniesWrite
<1>3. Mounted(s)' /\ Bound(s)'
  BY <1>1, <1>2, Mine DEF Mounted, Bound, Moved
<1>4. Good(s)' => Opened(s)'
  BY SMTT(30), <1>1, <1>2, Mine DEF Good, Opened, Moved, Direct
<1> QED  BY <1>1, <1>2, <1>3, <1>4, MountsKeep DEF Before, Step, SandboxTypes

LEMMA BindsThroughInv == ASSUME SandboxInv, perUser' = perUser, NEW s \in Sessions, Sandbox!BindsThrough(s) PROVE SandboxInv'
<1> DEFINE i == run[s].next
           p == Sandbox!Writable[i]
<1>1. /\ run[s].st = "through" /\ home' = home /\ SandboxTypes
      /\ Mounted(s) /\ Bound(s) /\ Direct(s) /\ i \in 1..3
  BY Mine DEF Sandbox!BindsThrough, Each, Mounted
<1>2. /\ p \in Dirs /\ p \in Sandbox!Paths
      /\ i = 1 => p = "cache" 
      /\ i = 2 => p = "lib"
      /\ i = 3 => p = "agent"
  BY <1>1, Mine DEF Sandbox!Writable, Dirs
<1>3. CASE /\ home[p] # {0}
           /\ view' = Sandbox!Through(s, p)
           /\ run' = [run EXCEPT ![s].next = i + 1,
                                 ![s].st = IF i = Len(Sandbox!Writable) THEN "deny" ELSE @,
                                 ![s].persist = (i = Len(Sandbox!Writable))]
           /\ UNCHANGED <<upper, sandboxFaults>>
  <2> DEFINE v == IF i = 3 THEN "deny" ELSE "through"
             next == [run[s] EXCEPT !.next = i + 1]
             goes == [next EXCEPT !.st = v]
             persists == [goes EXCEPT !.persist = (i = 3)]
  <2>1. run[s] \in Run /\ run \in [Sessions -> Run] /\ run' = [run EXCEPT ![s] = persists]
    <3>1. Len(Sandbox!Writable) = 3
      BY DEF Sandbox!Writable
    <3> QED  BY <1>1, <1>3, <3>1 DEF SandboxTypes
  <2>2. /\ next \in Run /\ next.next = i + 1 /\ next.st = run[s].st /\ next.kind = run[s].kind
        /\ next.snap = run[s].snap /\ next.clean = run[s].clean /\ next.alone = run[s].alone
        /\ next.wrote = run[s].wrote /\ next.around = run[s].around /\ next.broken = run[s].broken
    BY <1>1, <2>1 DEF Run
  <2> HIDE DEF next
  <2>3. /\ goes \in Run /\ goes.next = i + 1 /\ goes.st = v /\ goes.kind = run[s].kind
        /\ goes.snap = run[s].snap /\ goes.clean = run[s].clean /\ goes.alone = run[s].alone
        /\ goes.wrote = run[s].wrote /\ goes.around = run[s].around /\ goes.broken = run[s].broken
    BY <2>2 DEF Run, Step
  <2> HIDE DEF goes
  <2>4. /\ persists \in Run /\ persists.next = i + 1 /\ persists.st = v /\ persists.kind = run[s].kind
        /\ persists.snap = run[s].snap /\ persists.clean = run[s].clean /\ persists.alone = run[s].alone
        /\ persists.wrote = run[s].wrote /\ persists.around = run[s].around /\ persists.broken = run[s].broken
        /\ persists.persist = (i = 3)
    BY <2>3 DEF Run
  <2> HIDE DEF persists
  <2>5. /\ Moved(s, v) /\ run'[s].next = i + 1 /\ run'[s].broken = run[s].broken
        /\ run'[s].persist = (i = 3)
    BY <2>1, <2>4 DEF Moved
  <2>6. /\ view' \in [Sessions -> [Sandbox!Paths -> Place]]
        /\ \A t \in Sessions \ {s} : view'[t] = view[t]
        /\ \A q \in Sandbox!Paths : view'[s][q] = IF q \in Sandbox!Within(p) THEN "disk" ELSE view[s][q]
    BY <1>1, <1>3, Mine DEF Sandbox!Through, SandboxTypes, Place
  <2>7. /\ p \in Sandbox!Within(p) /\ "other" \notin Sandbox!Within(p)
        /\ p = "agent" => Sandbox!Within(p) = {"agent", "settings"}
    BY <1>2 DEF Sandbox!Within, Dirs
  <2>8. Mounted(s)'
    <3>1. run'[s].st = v /\ v \in {"through", "deny"} /\ (v = "through" => i < 3)
          /\ run'[s].kind = "overlay" /\ run'[s].next = i + 1 /\ i \in 1..3
          /\ run'[s].broken = run[s].broken
      BY <1>1, <1>2, <1>3, <2>5 DEF Mounted, Moved
    <3>2. /\ \A q \in Sandbox!Paths : upper'[s][q] = {0}
          /\ view'[s]["other"] = "upper"
      BY <1>1, <1>2, <1>3, <2>6, <2>7, Mine DEF Mounted
    <3> HIDE DEF v
    <3> QED
      BY <3>1, <3>2 DEF Mounted
  <2>9. Bound(s)'
    <3>1. CASE i # 3
      BY <2>5, <3>1 DEF Bound, Moved
    <3>2. CASE i = 3
      <4>1. \A q \in {"agent", "settings"} : view'[s][q] = "disk" /\ upper'[s][q] = {0}
        BY <1>1, <1>2, <1>3, <2>6, <2>7, <3>2, Mine DEF Mounted
      <4>2. run'[s].st = "deny"
        BY <2>5, <3>2 DEF Moved
      <4> QED  BY <4>1, <4>2 DEF Bound
    <3> QED  BY <3>1, <3>2
  <2>10. Good(s)' => Opened(s)'
    <3> SUFFICES ASSUME Good(s)' PROVE Opened(s)'
      OBVIOUS
    <3>1. Good(s)
      BY <1>3, <2>5 DEF Good, Moved
    <3>2. (i > 1 => view[s]["cache"] = "disk") /\ (i > 2 => view[s]["lib"] = "disk")
      BY <1>1, <3>1 DEF Direct, Opened
    <3>3. view'[s][p] = "disk" /\ \A q \in Sandbox!Paths : view[s][q] = "disk" => view'[s][q] = "disk"
      BY <1>2, <2>6, <2>7
    <3>4. Dirs = {"cache", "lib", "agent"} /\ Dirs \subseteq Sandbox!Paths
      BY Mine DEF Dirs
    <3> QED  BY <1>1, <1>2, <2>5, <3>2, <3>3, <3>4 DEF Opened, Moved
  <2>11. v \in {"through", "deny"}
    OBVIOUS
  <2> HIDE DEF v
  <2> QED  BY ZenonT(40), <1>1, <1>3, <2>5, <2>6, <2>8, <2>9, <2>10, <2>11, MountsKeep DEF Before, Step, SandboxTypes
<1>4. CASE /\ home[p] # {0} => Sandbox!Fault
           /\ home[p] = {0} => UNCHANGED sandboxFaults
           /\ IF i = 1 THEN view' = [view EXCEPT ![s] = Sandbox!Everywhere("disk")] /\ UNCHANGED upper
              ELSE /\ upper' = [upper EXCEPT ![s][p] = IF home[p] = {0} THEN {} ELSE @]
                   /\ UNCHANGED view
           /\ run' = [run EXCEPT ![s].st = "readonly"]
  <2>1. /\ Moved(s, "readonly") /\ run'[s].broken = run[s].broken
        /\ run'[s].next = run[s].next /\ run'[s].persist = run[s].persist
    BY <1>4, Moves DEF Step
  <2>2. /\ view' \in [Sessions -> [Sandbox!Paths -> Place]]
        /\ \A t \in Sessions \ {s} : view'[t] = view[t]
    BY <1>1, <1>4 DEF SandboxTypes, Place, Sandbox!Everywhere
  <2>3. /\ upper' \in [Sessions -> [Sandbox!Paths -> Content]]
        /\ \A t \in Sessions \ {s} : upper'[t] = upper[t]
    <3>1. CASE UNCHANGED upper
      BY <1>1, <3>1 DEF SandboxTypes
    <3>2. ASSUME NEW new \in {{}, upper[s][p]}, upper' = [upper EXCEPT ![s][p] = new]
          PROVE  /\ upper' \in [Sessions -> [Sandbox!Paths -> Content]]
                 /\ \A t \in Sessions \ {s} : upper'[t] = upper[t]
      <4>1. new \in Content
        BY <1>2, <3>2, Mine DEF Content
      <4> HIDE DEF p
      <4> QED  BY <1>1, <3>2, <4>1 DEF SandboxTypes
    <3> QED  BY <1>1, <1>4, <3>1, <3>2
  <2>4. sandboxFaults' \in 0..MaxFaults /\ (sandboxFaults' = 0 => sandboxFaults = 0 /\ home[p] = {0})
    BY <1>1, <1>4, Faulty DEF SandboxTypes
  <2>5. Mounted(s)' /\ Bound(s)'
    BY <1>1, <2>1 DEF Mounted, Bound, Moved
  <2>6. ~ Good(s)'
    BY <1>1, <1>2, <2>1, <2>4 DEF Good, Moved, Direct
  <2> QED  BY <1>1, <2>1, <2>2, <2>3, <2>4, <2>5, <2>6, MountsKeep DEF Before, Step, SandboxTypes
<1> QED  BY <1>3, <1>4 DEF Sandbox!BindsThrough, Sandbox!Absent

LEMMA AgentWritesInv == ASSUME SandboxInv, perUser' = perUser, NEW s \in Sessions, Sandbox!AgentWrites(s) PROVE SandboxInv'
<1>0. /\ run[s].st = "runs" /\ UNCHANGED <<view, sandboxFaults>> /\ Each(s) /\ SandboxTypes
      /\ run \in [Sessions -> Run] /\ run[s] \in Run
  BY Mine DEF Sandbox!AgentWrites, SandboxTypes
<1>1. PICK p \in Sandbox!Paths, by \in BOOLEAN :
        /\ \/ /\ by \/ view[s][p] = "disk"
              /\ home' = [home EXCEPT ![p] = (@ \ {0}) \union {s}] /\ UNCHANGED upper
           \/ /\ ~by /\ view[s][p] = "upper" /\ UNCHANGED home
              /\ upper' = [upper EXCEPT ![s][p] = (Sandbox!Shown(s, p) \ {0}) \union {s}]
        /\ run' = [run EXCEPT ![s].wrote = @ \union {p},
                              ![s].around = IF by THEN @ \union {p} ELSE @]
  BY DEF Sandbox!AgentWrites, Sandbox!Absent
<1> DEFINE far == IF by THEN run[s].around \union {p} ELSE run[s].around
           writes == [run[s] EXCEPT !.wrote = run[s].wrote \union {p}]
           more == [writes EXCEPT !.around = far]
<1>2. run' = [run EXCEPT ![s] = more]
  <2>1. writes.around = run[s].around
    BY <1>0 DEF Run
  <2> QED  BY <1>0, <1>1, <2>1
<1>2a. far \subseteq Sandbox!Paths /\ run[s].around \subseteq far /\ (by => p \in far)
       /\ far \subseteq run[s].around \union {p}
  BY <1>0 DEF Run
<1> HIDE DEF far
<1>2b. /\ writes \in Run /\ writes.st = "runs" /\ writes.kind = run[s].kind /\ writes.next = run[s].next
       /\ writes.persist = run[s].persist /\ writes.snap = run[s].snap
       /\ writes.clean = run[s].clean /\ writes.alone = run[s].alone
       /\ writes.broken = run[s].broken /\ writes.wrote = run[s].wrote \union {p}
       /\ writes.bare = run[s].bare
  BY <1>0 DEF Run
<1> HIDE DEF writes
<1>3. /\ more.around = far /\ more.bare = run[s].bare
      /\ more \in Run /\ more.st = "runs" /\ more.kind = run[s].kind /\ more.next = run[s].next
      /\ more.persist = run[s].persist /\ more.snap = run[s].snap
      /\ more.clean = run[s].clean /\ more.alone = run[s].alone
      /\ more.broken = run[s].broken /\ more.wrote = run[s].wrote \union {p}
  BY <1>2a, <1>2b DEF Run
<1> HIDE DEF more
<1>4. /\ run' \in [Sessions -> Run] /\ \A t \in Sessions \ {s} : run'[t] = run[t]
      /\ run'[s] = more
  BY <1>0, <1>2, <1>3
<1>5. /\ home' \in [Sandbox!Paths -> Content]
      /\ \A q \in Sandbox!Paths \ {p} : home'[q] = home[q]
      /\ \/ home'[p] = home[p]
         \/ (by \/ view[s][p] = "disk") /\ home'[p] = (home[p] \ {0}) \union {s}
      /\ view[s][p] = "disk" => s \in home'[p]
  BY <1>0, <1>1, Mine DEF Content
<1>6. /\ upper' \in [Sessions -> [Sandbox!Paths -> Content]]
      /\ \A t \in Sessions \ {s} : upper'[t] = upper[t]
      /\ \A q \in Sandbox!Paths : upper'[s][q] = upper[s][q] \/ view[s][q] = "upper"
  <2>1. Sandbox!Shown(s, p) \in Content
    <3>1. upper[s][p] \in Content /\ home[p] \in Content /\ {0} \in Content
      BY Mine DEF Content
    <3> QED  BY <3>1 DEF Sandbox!Shown, Sandbox!Absent
  <2>2. CASE UNCHANGED upper
    BY <1>0, <2>2 DEF SandboxTypes
  <2>3. CASE /\ view[s][p] = "upper"
             /\ upper' = [upper EXCEPT ![s][p] = (Sandbox!Shown(s, p) \ {0}) \union {s}]
    <3>1. (Sandbox!Shown(s, p) \ {0}) \union {s} \in Content
      BY <2>1 DEF Content
    <3> QED  BY <1>0, <2>3, <3>1 DEF SandboxTypes
  <2> QED  BY <1>1, <2>2, <2>3
<1>7. SandboxTypes'
  BY <1>0, <1>4, <1>5, <1>6 DEF SandboxTypes
<1>8. /\ \A q \in Sandbox!Paths, t \in Sessions \ {s} : t \in home'[q] => t \in home[q]
      /\ \A q \in Sandbox!Paths, t \in Sessions : t \in home[q] => t \in home'[q]
      /\ \A q \in Sandbox!Paths : home[q] # {0} => home'[q] # {0}
  BY <1>5, Mine, PartsAssumption
<1>9. Spares(s)
  BY <1>0, <1>3, <1>4, <1>6, <1>8, Mine DEF Spares
<1>10. Mounted(s)' /\ Bound(s)'
  BY <1>0, <1>3, <1>4, <1>6, Mine DEF Each, Mounted, Bound
<1>11. Untouched(s)'
  BY <1>3, <1>4 DEF Untouched, Before
<1>12. Direct(s)'
  BY <1>0, <1>3, <1>4, <1>5, <1>8, Mine DEF Each, Direct, Good, Opened
<1>13. Alone(s)'
  BY <1>0, <1>3, <1>4 DEF Each, Alone, Sandbox!Running
<1>14. Within(s)'
  <2>1. \A q \in Sandbox!Paths : view[s][q] # "disk" => home'[q] = home[q] \/ q \in far
    BY <1>2a, <1>5
  <2>2. far \subseteq run[s].wrote \union {p}
    BY <1>0, <1>2a DEF Each, Within
  <2> QED  BY <1>0, <1>2a, <1>3, <1>4, <2>1, <2>2, Mine DEF Each, Mounted, Within
<1> QED  BY <1>7, <1>9, <1>10, <1>11, <1>12, <1>13, <1>14, Keeps DEF Each

LEMMA ExitsInv == ASSUME SandboxInv, perUser' = perUser, NEW s \in Sessions, Sandbox!Exits(s) PROVE SandboxInv'
<1>0. /\ run[s].st = "runs" /\ UNCHANGED <<view, upper, sandboxFaults>> /\ Each(s) /\ SandboxTypes
  BY Mine DEF Sandbox!Exits
<1>1. /\ Moved(s, "exited") /\ run'[s].broken = run[s].broken
      /\ run'[s].next = run[s].next /\ run'[s].persist = run[s].persist /\ run'[s].bare = run[s].bare
  BY Moves DEF Sandbox!Exits, Step
<1>2. home' \in [Sandbox!Paths -> Content] /\ \A p \in Sandbox!Paths \ {"file"} : home'[p] = home[p]
  <2>1. home' = [p \in Sandbox!Paths |-> IF p \in Sandbox!Persisted(s) THEN upper[s][p] ELSE home[p]]
    BY DEF Sandbox!Exits
  <2>2. Sandbox!Persisted(s) \subseteq {"file"}
    BY <1>0 DEF Each, Bound, Sandbox!Persisted, Sandbox!Absent
  <2> QED  BY <2>1, <2>2, Mine
<1>3. SandboxTypes'
  BY <1>0, <1>1, <1>2 DEF SandboxTypes, Moved
<1>4. \A p \in Dirs \union {"settings", "secret", "keep", "other"} : home'[p] = home[p]
  BY <1>2, Mine
<1>5. Spares(s)
  BY <1>0, <1>1, <1>4 DEF Spares, Moved
<1>6. Mounted(s)' /\ Bound(s)' /\ Untouched(s)'
  BY <1>0, <1>1 DEF Each, Mounted, Bound, Untouched, Before, Moved
<1>7. Direct(s)'
  BY <1>0, <1>1, <1>4 DEF Each, Direct, Good, Opened, Moved, Dirs
<1>9. Within(s)'
  BY <1>0, <1>1, <1>4 DEF Each, Within, Moved
<1>8. Alone(s)'
  BY <1>0, <1>1 DEF Each, Alone, Sandbox!Running, Moved
<1> QED  BY <1>3, <1>5, <1>6, <1>7, <1>8, <1>9, Keeps DEF Each

\* Session s has ended, and its view and layer are gone.
Over(s) ==
    /\ run' \in [Sessions -> Run] /\ \A t \in Sessions \ {s} : run'[t] = run[t]
    /\ run'[s].st = "ended" /\ ~run'[s].persist /\ run'[s].snap = {0}
    /\ run'[s].kind = run[s].kind /\ run'[s].wrote = run[s].wrote
    /\ run'[s].around = run[s].around /\ run'[s].bare = run[s].bare
    /\ run'[s].clean = run[s].clean /\ run'[s].alone = run[s].alone

LEMMA RunEndedIs ==
    ASSUME NEW r \in Run
    PROVE  /\ Sandbox!Ended(r) \in Run /\ Sandbox!Ended(r).broken = r.broken
           /\ Sandbox!Ended(r).st = "ended" /\ ~Sandbox!Ended(r).persist /\ Sandbox!Ended(r).snap = {0}
           /\ Sandbox!Ended(r).kind = r.kind /\ Sandbox!Ended(r).wrote = r.wrote
           /\ Sandbox!Ended(r).around = r.around /\ Sandbox!Ended(r).bare = r.bare
           /\ Sandbox!Ended(r).clean = r.clean /\ Sandbox!Ended(r).alone = r.alone
<1> DEFINE ends == [r EXCEPT !.st = "ended"]
           nexts == [ends EXCEPT !.next = 1]
           drops == [nexts EXCEPT !.persist = FALSE]
           forgets == [drops EXCEPT !.snap = {0}]
           frees == [forgets EXCEPT !.saved = FALSE]
           Same(x) == x \in Run /\ x.broken = r.broken /\ x.st = "ended" /\ x.kind = r.kind
                      /\ x.wrote = r.wrote /\ x.around = r.around /\ x.bare = r.bare
                      /\ x.clean = r.clean /\ x.alone = r.alone
<1>1. Sandbox!Ended(r) = frees
  BY DEF Sandbox!Ended, Sandbox!Absent
<1>2. Same(ends)
  BY DEF Run, Step
<1> HIDE DEF ends
<1>3. Same(nexts)
  BY <1>2 DEF Run
<1> HIDE DEF nexts
<1>4. Same(drops) /\ drops.persist = FALSE
  BY <1>3 DEF Run
<1> HIDE DEF drops
<1>5. Same(forgets) /\ forgets.persist = FALSE /\ forgets.snap = {0}
  BY <1>4 DEF Run, Content
<1> HIDE DEF forgets
<1>6. Same(frees) /\ frees.persist = FALSE /\ frees.snap = {0}
  BY <1>5 DEF Run
<1> HIDE DEF frees
<1> QED  BY <1>1, <1>6

LEMMA OverIs ==
    ASSUME SandboxInv, NEW s \in Sessions,
           \/ run' = [run EXCEPT ![s] = Sandbox!Ended(run[s])]
           \/ run' = [run EXCEPT ![s] = [Sandbox!Ended(run[s]) EXCEPT !.broken = TRUE]]
    PROVE  /\ Over(s)
           /\ run' = [run EXCEPT ![s] = Sandbox!Ended(run[s])] => run'[s].broken = run[s].broken
           /\ run' = [run EXCEPT ![s] = [Sandbox!Ended(run[s]) EXCEPT !.broken = TRUE]] => run'[s].broken
<1> DEFINE over == Sandbox!Ended(run[s])
           lost == [over EXCEPT !.broken = TRUE]
<1>1. run[s] \in Run /\ run \in [Sessions -> Run]
  BY DEF SandboxInv, SandboxTypes
<1>2. /\ over \in Run /\ over.broken = run[s].broken
      /\ over.st = "ended" /\ ~over.persist /\ over.snap = {0}
      /\ over.kind = run[s].kind /\ over.wrote = run[s].wrote
      /\ over.around = run[s].around /\ over.bare = run[s].bare
      /\ over.clean = run[s].clean /\ over.alone = run[s].alone
  BY <1>1, RunEndedIs
<1> HIDE DEF over
<1>3. /\ lost \in Run /\ lost.broken
      /\ lost.st = "ended" /\ ~lost.persist /\ lost.snap = {0}
      /\ lost.kind = over.kind /\ lost.wrote = over.wrote
      /\ lost.around = over.around /\ lost.bare = over.bare
      /\ lost.clean = over.clean /\ lost.alone = over.alone
  BY <1>2 DEF Run
<1>4. run' = [run EXCEPT ![s] = over] \/ run' = [run EXCEPT ![s] = lost]
  BY DEF over
<1> HIDE DEF lost
<1>5. /\ run' \in [Sessions -> Run] /\ \A t \in Sessions \ {s} : run'[t] = run[t]
      /\ run'[s] = over \/ run'[s] = lost
      /\ run' = [run EXCEPT ![s] = over] => run'[s] = over
      /\ run' = [run EXCEPT ![s] = lost] => run'[s] = lost
  BY <1>1, <1>2, <1>3, <1>4
<1>6. Over(s)
  BY <1>2, <1>3, <1>5 DEF Over
<1>7. /\ run' = [run EXCEPT ![s] = over] => run'[s].broken = run[s].broken
      /\ run' = [run EXCEPT ![s] = lost] => run'[s].broken
  BY <1>2, <1>3, <1>5
<1> QED  BY <1>6, <1>7 DEF over, lost

LEMMA GoneIs ==
    ASSUME SandboxInv, perUser' = perUser, NEW s \in Sessions, Sandbox!Gone(s)
    PROVE  /\ view' \in [Sessions -> [Sandbox!Paths -> Place]]
           /\ upper' \in [Sessions -> [Sandbox!Paths -> Content]]
           /\ \A t \in Sessions \ {s} : view'[t] = view[t] /\ upper'[t] = upper[t]
           /\ \A p \in Sandbox!Paths : view'[s][p] = "disk" /\ upper'[s][p] = {0}
<1>1. view' = [view EXCEPT ![s] = [p \in Sandbox!Paths |-> "disk"]]
      /\ upper' = [upper EXCEPT ![s] = [p \in Sandbox!Paths |-> {0}]]
  BY DEF Sandbox!Gone, Sandbox!Everywhere, Sandbox!Absent
<1> QED  BY <1>1, Mine DEF SandboxTypes, Place, Content

LEMMA OverKeeps ==
    ASSUME SandboxInv, perUser' = perUser, NEW s \in Sessions, Over(s), Sandbox!Gone(s), Sandbox!Running(s),
           home' \in [Sandbox!Paths -> Content],
           \A p \in Sandbox!Paths \ {"settings"} : home'[p] = home[p],
           home'["settings"] \in {home["settings"], run[s].snap},
           sandboxFaults' \in 0..MaxFaults, sandboxFaults' = 0 => sandboxFaults = 0,
           run'[s].broken \/ (run'[s].broken = run[s].broken
                              /\ (~perUser => home'["settings"] = run[s].snap))
    PROVE  SandboxInv'
<1>0. Each(s) /\ SandboxTypes
  BY Mine
<1>1. SandboxTypes'
  BY GoneIs, PerUserIs DEF SandboxTypes, Over
<1>2. \A p \in Dirs \union {"secret", "keep", "other"} : home'[p] = home[p]
  BY Mine
<1>3. Spares(s)
  BY <1>2, GoneIs, PartsAssumption DEF Spares, Over, Sandbox!Running
<1>4. Mounted(s)' /\ Bound(s)' /\ Untouched(s)'
  BY GoneIs DEF Over, Mounted, Bound, Untouched, Before
<1>5. Direct(s)' /\ Within(s)'
  BY <1>0, <1>2 DEF Each, Direct, Good, Opened, Within, Over, Dirs, Sandbox!Running
<1>6. Alone(s)'
  <2>1. s \notin run'[s].snap
    BY PartsAssumption DEF Over
  <2>2. ASSUME run'[s].alone, ~run'[s].broken, ~perUser
        PROVE  s \notin home'["settings"] /\ \A t \in Sessions : s \notin run'[t].snap
    <3>1. run[s].alone /\ home'["settings"] = run[s].snap /\ s \notin run[s].snap
      BY <1>0, <2>2 DEF Each, Alone, Over
    <3>2. \A t \in Sessions \ {s} : run[t].snap = {0}
      <4> SUFFICES ASSUME NEW t \in Sessions \ {s} PROVE run[t].snap = {0}
        OBVIOUS
      <4>1. ~Sandbox!Running(t)
        BY <1>0, <3>1 DEF Each, Alone
      <4> QED  BY <4>1, Mine DEF Each, Alone
    <3>3. \A t \in Sessions \ {s} : run'[t].snap = {0}
      BY <3>2 DEF Over
    <3> QED  BY <2>1, <3>1, <3>3, PartsAssumption
  <2> QED  BY <2>1, <2>2 DEF Alone, Over, Sandbox!Running
<1> QED  BY <1>1, <1>3, <1>4, <1>5, <1>6, Keeps DEF Each

LEMMA RestoresInv == ASSUME SandboxInv, perUser' = perUser, NEW s \in Sessions, Sandbox!Restores(s) PROVE SandboxInv'
<1>1. /\ run[s].st = "exited" /\ Sandbox!Gone(s) /\ UNCHANGED sandboxFaults
      /\ home' = [home EXCEPT !["settings"] = IF perUser THEN home["settings"] ELSE run[s].snap]
      /\ run' = [run EXCEPT ![s] = Sandbox!Ended(run[s])]
  BY Mine DEF Sandbox!Restores, Sandbox!Restored, SandboxTypes
<1>2. Over(s) /\ run'[s].broken = run[s].broken
  BY <1>1, OverIs
<1>3. /\ home' \in [Sandbox!Paths -> Content]
      /\ home'["settings"] = IF perUser THEN home["settings"] ELSE run[s].snap
      /\ \A p \in Sandbox!Paths \ {"settings"} : home'[p] = home[p]
  BY <1>1, Mine DEF Run
<1> QED  BY <1>1, <1>2, <1>3, OverKeeps, Mine DEF Sandbox!Running, SandboxTypes

LEMMA DiesInv == ASSUME SandboxInv, perUser' = perUser, NEW s \in Sessions, Sandbox!Dies(s) PROVE SandboxInv'
<1>1. /\ Sandbox!Running(s) /\ Sandbox!Fault /\ Sandbox!Gone(s) /\ home' = home
      /\ run' = [run EXCEPT ![s] = [Sandbox!Ended(run[s]) EXCEPT !.broken = TRUE]]
  BY Mine DEF Sandbox!Dies, SandboxTypes
<1>2. Over(s) /\ run'[s].broken
  BY <1>1, OverIs
<1> QED  BY <1>1, <1>2, Faulty, OverKeeps, Mine

LEMMA StartsInv == ASSUME SandboxInv, perUser' = perUser, NEW s \in Sessions, Sandbox!Starts(s) PROVE SandboxInv'
<1>0. /\ run[s].st = "new" /\ UNCHANGED <<view, upper, sandboxFaults>> /\ Each(s) /\ SandboxTypes
  BY Mine DEF Sandbox!Starts
<1>r. PICK x \in Sandbox!Rebuilt :
        home' = [home EXCEPT !["agent"] = IF @ = {0} THEN {} ELSE @, !["settings"] = x]
  BY DEF Sandbox!Starts, Sandbox!Absent
<1>x. x \in Content /\ \A t \in Sessions : t \in x => t \in home["settings"]
  <2>1. home["settings"] \in Content
    BY Mine
  <2>2. x = home["settings"] \/ x \subseteq home["settings"] \ {0} \/ x = {0}
    BY DEF Sandbox!Rebuilt, Sandbox!Absent
  <2>3. \A t \in Sessions : t # 0
    BY PartsAssumption
  <2> QED  BY <2>1, <2>2, <2>3 DEF Content
<1> DEFINE others == \A t \in Sessions : ~Sandbox!Running(t)
           there == \A p \in Sandbox!Listed \ {"agent"} : home[p] # {0}
           before == IF perUser THEN {0} ELSE home["settings"]
<1>1. PICK k \in Sandbox!Kinds :
        run' = [t \in Sessions |->
             IF t = s THEN [Sandbox!Fresh EXCEPT
                              !.st = IF k = "jail" THEN "jail" ELSE IF k = "open" THEN "deny" ELSE "isolate",
                              !.kind = k, !.alone = others, !.snap = before, !.clean = there]
             ELSE IF Sandbox!Running(t) THEN [run[t] EXCEPT !.alone = FALSE] ELSE run[t]]
  BY DEF Sandbox!Starts, Sandbox!Absent
<1> DEFINE v == IF k = "jail" THEN "jail" ELSE IF k = "open" THEN "deny" ELSE "isolate"
           begins == [Sandbox!Fresh EXCEPT !.st = v]
           ruled == [begins EXCEPT !.kind = k]
           counts == [ruled EXCEPT !.alone = others]
           snaps == [counts EXCEPT !.snap = before]
           looks == [snaps EXCEPT !.clean = there]
<1>2. /\ run' = [t \in Sessions |-> IF t = s THEN looks
                    ELSE IF Sandbox!Running(t) THEN [run[t] EXCEPT !.alone = FALSE] ELSE run[t]]
      /\ before \in Content /\ (before = {0} \/ before = home["settings"])
  BY <1>1, Mine DEF Content
<1>3. /\ v \in {"jail", "deny", "isolate"} /\ (v = "jail" => k = "jail")
      /\ v = "deny" => k = "open"
      /\ v = "isolate" => k \in {"overlay", "bind"}
  BY DEF Sandbox!Kinds
<1> HIDE DEF v
<1>4. /\ begins \in Run /\ begins.st = v /\ begins.next = 1 /\ ~begins.persist /\ ~begins.broken
      /\ begins.wrote = {} /\ begins.around = {}
  <2>1. /\ Sandbox!Fresh \in Run /\ Sandbox!Fresh.next = 1 /\ ~Sandbox!Fresh.persist
        /\ ~Sandbox!Fresh.broken /\ Sandbox!Fresh.wrote = {} /\ Sandbox!Fresh.around = {}
    BY DEF Sandbox!Fresh, Run, Step, Sandbox!Absent, Content, Sandbox!Kinds
  <2> QED  BY <1>3, <2>1 DEF Run, Step
<1> HIDE DEF begins
<1>5. /\ ruled \in Run /\ ruled.st = v /\ ruled.next = 1 /\ ~ruled.persist /\ ~ruled.broken
      /\ ruled.wrote = {} /\ ruled.around = {} /\ ruled.kind = k
  BY <1>4 DEF Run
<1> HIDE DEF ruled
<1>6. /\ counts \in Run /\ counts.st = v /\ counts.next = 1 /\ ~counts.persist /\ ~counts.broken
      /\ counts.wrote = {} /\ counts.around = {} /\ counts.kind = k /\ counts.alone = others
  BY <1>5 DEF Run
<1> HIDE DEF counts
<1>7. /\ snaps \in Run /\ snaps.st = v /\ snaps.next = 1 /\ ~snaps.persist /\ ~snaps.broken
      /\ snaps.wrote = {} /\ snaps.around = {} /\ snaps.kind = k /\ snaps.snap = before
      /\ snaps.alone = others
  BY <1>2, <1>6 DEF Run
<1> HIDE DEF snaps
<1>8. /\ looks \in Run /\ looks.st = v /\ looks.next = 1 /\ ~looks.persist /\ ~looks.broken
      /\ looks.wrote = {} /\ looks.around = {} /\ looks.kind = k /\ looks.snap = before
      /\ looks.alone = others /\ looks.clean = there
  BY <1>7 DEF Run
<1> HIDE DEF looks
<1>9. run'[s] = looks /\ \A t \in Sessions \ {s} :
        run'[t] = IF Sandbox!Running(t) THEN [run[t] EXCEPT !.alone = FALSE] ELSE run[t]
  BY <1>2
<1>10. \A t \in Sessions \ {s} : run'[t] \in Run /\ run'[t].st = run[t].st /\ run'[t].snap = run[t].snap
         /\ (Sandbox!Running(t) => ~run'[t].alone)
  <2> SUFFICES ASSUME NEW t \in Sessions \ {s}
               PROVE  run'[t] \in Run /\ run'[t].st = run[t].st /\ run'[t].snap = run[t].snap
                      /\ (Sandbox!Running(t) => ~run'[t].alone)
    OBVIOUS
  <2>1. run[t] \in Run /\ run'[t] \in {run[t], [run[t] EXCEPT !.alone = FALSE]}
        /\ (Sandbox!Running(t) => run'[t] = [run[t] EXCEPT !.alone = FALSE])
    BY <1>9, Mine
  <2> QED  BY <2>1 DEF Run
<1>11. run' \in [Sessions -> Run]
  <2>1. \A t \in Sessions : run'[t] \in Run
    BY <1>8, <1>9, <1>10
  <2>2. run' = [t \in Sessions |-> run'[t]]
    BY <1>2
  <2> QED  BY <2>1, <2>2
<1>12. /\ home' \in [Sandbox!Paths -> Content] /\ home'["agent"] # {0} /\ home'["settings"] = x
       /\ \A p \in Sandbox!Paths \ {"agent", "settings"} : home'[p] = home[p]
       /\ \A p \in Sandbox!Paths \ {"settings"} : home[p] # {0} => home'[p] = home[p]
  BY <1>r, <1>x, Mine DEF Content, Dirs
<1>13. SandboxTypes'
  BY <1>0, <1>11, <1>12 DEF SandboxTypes
<1>14. /\ \A p \in {"secret", "keep", "other"} : home'[p] = home[p]
       /\ \A t \in Sessions : t \in home'["settings"] => t \in home["settings"]
       /\ \A p \in Dirs : home[p] # {0} => home'[p] = home[p]
       /\ \A p \in Dirs, t \in Sessions : t \in home[p] => home'[p] = home[p]
  <2>1. \A p \in {"secret", "keep", "other"} : p \in Sandbox!Paths \ {"agent", "settings"}
    BY DEF Sandbox!Paths
  <2>2. \A p \in Dirs : p \in Sandbox!Paths \ {"settings"}
    BY Mine
  <2> QED  BY <1>12, <1>x, <2>1, <2>2, PartsAssumption
<1>15. Spares(s)
  <2>1. \A t \in Sessions : t \in before => t \in home["settings"]
    BY <1>2, PartsAssumption
  <2> HIDE DEF before
  <2> QED  BY <1>0, <1>8, <1>9, <1>10, <1>14, <2>1 DEF Spares
<1>16. Mounted(s)' /\ Bound(s)'
  BY <1>0, <1>8, <1>3, <1>9 DEF Each, Mounted, Bound
<1>17. \A t \in Sessions : s \notin run'[t].snap
  <2>1. s \notin home["settings"] /\ \A t \in Sessions : s \notin run[t].snap
    BY <1>0 DEF Each, Untouched, Before, Step
  <2>2. s \notin before
    BY <1>2, <2>1, PartsAssumption
  <2> QED  BY <1>8, <1>9, <1>10, <2>1, <2>2
<1>18. Untouched(s)' /\ Within(s)'
  BY <1>0, <1>8, <1>9, <1>14, <1>17 DEF Each, Untouched, Within, Before, Step
<1>19. Direct(s)'
  <2>1. there => \A p \in Dirs : home'[p] # {0}
    BY <1>12, <1>14 DEF Sandbox!Listed, Sandbox!Writable, Dirs
  <2>2. Opened(s)' \/ v = "deny"
    BY <1>8, <1>3, <1>9 DEF Opened
  <2>3. \A p \in Dirs : view'[s][p] = "disk"
    BY <1>0, Mine DEF Each, Mounted
  <2> QED  BY <1>8, <1>3, <1>9, <1>12, <2>1, <2>2, <2>3 DEF Direct, Good, Opened
<1>20. Alone(s)'
  BY <1>8, <1>3, <1>9, <1>10, <1>17 DEF Alone, Sandbox!Running
<1> QED  BY <1>13, <1>15, <1>16, <1>18, <1>19, <1>20, Keeps DEF Each

LEMMA SandboxStep == SandboxInv /\ [Sandbox!Next]_sandboxVars => SandboxInv'
<1> SUFFICES ASSUME SandboxInv, [Sandbox!Next]_sandboxVars PROVE SandboxInv'
  OBVIOUS
<1>1. CASE UNCHANGED sandboxVars
  BY <1>1 DEF sandboxVars, SandboxInv, SandboxTypes, Each, Mounted, Bound, Untouched, Direct, Good,
     Opened, Alone, Within, Sandbox!Running
<1> QED
  BY <1>1, StartsInv, SetupJailInv, MountsOverlayInv, BindsThroughInv, ReadonlyHomeInv, DeniesInv,
     DeniesWriteInv, AgentWritesInv, ExitsInv, RestoresInv, DiesInv DEF Sandbox!Next

LEMMA SandboxSays ==
    SandboxInv => Sandbox!WritesWithin /\ Sandbox!WorkKept /\ Sandbox!SettingsRestored
<1> SUFFICES ASSUME SandboxInv
             PROVE  Sandbox!WritesWithin /\ Sandbox!WorkKept /\ Sandbox!SettingsRestored
  OBVIOUS
<1>1. \A s \in Sessions : Each(s)
  BY DEF SandboxInv
<1>2. Sandbox!WritesWithin
  BY <1>1 DEF Each, Within, Sandbox!WritesWithin
<1>3. Sandbox!WorkKept
  BY <1>1 DEF Each, Direct, Good, Sandbox!WorkKept, Dirs, Sandbox!Listed, Sandbox!Writable
<1>4. Sandbox!SettingsRestored
  BY <1>1 DEF Each, Alone, Sandbox!SettingsRestored
<1> QED  BY <1>2, <1>3, <1>4

LEMMA SandboxTypesAre == ASSUME SandboxInv PROVE Sandbox!TypeOK
<1>1. SandboxTypes
  BY DEF SandboxInv
<1>2. DOMAIN Sandbox!Writable = 1..3 /\ Len(Sandbox!Writable) = 3
  BY DEF Sandbox!Writable
<1>3. \A x \in 1..4 : x \in 1..3 \/ x = 3 + 1
  OBVIOUS
<1>4. \A s \in Sessions : run[s] \in Run /\ view[s] \in [Sandbox!Paths -> Place]
                          /\ upper[s] \in [Sandbox!Paths -> Content]
  BY <1>1 DEF SandboxTypes
<1>5. \A s \in Sessions : run[s].next \in DOMAIN Sandbox!Writable \union {Len(Sandbox!Writable) + 1}
  BY <1>2, <1>3, <1>4 DEF Run
<1>6. \A s \in Sessions : run[s].around \subseteq run[s].wrote
  BY DEF SandboxInv, Each, Within
<1> QED  BY <1>1, <1>4, <1>5, <1>6 DEF SandboxTypes, Sandbox!TypeOK, Run, Step, Content, Place, Sandbox!Absent

-----------------------------------------------------------------------------
(* WingConfig *)
Asked == [op : Settings!CliOps \cup {"none"}, who : SUBSET Users, mine : Settings!Configs,
          pc : {"idle", "save", "write", "signal"}]
Request == [pc : {"idle", "do", "save", "write"}, op : Settings!ReqOps \cup {"none"},
            from : SUBSET Users, who : SUBSET Users, snap : [Users -> Settings!Entries],
            mine : Settings!Configs]
Files == {<<>>} \cup {<<c>> : c \in Settings!Configs}
SettingsTypes ==
    /\ disk \in Files /\ conf \in Settings!Configs
    /\ allowed \in [Users -> Settings!Entries] /\ org \in 0 .. 1 /\ up \in BOOLEAN
    /\ command \in Asked /\ req \in [Requests -> Request] /\ hup \in BOOLEAN
    /\ reload \in [pc : {"idle", "keys", "paths"}, new : Settings!Configs]
    /\ sweep \in [pc : {"idle", "list", "kill"}, members : SUBSET Users, seen : SUBSET Users]
    /\ terminal \in [Users -> {"none", "starting", "running"}]
    /\ clean \in BOOLEAN
    /\ wanted \in [allow : SUBSET Users, members : SUBSET Users, org : 0 .. 1]
    /\ extra \subseteq Users /\ tried \subseteq Users /\ off \subseteq Users

NoCommand == command = Settings!IdleCli
NoRequest == \A r \in Requests : req[r] = Settings!IdleReq
NotTold == ~hup /\ reload = Settings!NoReload
NoSweeps == sweep = Settings!NoSweep
NoneStarting == \A u \in Users : terminal[u] # "starting"

\* A list with one entry at most for each user, but for those an authentication
\* has listed unasked.
Single(a) == \A u \in Users \ tried : Len(a[u]) <= 1
\* What the changes asked for.
Wants(c) == wanted.allow = Settings!Listed(c.allow) /\ wanted.members = c.members /\ Single(c.allow)

\* The file, and the daemon's copies, are as the changes asked, but for users
\* listed unasked and those allowed for this session.
Filed ==
    /\ disk # <<>> /\ Settings!Loaded.members = wanted.members
    /\ wanted.allow \subseteq Settings!Listed(Settings!Loaded.allow)
    /\ Settings!Listed(Settings!Loaded.allow) \subseteq wanted.allow \cup tried
    /\ Single(Settings!Loaded.allow)
Known ==
    /\ conf.members = wanted.members
    /\ wanted.allow \subseteq Settings!Listed(conf.allow)
    /\ Settings!Listed(conf.allow) \subseteq wanted.allow \cup tried
    /\ Settings!Listed(conf.allow) \subseteq Settings!Listed(allowed)
    /\ \A u \in Users : Len(conf.allow[u]) <= Len(allowed[u])
    /\ Single(conf.allow) /\ Single(allowed)
    /\ Settings!Listed(allowed) \ extra \subseteq wanted.allow \cup tried
Settled ==
    /\ Filed
    /\ up => Known /\ conf.locked = Settings!Loaded.locked
             /\ Settings!Listed(Settings!Loaded.allow) \subseteq Settings!Listed(conf.allow)
\* Who was taken off the folder stays out, also of the members to come.
KeptOut ==
    \A u \in off : terminal[u] = "running" =>
        Settings!MayEnter(conf.members, u) /\ Settings!MayEnter(wanted.members, u)

\* Without overlaps one thing happens at a time: nothing, or a terminal starts, ...
AtRest ==
    /\ NoCommand /\ NoRequest /\ NotTold /\ NoSweeps /\ Settled /\ KeptOut
    /\ \A u \in Users : terminal[u] = "starting" => up /\ Settings!MayEnter(conf.members, u)
\* ... a command is at work, ...
Commanded ==
    /\ NoRequest /\ NotTold /\ NoSweeps /\ NoneStarting /\ KeptOut
    /\ command.pc # "idle" /\ Wants(command.mine)
    /\ command.pc = "signal" => disk = <<command.mine>>
\* ... the daemon was told and reloads, ...
Reloads ==
    /\ NoCommand /\ NoRequest /\ NoSweeps /\ NoneStarting /\ KeptOut
    /\ up /\ disk # <<>> /\ Wants(Settings!Loaded)
    /\ IF hup THEN reload = Settings!NoReload
       ELSE /\ reload.pc # "idle" /\ reload.new = Settings!Loaded
            /\ reload.pc = "paths" =>
                  /\ conf.locked = reload.new.locked /\ conf.allow = reload.new.allow
                  /\ allowed = conf.allow /\ extra = {}
\* ... it handles a request, ...
Serves(r) ==
    /\ NoCommand /\ NotTold /\ NoSweeps /\ NoneStarting /\ up
    /\ \A q \in Requests \ {r} : req[q] = Settings!IdleReq
    /\ \/ req[r].pc = "do" /\ req[r].snap = allowed /\ Settled /\ KeptOut
       \/ /\ req[r].pc \in {"save", "write"} /\ req[r].mine = conf /\ Known
          /\ req[r].op # "paths.remove_member" => KeptOut
\* ... or it ends terminals that are no longer allowed.
Sweeps ==
    /\ NoCommand /\ NoRequest /\ NotTold /\ NoneStarting /\ up /\ Settled
    /\ sweep.pc # "idle" /\ sweep.members = conf.members
    /\ sweep.pc = "kill" => \A u \in Users : terminal[u] = "running" => u \in sweep.seen

OneAtATime == AtRest \/ Commanded \/ Reloads \/ Sweeps \/ \E r \in Requests : Serves(r)
SettingsInv ==
    /\ SettingsTypes
    /\ clean => OneAtATime

\* The lists a step makes of a user's entries.
LEMMA OneEntry ==
    /\ <<>> \in Settings!Entries /\ Len(<<>>) = 0
    /\ \A k \in {"bare", "key"} : <<k>> \in Settings!Entries /\ Len(<<k>>) = 1
  BY DEF Settings!Entries

LEMMA EntriesAre ==
    ASSUME NEW l \in Settings!Entries
    PROVE  /\ Len(l) \in Nat
           /\ Settings!OneLess(l) \in Settings!Entries
           /\ Len(Settings!OneLess(l)) = IF Len(l) > 0 THEN Len(l) - 1 ELSE 0
           /\ Append(l, "bare") \in Settings!Entries /\ Len(Append(l, "bare")) = Len(l) + 1
           /\ Settings!Keyed(l) \in Settings!Entries /\ Len(Settings!Keyed(l)) = Len(l)
           /\ "bare" \in Settings!Range(l) => Len(l) > 0
<1> USE DEF Settings!Entries
<1>1. Len(l) \in Nat
  OBVIOUS
<1>2. /\ Settings!OneLess(l) \in Settings!Entries
      /\ Len(Settings!OneLess(l)) = IF Len(l) > 0 THEN Len(l) - 1 ELSE 0
  BY DEF Settings!OneLess
<1>3. Append(l, "bare") \in Settings!Entries /\ Len(Append(l, "bare")) = Len(l) + 1
  OBVIOUS
<1>4. Settings!Keyed(l) \in Settings!Entries /\ Len(Settings!Keyed(l)) = Len(l)
  BY <1>1 DEF Settings!Keyed
<1>5. "bare" \in Settings!Range(l) => Len(l) > 0
  BY DEF Settings!Range
<1> QED  BY <1>1, <1>2, <1>3, <1>4, <1>5

\* One entry for a user who had none.
LEMMA OneMore ==
    ASSUME NEW a \in Nat, NEW b, b = a \/ (a = 0 /\ b = 1)
    PROVE  b \in Nat /\ a <= b /\ (a <= 1 => b <= 1) /\ \A c \in Nat : c <= a => c <= b
OBVIOUS

LEMMA IdleSettingsAre ==
    /\ Settings!IdleCli \in Asked /\ Settings!IdleCli.pc = "idle"
    /\ Settings!IdleReq \in Request /\ Settings!IdleReq.pc = "idle"
    /\ Settings!NoReload \in [pc : {"idle", "keys", "paths"}, new : Settings!Configs]
    /\ Settings!NoReload.pc = "idle"
    /\ Settings!NoSweep \in [pc : {"idle", "list", "kill"}, members : SUBSET Users, seen : SUBSET Users]
    /\ Settings!NoSweep.pc = "idle"
    /\ Settings!Zero \in Settings!Configs
<1>1. Settings!Nobody \in [Users -> Settings!Entries]
  BY OneEntry DEF Settings!Nobody
<1>2. Settings!Zero \in Settings!Configs
  BY <1>1 DEF Settings!Zero, Settings!Configs
<1> QED
  BY <1>1, <1>2 DEF Settings!IdleCli, Settings!IdleReq, Settings!NoReload, Settings!NoSweep, Asked, Request

\* What the file holds.
LEMMA LoadedIs ==
    ASSUME SettingsTypes
    PROVE  /\ Settings!Loaded \in Settings!Configs
           /\ disk # <<>> => disk = <<Settings!Loaded>>
BY IdleSettingsAre DEF SettingsTypes, Files, Settings!Loaded

LEMMA SettingsInit == Settings!Init => SettingsInv
<1> SUFFICES ASSUME Settings!Init PROVE SettingsInv
  OBVIOUS
<1>1. PICK m \in {{}} \cup {{u} : u \in Users}, l \in BOOLEAN, a \in {{}} \cup {{u} : u \in Users} :
        conf = [Settings!Zero EXCEPT !.members = m, !.locked = l,
                                     !.allow = [u \in Users |-> IF u \in a THEN <<"key">> ELSE <<>>]]
  BY DEF Settings!Init
<1>2. conf \in Settings!Configs
  <2>1. [u \in Users |-> IF u \in a THEN <<"key">> ELSE <<>>] \in [Users -> Settings!Entries]
    BY OneEntry
  <2>2. Settings!Zero \in Settings!Configs
    BY IdleSettingsAre
  <2> DEFINE z == [Settings!Zero EXCEPT !.members = m]
  <2>3. z \in Settings!Configs
    BY <2>2 DEF Settings!Configs
  <2> HIDE DEF z
  <2> DEFINE y == [z EXCEPT !.locked = l]
  <2>4. y \in Settings!Configs
    BY <2>3 DEF Settings!Configs
  <2> HIDE DEF y
  <2>5. [y EXCEPT !.allow = [u \in Users |-> IF u \in a THEN <<"key">> ELSE <<>>]] \in Settings!Configs
    BY <2>4, <2>1 DEF Settings!Configs
  <2>6. conf = [y EXCEPT !.allow = [u \in Users |-> IF u \in a THEN <<"key">> ELSE <<>>]]
    BY <1>1 DEF y, z
  <2> QED
    BY <2>5, <2>6
<1>3. wanted = [allow |-> Settings!Listed(conf.allow), members |-> conf.members, org |-> conf.org]
  BY DEF Settings!Init, Settings!Wanted, Settings!Listed
<1>4. Settings!Listed(conf.allow) \subseteq Users /\ conf.members \subseteq Users /\ conf.org \in 0 .. 1
      /\ conf.allow \in [Users -> Settings!Entries]
  BY <1>2 DEF Settings!Listed, Settings!Configs
<1>5. wanted \in [allow : SUBSET Users, members : SUBSET Users, org : 0 .. 1]
  BY <1>3, <1>4
<1>6. SettingsTypes
  <2>1. disk \in Files /\ conf \in Settings!Configs /\ allowed \in [Users -> Settings!Entries]
    BY <1>2, <1>4 DEF Settings!Init, Files
  <2>a. org = 0 /\ up = TRUE /\ hup = FALSE /\ clean = TRUE
    BY DEF Settings!Init
  <2>b. 0 \in 0 .. 1
    OBVIOUS
  <2>2. org \in 0 .. 1 /\ up \in BOOLEAN /\ hup \in BOOLEAN /\ clean \in BOOLEAN
    BY <2>a, <2>b, Zenon
  <2>3. command \in Asked /\ req \in [Requests -> Request]
    BY IdleSettingsAre DEF Settings!Init
  <2>4. /\ reload \in [pc : {"idle", "keys", "paths"}, new : Settings!Configs]
        /\ sweep \in [pc : {"idle", "list", "kill"}, members : SUBSET Users, seen : SUBSET Users]
    BY IdleSettingsAre DEF Settings!Init
  <2>5. terminal \in [Users -> {"none", "starting", "running"}]
        /\ extra \subseteq Users /\ tried \subseteq Users /\ off \subseteq Users
    BY DEF Settings!Init
  <2> QED
    BY <2>1, <2>2, <2>3, <2>4, <2>5, <1>5 DEF SettingsTypes
<1>7. Settings!Loaded = conf /\ disk # <<>>
  BY DEF Settings!Init, Settings!Loaded
<1>8. Settled
  <2>1. wanted.allow = Settings!Listed(conf.allow) /\ wanted.members = conf.members
    BY <1>3
  <2>2. allowed = conf.allow /\ extra = {}
    BY DEF Settings!Init
  <2>3. conf.allow = [u \in Users |-> IF u \in a THEN <<"key">> ELSE <<>>]
    BY <1>1, IdleSettingsAre DEF Settings!Configs
  <2>4. Single(conf.allow) /\ \A u \in Users : Len(conf.allow[u]) <= Len(conf.allow[u])
    BY <2>3, OneEntry DEF Single
  <2> QED
    BY <1>7, <2>1, <2>2, <2>4 DEF Settled, Filed, Known
<1>9. AtRest
  BY <1>8 DEF Settings!Init, AtRest, KeptOut, NoCommand, NoRequest, NotTold, NoSweeps
<1> QED
  BY SMTT(30), <1>6, <1>9 DEF SettingsInv, OneAtATime

\* What is at work tells which.
LEMMA AtWork ==
    ASSUME SettingsInv, clean
    PROVE  /\ Settings!Quiet => AtRest /\ NoneStarting
           /\ command.pc # "idle" => Commanded
           /\ hup \/ reload.pc # "idle" => Reloads
           /\ sweep.pc # "idle" => Sweeps
           /\ \A r \in Requests : req[r].pc # "idle" => Serves(r)
           /\ (\E u \in Users : terminal[u] = "starting") => AtRest
<1>1. OneAtATime
  BY DEF SettingsInv
<1> USE IdleSettingsAre DEF NoCommand, NoRequest, NotTold, NoSweeps, NoneStarting
<1>2. Settings!Quiet => AtRest /\ NoneStarting
  BY <1>1 DEF OneAtATime, Commanded, Reloads, Sweeps, Serves, Settings!Quiet
<1>3. command.pc # "idle" => Commanded
  BY <1>1 DEF OneAtATime, AtRest, Reloads, Sweeps, Serves
<1>4. hup \/ reload.pc # "idle" => Reloads
  BY <1>1 DEF OneAtATime, AtRest, Commanded, Sweeps, Serves
<1>5. sweep.pc # "idle" => Sweeps
  BY <1>1 DEF OneAtATime, AtRest, Commanded, Reloads, Serves
<1>6. ASSUME NEW r \in Requests, req[r].pc # "idle" PROVE Serves(r)
  BY <1>1, <1>6 DEF OneAtATime, AtRest, Commanded, Reloads, Sweeps, Serves
<1>7. (\E u \in Users : terminal[u] = "starting") => AtRest
  BY <1>1 DEF OneAtATime, Commanded, Reloads, Sweeps, Serves
<1> QED
  BY <1>2, <1>3, <1>4, <1>5, <1>6, <1>7

\* The commands leave a configuration, the folder its members or none, and nobody
\* a second entry who had none.
LEMMA AppliedIs ==
    ASSUME NEW op \in Settings!CliOps, NEW u \in Users, NEW c \in Settings!Configs
    PROVE  /\ Settings!Applied(op, u, c) \in Settings!Configs
           /\ Settings!Applied(op, u, c).members \in {c.members, {}}
           /\ \A v \in Users : Len(c.allow[v]) <= 1 => Len(Settings!Applied(op, u, c).allow[v]) <= 1
<1> USE DEF Settings!Configs
<1>0. c.allow \in [Users -> Settings!Entries] /\ c.org \in 0 .. 1
  OBVIOUS
<1> DEFINE Fine(d) == /\ d \in Settings!Configs /\ d.members \in {c.members, {}}
                      /\ \A v \in Users : Len(c.allow[v]) <= 1 => Len(d.allow[v]) <= 1
<1>1. CASE op = "allow"
  <2>1. Settings!Applied(op, u, c) = Settings!AllowUser(u, c)
    BY <1>1 DEF Settings!Applied
  <2> DEFINE x == [c EXCEPT !.allow[u] = <<"bare">>]
  <2>2. x.allow = [c.allow EXCEPT ![u] = <<"bare">>] /\ x.members = c.members
    OBVIOUS
  <2>3. x \in Settings!Configs
    BY OneEntry
  <2>4. \A v \in Users : Len(c.allow[v]) <= 1 => Len(x.allow[v]) <= 1
    BY <1>0, <2>2, OneEntry
  <2>5. [c EXCEPT !.allow[u] = <<"bare">>, !.locked = TRUE] = [x EXCEPT !.locked = TRUE]
    OBVIOUS
  <2> HIDE DEF x
  <2>6. /\ [x EXCEPT !.locked = TRUE] \in Settings!Configs
        /\ [x EXCEPT !.locked = TRUE].members = c.members
        /\ [x EXCEPT !.locked = TRUE].allow = x.allow
    BY <2>2, <2>3
  <2> QED
    BY <2>1, <2>4, <2>5, <2>6 DEF Settings!AllowUser
<1>2. CASE op = "revokeAll"
  <2>1. Settings!Applied(op, u, c) = [c EXCEPT !.allow = Settings!Nobody]
    BY <1>2 DEF Settings!Applied, Settings!RevokeAll
  <2>2. Settings!Nobody \in [Users -> Settings!Entries] /\ \A v \in Users : Len(Settings!Nobody[v]) <= 1
    BY OneEntry DEF Settings!Nobody
  <2> QED
    BY <2>1, <2>2
<1>3. CASE op = "revoke"
  <2>1. Settings!Applied(op, u, c) \in {c, [c EXCEPT !.allow[u] = <<>>]}
    BY <1>3 DEF Settings!Applied, Settings!RevokeUser
  <2> DEFINE x == [c EXCEPT !.allow[u] = <<>>]
  <2>2. x.allow = [c.allow EXCEPT ![u] = <<>>] /\ x.members = c.members
    OBVIOUS
  <2>3. x \in Settings!Configs
    BY OneEntry
  <2>4. \A v \in Users : Len(c.allow[v]) <= 1 => Len(x.allow[v]) <= 1
    BY <1>0, <2>2, OneEntry
  <2> HIDE DEF x
  <2>5. Fine(x) /\ Fine(c)
    BY <2>2, <2>3, <2>4
  <2> HIDE DEF Fine
  <2>6. Fine(Settings!Applied(op, u, c))
    BY <2>1, <2>5 DEF x
  <2> QED
    BY <2>6 DEF Fine
<1>5. CASE op \in {"lock", "unlock"}
  <2>1. Settings!Applied(op, u, c) = Settings!SetLock(op = "lock", c)
    BY <1>5 DEF Settings!Applied
  <2> QED
    BY <2>1, <1>5 DEF Settings!SetLock
<1>6. CASE op \in {"org", "paths"}
  <2>1. Settings!Applied(op, u, c) = Settings!SetConfig(op, c)
    BY <1>6 DEF Settings!Applied
  <2> QED
    BY <2>1, <1>0, <1>6 DEF Settings!SetConfig
<1> QED
  BY <1>1, <1>2, <1>3, <1>5, <1>6 DEF Settings!CliOps

LEMMA CommandGiven ==
    ASSUME SettingsInv, NEW op \in Settings!CliOps, NEW u \in Users, Settings!Command(op, u)
    PROVE  SettingsInv'
<1> DEFINE new == Settings!Applied(op, u, Settings!Loaded)
<1>1. Settings!Loaded \in Settings!Configs
  BY LoadedIs DEF SettingsInv
<1>2. /\ new \in Settings!Configs /\ new.members \in {Settings!Loaded.members, {}}
      /\ \A v \in Users : Len(Settings!Loaded.allow[v]) <= 1 => Len(new.allow[v]) <= 1
  BY <1>1, AppliedIs
<1>3. /\ clean' = (clean /\ Settings!Quiet)
      /\ \/ new = Settings!Loaded /\ command' = Settings!IdleCli
         \/ command' = [pc |-> "save", op |-> op, who |-> {u}, mine |-> new]
      /\ wanted' = Settings!Wanted(new)
      /\ UNCHANGED <<disk, conf, allowed, org, up, req, hup, reload, sweep, terminal, stops, extra, tried, off>>
  BY DEF Settings!Command, Settings!Makes
<1> HIDE DEF new
<1>4. wanted' = [allow |-> Settings!Listed(new.allow), members |-> new.members, org |-> new.org]
      /\ wanted' \in [allow : SUBSET Users, members : SUBSET Users, org : 0 .. 1]
  BY <1>2, <1>3 DEF Settings!Wanted, Settings!Listed, Settings!Configs
<1>5. SettingsTypes'
  BY <1>2, <1>3, <1>4, IdleSettingsAre DEF SettingsInv, SettingsTypes, Asked
<1>6. ASSUME clean' PROVE OneAtATime'
  <2>1. AtRest /\ NoneStarting /\ UNCHANGED Settings!Loaded
    BY <1>3, <1>6, AtWork DEF Settings!Loaded
  <2>2. KeptOut'
    BY <1>2, <1>3, <1>4, <2>1 DEF AtRest, KeptOut, Settings!MayEnter, Settled, Filed, Single
  <2>3. CASE new = Settings!Loaded /\ command' = Settings!IdleCli
    <3>1. Settled'
      BY <1>3, <1>4, <2>1, <2>3 DEF AtRest, Settled, Filed, Single, Known
    <3>2. AtRest'
      BY <1>3, <2>1, <2>2, <2>3, <3>1 DEF AtRest, NoCommand, NoRequest, NotTold, NoSweeps, NoneStarting
    <3> QED
      BY <3>2 DEF OneAtATime
  <2>4. CASE command' = [pc |-> "save", op |-> op, who |-> {u}, mine |-> new]
    <3>0. Single(new.allow) /\ tried' = tried /\ command'.mine = new /\ command'.pc = "save"
      BY <1>2, <1>3, <2>1, <2>4 DEF AtRest, Settled, Filed, Single
    <3>1. Wants(command.mine)'
      BY <1>4, <3>0 DEF Wants, Single
    <3>2. NoRequest' /\ NotTold' /\ NoSweeps' /\ NoneStarting'
      BY <1>3, <2>1 DEF AtRest, NoRequest, NotTold, NoSweeps, NoneStarting
    <3>3. Commanded'
      BY <2>2, <3>0, <3>1, <3>2 DEF Commanded
    <3> QED
      BY <3>3 DEF OneAtATime
  <2> QED
    BY <1>3, <2>3, <2>4
<1> QED
  BY <1>5, <1>6 DEF SettingsInv

LEMMA CliWorks ==
    ASSUME SettingsInv, Settings!CliTruncates \/ Settings!CliWrites \/ Settings!CliSignals \/ Settings!CliKilled
    PROVE  SettingsInv'
<1> USE DEF Settings!CliTruncates, Settings!CliWrites, Settings!CliSignals, Settings!CliKilled,
            Settings!counts, Settings!history, SettingsInv
<1>1. SettingsTypes'
  <2>1. command' \in Asked
    BY IdleSettingsAre DEF SettingsTypes, Asked
  <2>2. disk' \in Files
    BY DEF SettingsTypes, Files, Asked
  <2>3. hup' \in BOOLEAN /\ clean' \in BOOLEAN
    BY DEF SettingsTypes
  <2>4. UNCHANGED <<conf, allowed, org, up, req, reload, sweep, terminal, wanted, extra, tried, off>>
    OBVIOUS
  <2> QED
    BY <2>1, <2>2, <2>3, <2>4 DEF SettingsTypes
<1>2. ASSUME clean' PROVE OneAtATime'
  <2>1. Commanded /\ clean
    BY <1>2, AtWork, IdleSettingsAre
  <2>2. KeptOut'
    BY <1>2, <2>1 DEF Commanded, KeptOut
  <2>3. CASE Settings!CliTruncates \/ Settings!CliWrites
    <3>a. /\ command'.mine = command.mine /\ command'.pc \in {"write", "signal"}
          /\ command'.pc = "signal" => disk' = <<command.mine>>
      BY <2>3 DEF SettingsTypes, Asked
    <3>b. UNCHANGED <<req, hup, reload, sweep, terminal, wanted>>
      BY <2>3
    <3>1. Commanded'
      BY <2>1, <2>2, <3>a, <3>b DEF Commanded, Wants, Single, NoRequest, NotTold, NoSweeps, NoneStarting
    <3> QED
      BY <3>1 DEF OneAtATime
  <2>4. CASE Settings!CliSignals
    <3>1. command.pc = "signal" /\ disk = <<command.mine>> /\ Wants(command.mine)
          /\ Settings!Loaded = command.mine /\ UNCHANGED <<Settings!Loaded, disk>>
      <4>1. command.pc = "signal" /\ disk' = disk
        BY <2>4
      <4>2. disk = <<command.mine>> /\ Wants(command.mine)
        BY <2>1, <4>1 DEF Commanded
      <4> QED
        BY <4>1, <4>2 DEF Settings!Loaded
    <3>2. CASE up
      <4>a. hup' /\ command' = Settings!IdleCli
            /\ UNCHANGED <<req, up, reload, sweep, terminal, wanted>>
        BY <2>4, <3>2
      <4>1. Reloads'
        BY <2>1, <2>2, <4>a, <3>1, <3>2
           DEF Commanded, Reloads, Wants, Single, NoCommand, NoRequest, NotTold, NoSweeps, NoneStarting
      <4> QED
        BY <4>1 DEF OneAtATime
    <3>3. CASE ~up
      <4>1. Settled'
        BY <2>4, <3>1, <3>3 DEF Settled, Filed, Single, Wants
      <4>2. AtRest'
        BY <2>1, <2>2, <2>4, <3>3, <4>1
           DEF Commanded, AtRest, NoCommand, NoRequest, NotTold, NoSweeps, NoneStarting
      <4> QED
        BY <4>2 DEF OneAtATime
    <3> QED
      BY <3>2, <3>3
  <2> QED
    BY <1>2, <2>3, <2>4
<1> QED
  BY <1>1, <1>2


LEMMA ReloadsInv ==
    ASSUME SettingsInv, Settings!ReloadReads \/ Settings!ReloadKeys \/ Settings!ReloadPaths
    PROVE  SettingsInv'
<1> USE DEF SettingsInv, Settings!counts, Settings!history
<1>a. UNCHANGED <<disk, org, up, command, req, sweep, terminal, changes, stops, clean, wanted, tried>>
      /\ UNCHANGED Settings!Loaded
  BY DEF Settings!ReloadReads, Settings!ReloadKeys, Settings!ReloadPaths, Settings!Loaded
<1>b. Settings!Loaded \in Settings!Configs
  BY LoadedIs
<1>1. CASE Settings!ReloadReads
  <2>1. reload' = [pc |-> "keys", new |-> Settings!Loaded] /\ hup' = FALSE
        /\ UNCHANGED <<conf, allowed, extra, off>>
    BY <1>1 DEF Settings!ReloadReads
  <2>2. SettingsTypes'
    BY <1>a, <1>b, <2>1 DEF SettingsTypes
  <2>3. clean' => Reloads'
    BY <1>1, <1>a, <2>1, AtWork DEF Settings!ReloadReads, Reloads, KeptOut, Wants, Single, NoCommand, NoRequest, NoSweeps, NoneStarting
  <2> QED
    BY <2>2, <2>3 DEF OneAtATime
<1>2. CASE Settings!ReloadKeys
  <2> DEFINE x == [conf EXCEPT !.locked = reload.new.locked]
  <2>0. x \in Settings!Configs /\ x.locked = reload.new.locked /\ x.members = conf.members
    BY DEF SettingsTypes, Settings!Configs
  <2>1. conf' = [x EXCEPT !.allow = reload.new.allow]
    BY <1>2 DEF Settings!ReloadKeys
  <2> HIDE DEF x
  <2>2. /\ conf' \in Settings!Configs /\ conf'.locked = reload.new.locked
        /\ conf'.allow = reload.new.allow /\ conf'.members = conf.members
    BY <2>0, <2>1 DEF SettingsTypes, Settings!Configs
  <2>3. /\ allowed' = reload.new.allow /\ allowed' \in [Users -> Settings!Entries]
        /\ reload' \in [pc : {"idle", "keys", "paths"}, new : Settings!Configs]
        /\ reload'.pc = "paths" /\ reload'.new = reload.new /\ extra' = {}
        /\ UNCHANGED <<hup, off>>
    BY <1>2 DEF Settings!ReloadKeys, SettingsTypes, Settings!Configs
  <2>4. SettingsTypes'
    BY <1>a, <2>2, <2>3 DEF SettingsTypes
  <2>5. ASSUME clean' PROVE Reloads'
    <3>1. Reloads /\ ~hup
      BY <1>2, <1>a, <2>5, AtWork, IdleSettingsAre DEF Settings!ReloadKeys, Reloads
    <3> QED
      BY <1>a, <2>2, <2>3, <3>1 DEF Reloads, KeptOut, Wants, Single, NoCommand, NoRequest, NoSweeps, NoneStarting
  <2> QED
    BY <2>4, <2>5 DEF OneAtATime
<1>3. CASE Settings!ReloadPaths
  <2>1. /\ conf' \in Settings!Configs /\ conf'.members = reload.new.members
        /\ conf'.locked = conf.locked /\ conf'.allow = conf.allow
    BY <1>3 DEF Settings!ReloadPaths, SettingsTypes, Settings!Configs
  <2>2. reload' = Settings!NoReload /\ off' \subseteq off /\ UNCHANGED <<allowed, hup, extra>>
    BY <1>3 DEF Settings!ReloadPaths
  <2>3. SettingsTypes'
    BY <1>a, <2>1, <2>2, IdleSettingsAre DEF SettingsTypes
  <2>4. ASSUME clean' PROVE AtRest'
    <3>1. Reloads /\ ~hup /\ reload.new = Settings!Loaded /\ reload.pc = "paths"
      BY <1>3, <1>a, <2>4, AtWork, IdleSettingsAre DEF Settings!ReloadPaths, Reloads
    <3>2. Settled'
      BY <1>a, <2>1, <2>2, <3>1 DEF Reloads, Settled, Filed, Single, Known, Wants
    <3>3. KeptOut'
      BY <1>a, <2>1, <2>2, <3>1 DEF Reloads, KeptOut, Wants, Single
    <3> QED
      BY <1>a, <2>2, <3>1, <3>2, <3>3 DEF Reloads, AtRest, NoCommand, NoRequest, NotTold, NoSweeps, NoneStarting
  <2> QED
    BY <2>3, <2>4 DEF OneAtATime
<1> QED
  BY <1>1, <1>2, <1>3

LEMMA DaemonStopsInv ==
    ASSUME SettingsInv, Settings!DaemonStops
    PROVE  SettingsInv'
<1> USE DEF SettingsInv, Settings!DaemonStops, Settings!history
<1>1. SettingsTypes'
  BY IdleSettingsAre DEF SettingsTypes
<1>2. ASSUME clean' PROVE AtRest'
  <2>1. AtRest /\ NoneStarting /\ UNCHANGED Settings!Loaded
    BY <1>2, AtWork DEF Settings!Loaded
  <2>2. Settled'
    BY <2>1 DEF AtRest, Settled, Filed, Single
  <2>3. terminal' = terminal
    BY <2>1 DEF NoneStarting, SettingsTypes
  <2>4. KeptOut'
    BY <2>1, <2>3 DEF AtRest, KeptOut
  <2> QED
    BY <2>1, <2>2, <2>3, <2>4 DEF AtRest, NoCommand, NoRequest, NotTold, NoSweeps, NoneStarting
<1> QED
  BY <1>1, <1>2 DEF OneAtATime

LEMMA DaemonStartsInv ==
    ASSUME SettingsInv, Settings!DaemonStarts
    PROVE  SettingsInv'
<1> USE DEF SettingsInv, Settings!DaemonStarts, Settings!counts, Settings!procs
<1>a. Settings!Loaded \in Settings!Configs
  BY LoadedIs
<1>1. SettingsTypes'
  BY <1>a DEF SettingsTypes, Settings!Configs
<1>2. ASSUME clean' PROVE AtRest'
  <2>1. AtRest /\ NoneStarting /\ UNCHANGED Settings!Loaded
    BY <1>2, AtWork DEF Settings!Loaded
  <2>2. Settled'
    BY <2>1 DEF AtRest, Settled, Filed, Single, Known
  <2>4. KeptOut'
    BY <2>1 DEF AtRest, KeptOut, Settled, Filed, Single
  <2> QED
    BY <2>1, <2>2, <2>4 DEF AtRest, NoCommand, NoRequest, NotTold, NoSweeps, NoneStarting
<1> QED
  BY <1>1, <1>2 DEF OneAtATime

LEMMA ArrivesInv ==
    ASSUME SettingsInv, NEW r \in Requests, NEW op \in Settings!ReqOps, NEW u \in Users, NEW t \in Users,
           Settings!Arrives(r, op, u, t)
    PROVE  SettingsInv'
<1> USE DEF SettingsInv
<1> DEFINE v == [pc |-> "do", op |-> op, from |-> {u}, who |-> {t}, snap |-> allowed, mine |-> Settings!Zero]
<1>1. /\ up /\ req' = [req EXCEPT ![r] = v] /\ clean' = (clean /\ Settings!Quiet)
      /\ UNCHANGED <<disk, conf, allowed, org, up, command, hup, reload, sweep, terminal, stops,
                     wanted, extra, tried, off, Settings!Loaded>>
  BY DEF Settings!Arrives, Settings!Makes, Settings!history, Settings!Loaded
<1>2. v \in Request
  BY IdleSettingsAre DEF SettingsTypes, Request
<1>3. v.pc = "do" /\ v.snap = allowed
  OBVIOUS
<1> HIDE DEF v
<1>4. SettingsTypes'
  BY <1>1, <1>2 DEF SettingsTypes
<1>5. ASSUME clean' PROVE Serves(r)'
  <2>1. AtRest /\ NoneStarting
    BY <1>1, <1>5, AtWork
  <2>2. Settled' /\ KeptOut'
    BY <1>1, <2>1 DEF AtRest, Settled, Filed, Single, Known, KeptOut
  <2>3. req'[r] = v /\ \A q \in Requests \ {r} : req'[q] = req[q]
    BY <1>1 DEF SettingsTypes
  <2> QED
    BY <1>1, <1>3, <2>1, <2>2, <2>3 DEF AtRest, Serves, NoCommand, NoRequest, NotTold, NoSweeps, NoneStarting
<1> QED
  BY <1>4, <1>5 DEF OneAtATime

\* How a request ends, or goes on to save.
LEMMA RequestIs ==
    ASSUME SettingsTypes, NEW r \in Requests, NEW new \in Settings!Configs
    PROVE  /\ Settings!Finishes(r) => /\ req' \in [Requests -> Request] /\ req'[r] = Settings!IdleReq
                                      /\ \A q \in Requests \ {r} : req'[q] = req[q]
           /\ Settings!Saves(r, new) => /\ req' \in [Requests -> Request]
                                        /\ req'[r].pc = "save" /\ req'[r].mine = new
                                        /\ req'[r].op = req[r].op
                                        /\ \A q \in Requests \ {r} : req'[q] = req[q]
<1>1. ASSUME Settings!Finishes(r)
      PROVE  /\ req' \in [Requests -> Request] /\ req'[r] = Settings!IdleReq
             /\ \A q \in Requests \ {r} : req'[q] = req[q]
  BY <1>1, IdleSettingsAre DEF SettingsTypes, Settings!Finishes
<1>2. ASSUME Settings!Saves(r, new)
      PROVE  /\ req' \in [Requests -> Request]
             /\ req'[r].pc = "save" /\ req'[r].mine = new /\ req'[r].op = req[r].op
             /\ \A q \in Requests \ {r} : req'[q] = req[q]
  <2> DEFINE f == [req EXCEPT ![r].pc = "save"]
  <2>1. f \in [Requests -> Request] /\ f[r].pc = "save" /\ f[r].op = req[r].op
        /\ \A q \in Requests \ {r} : f[q] = req[q]
    BY SMTT(30) DEF SettingsTypes, Request
  <2>2. req' = [f EXCEPT ![r].mine = new]
    BY <1>2 DEF Settings!Saves
  <2> HIDE DEF f
  <2> QED
    BY ZenonT(40), <2>1, <2>2 DEF Request
<1> QED
  BY <1>1, <1>2

\* One request at a time: what is the case when it is done, or has to be saved.
LEMMA RequestEnds ==
    ASSUME SettingsTypes, NEW r \in Requests, Serves(r), req[r].pc # "idle", Settings!Finishes(r), up',
           UNCHANGED <<command, hup, reload, sweep, terminal>>, Settled', KeptOut'
    PROVE  AtRest'
<1>1. req'[r] = Settings!IdleReq /\ \A q \in Requests \ {r} : req'[q] = req[q]
  BY RequestIs, IdleSettingsAre
<1> QED
  BY <1>1 DEF Serves, AtRest, NoCommand, NoRequest, NotTold, NoSweeps, NoneStarting

LEMMA RequestSaves ==
    ASSUME SettingsTypes, NEW r \in Requests, Serves(r), NEW new \in Settings!Configs,
           Settings!Saves(r, new), conf' = new, up',
           UNCHANGED <<command, hup, reload, sweep, terminal>>, Known',
           req[r].op # "paths.remove_member" => KeptOut'
    PROVE  Serves(r)'
<1>1. req'[r].pc = "save" /\ req'[r].mine = new /\ req'[r].op = req[r].op
      /\ \A q \in Requests \ {r} : req'[q] = req[q]
  BY RequestIs
<1> QED
  BY <1>1 DEF Serves, NoCommand, NotTold, NoSweeps, NoneStarting

LEMMA AllowAddInv ==
    ASSUME SettingsInv, NEW r \in Requests, Settings!AllowAdd(r)
    PROVE  SettingsInv'
<1> USE DEF SettingsInv
<1>1. /\ UNCHANGED <<disk, conf, org, up, command, hup, reload, sweep, terminal, clean, wanted, tried, off>>
      /\ UNCHANGED Settings!Loaded /\ req[r].pc = "do" /\ Settings!Finishes(r)
  BY DEF Settings!AllowAdd, Settings!counts, Settings!Loaded
<1>2. PICK u \in req[r].who, k \in {"bare", "key"} :
        IF u \in Settings!Listed(req[r].snap) THEN UNCHANGED <<allowed, extra>>
        ELSE allowed' = [req[r].snap EXCEPT ![u] = <<k>>] /\ extra' = extra \union {u}
  BY DEF Settings!AllowAdd
<1>3. u \in Users /\ req[r].snap \in [Users -> Settings!Entries]
  BY <1>2 DEF SettingsTypes, Request
<1>4. allowed' \in [Users -> Settings!Entries] /\ extra' \subseteq Users
  BY <1>2, <1>3, OneEntry DEF SettingsTypes
<1>5. req' \in [Requests -> Request]
  BY <1>1, RequestIs, IdleSettingsAre
<1>6. SettingsTypes'
  BY <1>1, <1>4, <1>5 DEF SettingsTypes
<1>7. ASSUME clean' PROVE AtRest'
  <2>1. Serves(r) /\ req[r].snap = allowed /\ Settled /\ KeptOut /\ up
    BY <1>1, <1>7, AtWork DEF Serves
  <2>2. Settings!Listed(allowed) \subseteq Settings!Listed(allowed') /\ Settings!Listed(allowed') \ extra' \subseteq Settings!Listed(allowed) \ extra
    BY <1>2, <1>3, <2>1, OneEntry DEF Settings!Listed
  <2>4. \A v \in Users : allowed'[v] = allowed[v] \/ (Len(allowed[v]) = 0 /\ Len(allowed'[v]) = 1)
    <3>1. \A v \in Users : Len(allowed[v]) \in Nat
      BY EntriesAre DEF SettingsTypes
    <3> QED
      BY <1>2, <1>3, <2>1, <3>1, OneEntry DEF Settings!Listed
  <2>5. Single(allowed)' /\ \A v \in Users : Len(conf.allow[v]) <= Len(allowed[v])'
    <3>1. \A v \in Users : Len(allowed[v]) \in Nat /\ Len(conf.allow[v]) \in Nat
      BY EntriesAre DEF SettingsTypes, Settings!Configs
    <3>2. Single(allowed) /\ \A v \in Users : Len(conf.allow[v]) <= Len(allowed[v])
      BY <2>1 DEF Settled, Known
    <3>3. ASSUME NEW v \in Users
          PROVE  /\ Len(allowed[v]) <= 1 => Len(allowed'[v]) <= 1
                 /\ Len(conf'.allow[v]) <= Len(allowed'[v])
      <4>1. Len(allowed'[v]) = Len(allowed[v]) \/ (Len(allowed[v]) = 0 /\ Len(allowed'[v]) = 1)
        BY <2>4, Zenon
      <4>2. conf' = conf /\ Len(allowed[v]) \in Nat /\ Len(conf.allow[v]) \in Nat
            /\ Len(conf.allow[v]) <= Len(allowed[v])
        BY <1>1, <3>1, <3>2, Zenon
      <4> QED  BY <4>1, <4>2, OneMore, Zenon
    <3> QED
      BY Zenon, <1>1, <3>2, <3>3 DEF Single
  <2>3. Settled' /\ KeptOut'
    BY <1>1, <2>1, <2>2, <2>5 DEF Settled, Filed, Known, KeptOut, Single
  <2> QED
    BY <1>1, <2>1, <2>3, RequestEnds
<1> QED
  BY <1>6, <1>7 DEF OneAtATime

LEMMA AllowRemoveInv ==
    ASSUME SettingsInv, NEW r \in Requests, Settings!AllowRemove(r)
    PROVE  SettingsInv'
<1> USE DEF SettingsInv
<1>1. /\ UNCHANGED <<disk, org, up, command, hup, reload, sweep, terminal, clean, tried, off>>
      /\ UNCHANGED Settings!Loaded /\ req[r].pc = "do" /\ req[r].op = "allow.remove"
  BY DEF Settings!AllowRemove, Settings!counts, Settings!Loaded
<1>2. PICK u \in req[r].who :
        LET new == [conf EXCEPT !.allow[u] = Settings!OneLess(@)]
            kept == u \in Settings!Listed(conf.allow) IN
        /\ conf' = new
        /\ allowed' = IF ~kept /\ u \notin Settings!Listed(req[r].snap) THEN allowed
                      ELSE [req[r].snap EXCEPT ![u] = Settings!OneLess(@)]
        /\ wanted' = [wanted EXCEPT !.allow = @ \ {u}] /\ extra' = extra \ {u}
        /\ IF kept THEN Settings!Saves(r, new) ELSE Settings!Finishes(r)
  BY DEF Settings!AllowRemove
<1>3. u \in Users /\ req[r].snap \in [Users -> Settings!Entries] /\ conf \in Settings!Configs
      /\ conf.allow \in [Users -> Settings!Entries] /\ allowed \in [Users -> Settings!Entries]
  BY <1>2 DEF SettingsTypes, Request, Settings!Configs
<1> DEFINE new == [conf EXCEPT !.allow[u] = Settings!OneLess(@)]
           less == [conf.allow EXCEPT ![u] = Settings!OneLess(@)]
           kept == u \in Settings!Listed(conf.allow)
<1>4. /\ less \in [Users -> Settings!Entries]
      /\ \A v \in Users \ {u} : less[v] = conf.allow[v]
      /\ less[u] = Settings!OneLess(conf.allow[u])
  BY <1>3, EntriesAre
<1>4a. /\ new \in Settings!Configs /\ new.members = conf.members /\ new.locked = conf.locked
       /\ new.allow = less
  <2>1. new = [conf EXCEPT !.allow = less]
    BY <1>3 DEF Settings!Configs
  <2> HIDE DEF less, new
  <2> QED  BY <1>3, <1>4, <2>1 DEF Settings!Configs
<1>5. /\ conf' = new /\ extra' = extra \ {u}
      /\ IF kept THEN Settings!Saves(r, new) ELSE Settings!Finishes(r)
      /\ allowed' = IF ~kept /\ u \notin Settings!Listed(req[r].snap) THEN allowed
                    ELSE [req[r].snap EXCEPT ![u] = Settings!OneLess(@)]
  BY <1>2
<1> HIDE DEF new, less, kept
<1>6. allowed' \in [Users -> Settings!Entries]
  BY <1>3, <1>5, EntriesAre
<1>7. wanted' \in [allow : SUBSET Users, members : SUBSET Users, org : 0 .. 1]
      /\ wanted'.allow = wanted.allow \ {u} /\ wanted'.members = wanted.members
  BY <1>2 DEF SettingsTypes
<1>8. req' \in [Requests -> Request]
  BY <1>4a, <1>5, RequestIs
<1>9. SettingsTypes'
  BY <1>1, <1>4a, <1>5, <1>6, <1>7, <1>8 DEF SettingsTypes
<1>10. ASSUME clean' PROVE OneAtATime'
  <2>1. Serves(r) /\ req[r].snap = allowed /\ Settled /\ Known /\ KeptOut /\ up
    BY <1>1, <1>10, AtWork DEF Serves, Settled
  <2>2. /\ \A v \in Users \ {u} : allowed'[v] = allowed[v] /\ conf'.allow[v] = conf.allow[v]
        /\ Len(allowed'[u]) = IF Len(allowed[u]) > 0 THEN Len(allowed[u]) - 1 ELSE 0
        /\ Len(conf'.allow[u]) = IF Len(conf.allow[u]) > 0 THEN Len(conf.allow[u]) - 1 ELSE 0
        /\ \A v \in Users : Len(allowed[v]) \in Nat /\ Len(conf.allow[v]) \in Nat
    <3>1. \A v \in Users : Len(allowed[v]) \in Nat /\ Len(conf.allow[v]) \in Nat
      BY <1>3, EntriesAre
    <3>2. (allowed' = allowed /\ Len(allowed[u]) = 0) \/ allowed' = [allowed EXCEPT ![u] = Settings!OneLess(@)]
      BY <1>3, <1>5, <2>1, <3>1 DEF Settings!Listed
    <3>3. /\ \A v \in Users \ {u} : allowed'[v] = allowed[v]
          /\ Len(allowed'[u]) = IF Len(allowed[u]) > 0 THEN Len(allowed[u]) - 1 ELSE 0
      BY <1>3, <3>2, EntriesAre
    <3>4. /\ \A v \in Users \ {u} : conf'.allow[v] = conf.allow[v]
          /\ Len(conf'.allow[u]) = IF Len(conf.allow[u]) > 0 THEN Len(conf.allow[u]) - 1 ELSE 0
      <4>1. conf'.allow = less
        BY <1>4a, <1>5
      <4>2. Len(Settings!OneLess(conf.allow[u])) = IF Len(conf.allow[u]) > 0 THEN Len(conf.allow[u]) - 1 ELSE 0
        BY <1>3, EntriesAre
      <4>3. conf'.allow[u] = Settings!OneLess(conf.allow[u])
            /\ \A v \in Users \ {u} : conf'.allow[v] = conf.allow[v]
        BY <1>4, <4>1, Zenon
      <4> QED  BY <4>2, <4>3, Zenon
    <3> QED  BY <3>1, <3>3, <3>4
  <2>3. Known' /\ KeptOut'
    <3>1. ASSUME NEW v \in Users PROVE Len(conf'.allow[v]) <= Len(allowed'[v])
      <4>1. Len(conf.allow[v]) <= Len(allowed[v])
        BY <2>1 DEF Known
      <4>2. CASE v = u
        BY <2>2, <4>1, <4>2
      <4>3. CASE v # u
        BY <2>2, <4>1, <4>3
      <4> QED  BY <4>2, <4>3
    <3>2. Single(allowed)' /\ Single(conf.allow)'
      BY <1>1, <1>3, <2>1, <2>2, SMTT(30) DEF Known, Single
    <3>3. /\ Settings!Listed(conf'.allow) \subseteq (Settings!Listed(conf.allow) \ {u}) \cup tried
          /\ Settings!Listed(allowed') \subseteq (Settings!Listed(allowed) \ {u}) \cup tried
          /\ Settings!Listed(conf.allow) \ {u} \subseteq Settings!Listed(conf'.allow)
      <4>1. Single(conf.allow) /\ Single(allowed)
        BY <2>1 DEF Known
      <4> QED  BY <1>3, <2>2, <4>1 DEF Single, Settings!Listed
    <3>4. Settings!Listed(conf'.allow) \subseteq Settings!Listed(allowed')
      <4>1. \A v \in Users : Len(conf'.allow[v]) \in Nat /\ Len(allowed'[v]) \in Nat
        BY <1>3, <2>2
      <4> QED  BY <3>1, <4>1 DEF Settings!Listed
    <3>5. conf'.members = wanted'.members
      BY <1>4a, <1>5, <1>7, <2>1 DEF Known
    <3>6. /\ wanted'.allow \subseteq Settings!Listed(conf'.allow)
          /\ Settings!Listed(conf'.allow) \subseteq wanted'.allow \cup tried'
          /\ Settings!Listed(allowed') \ extra' \subseteq wanted'.allow \cup tried'
      BY <1>1, <1>5, <1>7, <2>1, <3>3 DEF Known
    <3>7. Known'
      BY <3>1, <3>2, <3>4, <3>5, <3>6 DEF Known
    <3>8. KeptOut'
      BY <1>1, <1>4a, <1>5, <1>7, <2>1 DEF KeptOut
    <3> QED  BY <3>7, <3>8
  <2>4. CASE kept
    <3>1. Serves(r)'
      BY <1>1, <1>4a, <1>5, <2>1, <2>3, <2>4, RequestSaves
    <3> QED
      BY <3>1 DEF OneAtATime
  <2>5. CASE ~kept
    <3>1. u \notin Settings!Listed(conf.allow) /\ Settings!Listed(conf'.allow) = Settings!Listed(conf.allow)
      BY <1>3, <2>2, <2>5, SMTT(30) DEF kept, Settings!Listed
    <3>2. Settled'
      BY <1>1, <1>4a, <1>5, <1>7, <2>1, <2>3, <3>1 DEF Settled, Filed, Single
    <3>3. AtRest'
      BY <1>1, <1>5, <2>1, <2>3, <2>5, <3>2, RequestEnds
    <3> QED
      BY <3>3 DEF OneAtATime
  <2> QED
    BY <2>4, <2>5
<1> QED
  BY <1>9, <1>10

LEMMA PasskeyAuthInv ==
    ASSUME SettingsInv, NEW r \in Requests, Settings!PasskeyAuth(r)
    PROVE  SettingsInv'
<1> USE DEF SettingsInv
<1>1. /\ UNCHANGED <<disk, org, up, command, hup, reload, sweep, terminal, clean, off>>
      /\ UNCHANGED Settings!Loaded /\ req[r].pc = "do" /\ req[r].op = "passkey.auth"
  BY DEF Settings!PasskeyAuth, Settings!counts, Settings!Loaded
<1> DEFINE snap == req[r].snap
           Ours(u, enrols) == IF enrols THEN [snap EXCEPT ![u] = Append(@, "bare")] ELSE snap
           Kept(u, enrols) == IF enrols THEN [conf.allow EXCEPT ![u] = Append(@, "bare")] ELSE conf.allow
           Now(u, verified, list) == IF verified THEN [list EXCEPT ![u] = Settings!Keyed(@)] ELSE list
<1>2. PICK u \in req[r].who, verified \in BOOLEAN :
        LET enrols == "bare" \notin Settings!Range(snap[u])
            mine == Ours(u, enrols)
            new == [conf EXCEPT !.allow = Now(u, verified, Kept(u, enrols))] IN
        \/ Settings!Finishes(r) /\ UNCHANGED <<conf, allowed, wanted, extra, tried>>
        \/ /\ conf' = new
           /\ allowed' = IF verified THEN [mine EXCEPT ![u] = Settings!Keyed(@)]
                         ELSE IF enrols THEN mine ELSE allowed
           /\ wanted' = IF verified /\ u \in Settings!Listed(new.allow)
                        THEN [wanted EXCEPT !.allow = @ \union {u}] ELSE wanted
           /\ extra' = IF verified THEN extra ELSE extra \union {u}
           /\ tried' = IF ~verified \/ (enrols /\ u \in Settings!Listed(snap)) THEN tried \union {u} ELSE tried
           /\ IF verified THEN Settings!Saves(r, new) ELSE Settings!Finishes(r)
  BY ZenonT(40) DEF Settings!PasskeyAuth
<1>3. u \in Users /\ snap \in [Users -> Settings!Entries]
      /\ conf \in Settings!Configs /\ conf.allow \in [Users -> Settings!Entries]
      /\ allowed \in [Users -> Settings!Entries]
  BY <1>2 DEF SettingsTypes, Request, Settings!Configs
<1>4. ASSUME clean PROVE Serves(r) /\ snap = allowed /\ Settled /\ KeptOut /\ up
  BY <1>1, <1>4, AtWork DEF Serves
<1>5. CASE Settings!Finishes(r) /\ UNCHANGED <<conf, allowed, wanted, extra, tried>>
  <2>2. req' \in [Requests -> Request]
    BY <1>3, <1>5, RequestIs
  <2>3. SettingsTypes'
    BY <1>1, <1>5, <2>2 DEF SettingsTypes
  <2>4. ASSUME clean' PROVE AtRest'
    <3>1. Settled' /\ KeptOut'
      BY <1>1, <1>4, <1>5, <2>4 DEF Settled, Filed, Known, KeptOut, Single
    <3> QED
      BY <1>1, <1>4, <1>5, <2>4, <3>1, RequestEnds
  <2> QED
    BY <2>3, <2>4 DEF OneAtATime
<1> DEFINE enrols == "bare" \notin Settings!Range(snap[u])
           mine == Ours(u, enrols)
           kept == Kept(u, enrols)
           allow == Now(u, verified, kept)
           new == [conf EXCEPT !.allow = allow]
           more == IF enrols THEN 1 ELSE 0
<1>6. CASE ~(Settings!Finishes(r) /\ UNCHANGED <<conf, allowed, wanted, extra, tried>>)
  <2>1. /\ conf' = new
        /\ allowed' = IF verified THEN [mine EXCEPT ![u] = Settings!Keyed(@)]
                      ELSE IF enrols THEN mine ELSE allowed
        /\ wanted' = IF verified /\ u \in Settings!Listed(new.allow)
                     THEN [wanted EXCEPT !.allow = @ \union {u}] ELSE wanted
        /\ extra' = IF verified THEN extra ELSE extra \union {u}
        /\ tried' = IF ~verified \/ (enrols /\ u \in Settings!Listed(snap)) THEN tried \union {u} ELSE tried
        /\ IF verified THEN Settings!Saves(r, new) ELSE Settings!Finishes(r)
    BY <1>2, <1>6
  <2>n. \A v \in Users : Len(snap[v]) \in Nat /\ Len(conf.allow[v]) \in Nat /\ Len(allowed[v]) \in Nat
    BY <1>3, EntriesAre
  <2>b. ~enrols => Len(snap[u]) > 0
    BY <1>3, EntriesAre
  <2>m. /\ mine \in [Users -> Settings!Entries] /\ Len(mine[u]) = Len(snap[u]) + more
        /\ \A v \in Users \ {u} : mine[v] = snap[v]
        /\ ~enrols => mine = snap
    <3>1. Append(snap[u], "bare") \in Settings!Entries /\ Len(Append(snap[u], "bare")) = Len(snap[u]) + 1
      BY <1>3, EntriesAre
    <3>2. enrols => mine = [snap EXCEPT ![u] = Append(snap[u], "bare")]
      BY <1>3
    <3>3. ~enrols => mine = snap
      OBVIOUS
    <3>4. (enrols => more = 1) /\ (~enrols => more = 0)
      OBVIOUS
    <3>5. Len(snap[u]) \in Nat
      BY <2>n
    <3> HIDE DEF mine, enrols, more, snap
    <3>6. CASE enrols
      <4>1. mine \in [Users -> Settings!Entries] /\ mine[u] = Append(snap[u], "bare")
        BY <1>3, <3>1, <3>2, <3>6
      <4>2. \A v \in Users \ {u} : mine[v] = snap[v]
        BY <1>3, <3>2, <3>6
      <4> QED  BY <3>1, <3>4, <3>6, <4>1, <4>2, Zenon
    <3>7. CASE ~enrols
      <4>1. Len(snap[u]) + 0 = Len(snap[u])
        BY <3>5
      <4> QED  BY <1>3, <3>3, <3>4, <3>7, <4>1, Zenon
    <3> QED  BY <3>6, <3>7, Zenon
  <2>k. /\ kept \in [Users -> Settings!Entries] /\ Len(kept[u]) = Len(conf.allow[u]) + more
        /\ \A v \in Users \ {u} : kept[v] = conf.allow[v]
    <3>1. Append(conf.allow[u], "bare") \in Settings!Entries
          /\ Len(Append(conf.allow[u], "bare")) = Len(conf.allow[u]) + 1
      BY <1>3, EntriesAre
    <3>2. enrols => kept = [conf.allow EXCEPT ![u] = Append(conf.allow[u], "bare")]
      BY <1>3
    <3>3. ~enrols => kept = conf.allow
      OBVIOUS
    <3>4. (enrols => more = 1) /\ (~enrols => more = 0)
      OBVIOUS
    <3>5. Len(conf.allow[u]) \in Nat
      BY <2>n
    <3> HIDE DEF kept, enrols, more
    <3>6. CASE enrols
      <4>1. kept \in [Users -> Settings!Entries] /\ kept[u] = Append(conf.allow[u], "bare")
        BY <1>3, <3>1, <3>2, <3>6
      <4>2. \A v \in Users \ {u} : kept[v] = conf.allow[v]
        BY <1>3, <3>2, <3>6
      <4> QED  BY <3>1, <3>4, <3>6, <4>1, <4>2, Zenon
    <3>7. CASE ~enrols
      <4>1. Len(conf.allow[u]) + 0 = Len(conf.allow[u])
        BY <3>5
      <4> QED  BY <1>3, <3>3, <3>4, <3>7, <4>1, Zenon
    <3> QED  BY <3>6, <3>7, Zenon
  <2> HIDE DEF mine, kept
  <2>3. /\ allow \in [Users -> Settings!Entries] /\ Len(allow[u]) = Len(conf.allow[u]) + more
        /\ \A v \in Users \ {u} : allow[v] = conf.allow[v]
    BY <1>3, <2>k, EntriesAre
  <2> HIDE DEF allow
  <2>4. /\ new \in Settings!Configs /\ new.allow = allow
        /\ new.members = conf.members /\ new.locked = conf.locked
    BY <1>3, <2>3 DEF Settings!Configs
  <2> HIDE DEF new
  <2>5. allowed' \in [Users -> Settings!Entries]
    BY <1>3, <2>1, <2>m, EntriesAre
  <2>6. /\ wanted' \in [allow : SUBSET Users, members : SUBSET Users, org : 0 .. 1]
        /\ wanted'.members = wanted.members
        /\ wanted'.allow = IF verified /\ u \in Settings!Listed(allow) THEN wanted.allow \cup {u} ELSE wanted.allow
    BY <1>3, <2>1, <2>4 DEF SettingsTypes
  <2>7. req' \in [Requests -> Request]
    BY <2>1, <2>4, RequestIs
  <2>t. tried' \subseteq Users /\ extra' \subseteq Users /\ tried \subseteq tried'
    BY <1>3, <2>1 DEF SettingsTypes
  <2>8. SettingsTypes'
    BY <1>1, <2>1, <2>4, <2>5, <2>6, <2>7, <2>t DEF SettingsTypes
  <2>9. ASSUME clean' PROVE OneAtATime'
    <3>1. Serves(r) /\ snap = allowed /\ Settled /\ Known /\ KeptOut /\ up
      BY <1>1, <1>4, <2>9 DEF Settled
    <3>2. /\ Len(allowed'[u]) = Len(allowed[u]) + more
          /\ \A v \in Users \ {u} : allowed'[v] = allowed[v]
      <4>1. CASE verified
        BY <1>3, <2>1, <2>m, <3>1, <4>1, EntriesAre
      <4>2. CASE ~verified
        BY <1>3, <2>1, <2>m, <3>1, <4>2
      <4> QED  BY <4>1, <4>2
    <3>n. more \in 0 .. 1 /\ (~enrols => more = 0) /\ (enrols => more = 1)
      OBVIOUS
    <3>a. u \in tried' \/ (verified /\ ~(enrols /\ Len(allowed[u]) > 0))
      BY <1>3, <2>1, <3>1 DEF Settings!Listed
    <3>b. ~enrols => Len(allowed[u]) > 0
      BY <2>b, <3>1
    <3>c. /\ extra \subseteq extra'
          /\ (~verified => u \in tried')
      BY <2>1
    <3> HIDE DEF more, enrols
    <3>4. \A v \in Users : Len(allow[v]) <= Len(allowed'[v])
      BY <1>3, <2>n, <2>3, <3>1, <3>2, <3>n DEF Known
    <3>5. Single(allowed)'
      BY <1>3, <2>n, <2>t, <3>1, <3>2, <3>n, <3>a DEF Known, Single
    <3>6. Settings!Listed(conf.allow) \subseteq Settings!Listed(allow)
          /\ Settings!Listed(allow) \subseteq Settings!Listed(conf.allow) \cup {u}
      BY <1>3, <2>n, <2>3, <3>n, SMTT(30) DEF Settings!Listed
    <3>7. /\ Settings!Listed(allowed') \subseteq Settings!Listed(allowed) \cup {u}
          /\ u \in Settings!Listed(allow) \/ u \in Settings!Listed(allowed)
      BY <1>3, <2>n, <2>3, <3>2, <3>n, <3>b DEF Settings!Listed
    <3>8. Settings!Listed(allow) \subseteq Settings!Listed(allowed')
          /\ \A v \in Users \ tried' : Len(allow[v]) <= 1
      <4>1. \A v \in Users : Len(allow[v]) \in Nat /\ Len(allowed'[v]) \in Nat
        BY <1>3, <2>3, <2>5, EntriesAre
      <4>2. \A v \in Users \ tried' : Len(allowed'[v]) <= 1
        BY <3>5 DEF Single
      <4> QED  BY <3>4, <4>1, <4>2 DEF Settings!Listed
    <3>9. /\ wanted'.allow \subseteq Settings!Listed(allow)
          /\ Settings!Listed(allow) \subseteq wanted'.allow \cup tried'
      BY <2>6, <2>t, <3>1, <3>6, <3>c DEF Known
    <3>10. Settings!Listed(allowed') \ extra' \subseteq wanted'.allow \cup tried'
      BY <2>6, <2>t, <3>1, <3>7, <3>c DEF Known
    <3>11. Known' /\ KeptOut'
      <4>1. conf'.allow = allow /\ conf'.members = conf.members
        BY <2>1, <2>4
      <4>2. Single(conf.allow)'
        BY <3>8, <4>1 DEF Single
      <4>3. conf'.members = wanted'.members
        BY <2>6, <3>1, <4>1 DEF Known
      <4>4. Known'
        BY <3>4, <3>5, <3>8, <3>9, <3>10, <4>1, <4>2, <4>3 DEF Known
      <4>5. KeptOut'
        BY <1>1, <2>6, <3>1, <4>1 DEF KeptOut
      <4> QED  BY <4>4, <4>5
    <3>12. CASE verified
      <4>1. Settings!Saves(r, new) /\ Serves(r)'
        BY <1>1, <2>1, <2>4, <3>1, <3>11, <3>12, RequestSaves
      <4> QED
        BY <4>1 DEF OneAtATime
    <3>13. CASE ~verified
      <4>1. Filed'
        BY <1>1, <2>6, <2>t, <3>1, <3>13 DEF Settled, Filed, Single
      <4>2. Settled'
        BY <1>1, <2>1, <2>4, <3>1, <3>6, <3>11, <4>1 DEF Settled
      <4>3. AtRest'
        BY <1>1, <2>1, <3>1, <3>11, <3>13, <4>2, RequestEnds
      <4> QED
        BY <4>3 DEF OneAtATime
    <3> QED
      BY <3>12, <3>13
  <2> QED
    BY <2>8, <2>9
<1> QED
  BY <1>5, <1>6

LEMMA SetMembersInv ==
    ASSUME SettingsInv, NEW r \in Requests, Settings!SetMembers(r)
    PROVE  SettingsInv'
<1> USE DEF SettingsInv
<1>1. /\ UNCHANGED <<disk, allowed, org, up, command, hup, reload, sweep, terminal, clean, extra, tried>>
      /\ UNCHANGED Settings!Loaded /\ req[r].pc = "do"
      /\ req[r].op \in {"paths.add_member", "paths.remove_member"}
  BY DEF Settings!SetMembers, Settings!counts, Settings!Loaded
<1>2. PICK u \in req[r].who :
        LET adds == req[r].op = "paths.add_member"
            new == [conf EXCEPT !.members = IF adds THEN @ \union {u} ELSE @ \ {u}] IN
        IF ~adds /\ u \notin conf.members
        THEN Settings!Finishes(r) /\ UNCHANGED <<conf, wanted, off>>
        ELSE /\ conf' = new /\ wanted' = [wanted EXCEPT !.members = new.members]
             /\ off' = IF adds THEN {} ELSE off \union {u}
             /\ Settings!Saves(r, new)
  BY DEF Settings!SetMembers
<1>3. u \in Users /\ conf \in Settings!Configs
  BY <1>2 DEF SettingsTypes, Request
<1>4. ASSUME clean PROVE Serves(r) /\ Settled /\ KeptOut /\ up
  BY <1>1, <1>4, AtWork DEF Serves
<1> DEFINE adds == req[r].op = "paths.add_member"
           new == [conf EXCEPT !.members = IF adds THEN @ \union {u} ELSE @ \ {u}]
<1>5. CASE ~adds /\ u \notin conf.members
  <2>1. Settings!Finishes(r) /\ UNCHANGED <<conf, wanted, off>>
    BY <1>2, <1>5
  <2>2. req' \in [Requests -> Request]
    BY <1>3, <2>1, RequestIs
  <2>3. SettingsTypes'
    BY <1>1, <2>1, <2>2 DEF SettingsTypes
  <2>4. ASSUME clean' PROVE AtRest'
    <3>1. Settled' /\ KeptOut'
      BY <1>1, <1>4, <2>1, <2>4 DEF Settled, Filed, Single, Known, KeptOut
    <3> QED
      BY <1>1, <1>4, <2>1, <2>4, <3>1, RequestEnds
  <2> QED
    BY <2>3, <2>4 DEF OneAtATime
<1>6. CASE adds \/ u \in conf.members
  <2>1. /\ conf' = new /\ wanted' = [wanted EXCEPT !.members = new.members]
        /\ off' = IF adds THEN {} ELSE off \union {u}
        /\ Settings!Saves(r, new)
    BY <1>2, <1>6
  <2>2. /\ new \in Settings!Configs /\ new.allow = conf.allow /\ new.locked = conf.locked
        /\ new.members \subseteq Users
    BY <1>3 DEF Settings!Configs
  <2> HIDE DEF new
  <2>3. /\ wanted' \in [allow : SUBSET Users, members : SUBSET Users, org : 0 .. 1]
        /\ wanted'.members = new.members /\ wanted'.allow = wanted.allow
    BY <2>1, <2>2 DEF SettingsTypes
  <2>4. req' \in [Requests -> Request]
    BY <2>1, <2>2, RequestIs
  <2>5. SettingsTypes'
    BY <1>1, <1>3, <2>1, <2>2, <2>3, <2>4 DEF SettingsTypes
  <2>6. ASSUME clean' PROVE Serves(r)'
    <3>1. Serves(r) /\ Known /\ up
      BY <1>1, <1>4, <2>6 DEF Settled
    <3>2. Known'
      BY <1>1, <2>1, <2>2, <2>3, <3>1 DEF Known, Single
    <3>3. req[r].op # "paths.remove_member" => KeptOut'
      BY <1>1, <2>1 DEF KeptOut
    <3> QED
      BY <1>1, <2>1, <2>2, <3>1, <3>2, <3>3, RequestSaves
  <2> QED
    BY <2>5, <2>6 DEF OneAtATime
<1> QED
  BY <1>5, <1>6

LEMMA ReqTruncatesInv ==
    ASSUME SettingsInv, NEW r \in Requests, Settings!ReqTruncates(r)
    PROVE  SettingsInv'
<1> USE DEF SettingsInv
<1>1. /\ UNCHANGED <<conf, allowed, org, up, command, hup, reload, sweep, terminal, clean,
                     wanted, extra, tried, off>>
      /\ req[r].pc = "save" /\ disk' = <<>> /\ req' = [req EXCEPT ![r].pc = "write"]
  BY DEF Settings!ReqTruncates, Settings!counts, Settings!history
<1>2. /\ req' \in [Requests -> Request] /\ req'[r].pc = "write"
      /\ req'[r].op = req[r].op /\ req'[r].mine = req[r].mine
      /\ \A q \in Requests \ {r} : req'[q] = req[q]
  <2>1. req \in [Requests -> Request] /\ req[r] \in Request
    BY DEF SettingsTypes
  <2>2. /\ [req[r] EXCEPT !.pc = "write"] \in Request
        /\ [req[r] EXCEPT !.pc = "write"].pc = "write"
        /\ [req[r] EXCEPT !.pc = "write"].op = req[r].op
        /\ [req[r] EXCEPT !.pc = "write"].mine = req[r].mine
    BY <2>1 DEF Request
  <2>3. req' = [req EXCEPT ![r] = [req[r] EXCEPT !.pc = "write"]]
    BY <1>1
  <2> QED
    BY <2>1, <2>2, <2>3
<1>3. SettingsTypes'
  BY <1>1, <1>2 DEF SettingsTypes, Files
<1>4. ASSUME clean' PROVE Serves(r)'
  <2>1. Serves(r)
    BY <1>1, <1>4, AtWork
  <2> QED
    BY <1>1, <1>2, <2>1 DEF Serves, Known, Single, KeptOut, NoCommand, NotTold, NoSweeps, NoneStarting
<1> QED
  BY <1>3, <1>4 DEF OneAtATime

LEMMA ReqWritesInv ==
    ASSUME SettingsInv, NEW r \in Requests, Settings!ReqWrites(r)
    PROVE  SettingsInv'
<1> USE DEF SettingsInv
<1>1. /\ UNCHANGED <<conf, allowed, org, up, command, hup, reload, terminal, clean,
                     wanted, extra, tried, off>>
      /\ req[r].pc = "write" /\ disk' = <<req[r].mine>> /\ Settings!Finishes(r)
      /\ IF req[r].op = "paths.remove_member"
         THEN sweep' = [pc |-> "list", members |-> conf.members, seen |-> {}]
         ELSE UNCHANGED sweep
  BY DEF Settings!ReqWrites, Settings!counts, Settings!history
<1>2. req' \in [Requests -> Request] /\ req'[r] = Settings!IdleReq
      /\ \A q \in Requests \ {r} : req'[q] = req[q]
  BY <1>1, RequestIs, IdleSettingsAre
<1>3. disk' \in Files /\ disk' # <<>> /\ Settings!Loaded' = req[r].mine
  BY <1>1 DEF SettingsTypes, Request, Files, Settings!Loaded
<1>4. sweep' \in [pc : {"idle", "list", "kill"}, members : SUBSET Users, seen : SUBSET Users]
  BY <1>1 DEF SettingsTypes, Settings!Configs
<1>5. SettingsTypes'
  BY <1>1, <1>2, <1>3, <1>4 DEF SettingsTypes
<1>6. ASSUME clean' PROVE OneAtATime'
  <2>1. Serves(r) /\ req[r].mine = conf /\ Known /\ up
        /\ (req[r].op # "paths.remove_member" => KeptOut)
    BY <1>1, <1>6, AtWork DEF Serves
  <2>2. Settled'
    BY <1>1, <1>3, <2>1 DEF Settled, Filed, Single, Known
  <2>3. CASE req[r].op = "paths.remove_member"
    <3>1. Sweeps'
      BY <1>1, <1>2, <2>1, <2>2, <2>3 DEF Serves, Sweeps, NoCommand, NoRequest, NotTold, NoneStarting
    <3> QED
      BY <3>1 DEF OneAtATime
  <2>4. CASE req[r].op # "paths.remove_member"
    <3>1. KeptOut'
      BY <1>1, <2>1, <2>4 DEF KeptOut
    <3>2. AtRest'
      BY <1>1, <2>1, <2>2, <2>4, <3>1, RequestEnds
    <3> QED
      BY <3>2 DEF OneAtATime
  <2> QED
    BY <2>3, <2>4
<1> QED
  BY <1>5, <1>6

LEMMA PasskeyRegisteredInv ==
    ASSUME SettingsInv, NEW u \in Users, Settings!PasskeyRegistered(u)
    PROVE  SettingsInv'
<1> USE DEF SettingsInv
<1>1. /\ UNCHANGED <<disk, conf, org, up, command, req, hup, reload, sweep, terminal, wanted, tried, off>>
      /\ UNCHANGED Settings!Loaded /\ clean' = (clean /\ Settings!Quiet)
      /\ IF u \in conf.members /\ u \notin Settings!Listed(allowed)
         THEN allowed' = [allowed EXCEPT ![u] = <<"bare">>] /\ extra' = extra \union {u}
         ELSE UNCHANGED <<allowed, extra>>
  BY DEF Settings!PasskeyRegistered, Settings!Makes, Settings!procs, Settings!Loaded
<1>2. allowed' \in [Users -> Settings!Entries] /\ extra' \subseteq Users
      /\ Settings!Listed(allowed) \subseteq Settings!Listed(allowed') /\ Settings!Listed(allowed') \ extra' \subseteq Settings!Listed(allowed) \ extra
  BY <1>1, OneEntry DEF SettingsTypes, Settings!Listed
<1>2a. \A v \in Users : allowed'[v] = allowed[v] \/ (Len(allowed[v]) = 0 /\ Len(allowed'[v]) = 1)
  <2>1. \A v \in Users : Len(allowed[v]) \in Nat
    BY EntriesAre DEF SettingsTypes
  <2> QED
    BY <1>1, <2>1, OneEntry DEF SettingsTypes, Settings!Listed
<1>3. SettingsTypes'
  BY <1>1, <1>2 DEF SettingsTypes
<1>4. ASSUME clean' PROVE AtRest'
  <2>1. AtRest /\ NoneStarting
    BY <1>1, <1>4, AtWork
  <2>3. up => Single(allowed)' /\ \A v \in Users : Len(conf.allow[v]) <= Len(allowed[v])'
    <3>1. \A v \in Users : Len(allowed[v]) \in Nat /\ Len(conf.allow[v]) \in Nat
      BY EntriesAre DEF SettingsTypes, Settings!Configs
    <3>3. up => Single(allowed) /\ \A v \in Users : Len(conf.allow[v]) <= Len(allowed[v])
      BY <2>1 DEF AtRest, Settled, Known
    <3>4. ASSUME up, NEW v \in Users
          PROVE  /\ Len(allowed[v]) <= 1 => Len(allowed'[v]) <= 1
                 /\ Len(conf'.allow[v]) <= Len(allowed'[v])
      <4>1. Len(allowed'[v]) = Len(allowed[v]) \/ (Len(allowed[v]) = 0 /\ Len(allowed'[v]) = 1)
        BY <1>2a, Zenon
      <4>2. conf' = conf /\ Len(allowed[v]) \in Nat /\ Len(conf.allow[v]) \in Nat
            /\ Len(conf.allow[v]) <= Len(allowed[v])
        BY <1>1, <3>1, <3>3, <3>4, Zenon
      <4> QED  BY <4>1, <4>2, OneMore, ZenonT(40)
    <3> QED
      BY Zenon, <1>1, <3>3, <3>4 DEF Single
  <2>2. Settled' /\ KeptOut'
    BY <1>1, <1>2, <2>1, <2>3 DEF AtRest, Settled, Filed, Known, KeptOut, Single
  <2> QED
    BY <1>1, <2>1, <2>2 DEF AtRest, NoCommand, NoRequest, NotTold, NoSweeps, NoneStarting
<1> QED
  BY <1>3, <1>4 DEF OneAtATime

LEMMA TerminalStarts ==
    ASSUME SettingsInv, NEW u \in Users, Settings!Starts(u)
    PROVE  SettingsInv'
<1> USE DEF SettingsInv
<1>1. /\ UNCHANGED <<disk, conf, allowed, org, up, command, req, hup, reload, sweep, wanted, extra, tried, off>>
      /\ UNCHANGED Settings!Loaded /\ clean' = (clean /\ Settings!Quiet)
      /\ up /\ Settings!MayEnter(conf.members, u)
      /\ terminal' = [terminal EXCEPT ![u] = "starting"]
  BY DEF Settings!Starts, Settings!procs, Settings!counts, Settings!history, Settings!Loaded
<1>2. SettingsTypes'
  BY <1>1 DEF SettingsTypes
<1>3. ASSUME clean' PROVE AtRest'
  <2>1. AtRest /\ NoneStarting
    BY <1>1, <1>3, AtWork
  <2>2. Settled' /\ KeptOut'
    BY <1>1, <2>1 DEF AtRest, Settled, Filed, Single, Known, KeptOut, SettingsTypes
  <2> QED
    BY <1>1, <2>1, <2>2 DEF AtRest, NoCommand, NoRequest, NotTold, NoSweeps, NoneStarting, SettingsTypes
<1> QED
  BY <1>2, <1>3 DEF OneAtATime

LEMMA TerminalRuns ==
    ASSUME SettingsInv, NEW u \in Users, Settings!Runs(u)
    PROVE  SettingsInv'
<1> USE DEF SettingsInv
<1>1. /\ UNCHANGED <<disk, conf, allowed, org, up, command, req, hup, reload, sweep, clean,
                     wanted, extra, tried, off>>
      /\ UNCHANGED Settings!Loaded
      /\ terminal[u] = "starting" /\ terminal' = [terminal EXCEPT ![u] = "running"]
  BY DEF Settings!Runs, Settings!procs, Settings!counts, Settings!history, Settings!Loaded
<1>2. SettingsTypes'
  BY <1>1 DEF SettingsTypes
<1>3. ASSUME clean' PROVE AtRest'
  <2>1. AtRest /\ up /\ Settings!MayEnter(conf.members, u) /\ conf.members = wanted.members
    BY <1>1, <1>3, AtWork DEF AtRest, Settled, Known, Single
  <2>2. Settled' /\ KeptOut'
    BY <1>1, <2>1 DEF AtRest, Settled, Filed, Single, Known, KeptOut, SettingsTypes
  <2> QED
    BY <1>1, <2>1, <2>2 DEF AtRest, NoCommand, NoRequest, NotTold, NoSweeps, SettingsTypes
<1> QED
  BY <1>2, <1>3 DEF OneAtATime

LEMMA TerminalEnds ==
    ASSUME SettingsInv, NEW u \in Users, Settings!Ends(u)
    PROVE  SettingsInv'
<1> USE DEF SettingsInv
<1>1. /\ UNCHANGED <<disk, conf, allowed, org, up, command, req, hup, reload, sweep, clean,
                     wanted, extra, tried, off>>
      /\ UNCHANGED Settings!Loaded
      /\ terminal' = [terminal EXCEPT ![u] = "none"]
  BY DEF Settings!Ends, Settings!procs, Settings!counts, Settings!history, Settings!Loaded
<1>2. SettingsTypes'
  BY <1>1 DEF SettingsTypes
<1>3. /\ \A v \in Users : terminal'[v] = "running" => terminal[v] = "running"
      /\ \A v \in Users : terminal'[v] = "starting" => terminal[v] = "starting"
  BY <1>1 DEF SettingsTypes
<1>4. ASSUME clean' PROVE OneAtATime'
  <2>1. OneAtATime
    BY <1>1, <1>4
  <2>2. (KeptOut => KeptOut') /\ (Settled => Settled') /\ (Known => Known') /\ (NoneStarting => NoneStarting')
    BY <1>1, <1>3 DEF KeptOut, Settled, Filed, Single, Known, NoneStarting, SettingsTypes
  <2>3. CASE AtRest
    <3>1. AtRest'
      BY <1>1, <1>3, <2>2, <2>3 DEF AtRest, NoCommand, NoRequest, NotTold, NoSweeps
    <3> QED
      BY <3>1 DEF OneAtATime
  <2>4. CASE Commanded
    <3>1. Commanded'
      BY <1>1, <2>2, <2>4 DEF Commanded, Wants, Single, NoRequest, NotTold, NoSweeps
    <3> QED
      BY <3>1 DEF OneAtATime
  <2>5. CASE Reloads
    <3>1. Reloads'
      BY <1>1, <2>2, <2>5 DEF Reloads, Wants, Single, NoCommand, NoRequest, NoSweeps
    <3> QED
      BY <3>1 DEF OneAtATime
  <2>6. CASE Sweeps
    <3>1. Sweeps'
      BY <1>1, <1>3, <2>2, <2>6 DEF Sweeps, NoCommand, NoRequest, NotTold
    <3> QED
      BY <3>1 DEF OneAtATime
  <2>7. ASSUME NEW r \in Requests, Serves(r) PROVE OneAtATime'
    <3>1. Serves(r)'
      BY <1>1, <2>2, <2>7 DEF Serves, NoCommand, NotTold, NoSweeps
    <3> QED
      BY <3>1 DEF OneAtATime
  <2> QED
    BY <2>1, <2>3, <2>4, <2>5, <2>6, <2>7 DEF OneAtATime
<1> QED
  BY <1>2, <1>4

LEMMA SweepInv ==
    ASSUME SettingsInv, Settings!SweepLists \/ Settings!SweepKills
    PROVE  SettingsInv'
<1> USE DEF SettingsInv
<1>1. /\ UNCHANGED <<disk, conf, allowed, org, up, command, req, hup, reload, clean,
                     wanted, extra, tried, off>>
      /\ UNCHANGED Settings!Loaded /\ sweep.pc # "idle"
  BY DEF Settings!SweepLists, Settings!SweepKills, Settings!counts, Settings!history, Settings!Loaded
<1>2. ASSUME clean' PROVE Sweeps
  BY <1>1, <1>2, AtWork
<1>3. CASE Settings!SweepLists
  <2> DEFINE seen == {u \in Users : terminal[u] = "running"}
  <2>1. sweep' = [sweep EXCEPT !.pc = "kill", !.seen = seen] /\ terminal' = terminal
    BY <1>3 DEF Settings!SweepLists
  <2> DEFINE x == [sweep EXCEPT !.pc = "kill"]
  <2>2. x \in [pc : {"idle", "list", "kill"}, members : SUBSET Users, seen : SUBSET Users]
        /\ x.pc = "kill" /\ x.members = sweep.members
    BY DEF SettingsTypes
  <2>3. sweep' = [x EXCEPT !.seen = seen]
    BY <2>1
  <2>4. seen \subseteq Users /\ \A u \in Users : terminal[u] = "running" => u \in seen
    OBVIOUS
  <2> HIDE DEF x, seen
  <2>5. sweep' \in [pc : {"idle", "list", "kill"}, members : SUBSET Users, seen : SUBSET Users]
        /\ sweep'.pc = "kill" /\ sweep'.members = sweep.members /\ sweep'.seen = seen
    BY <2>2, <2>3, <2>4
  <2>6. SettingsTypes'
    BY <1>1, <2>1, <2>5 DEF SettingsTypes
  <2>7. clean' => Sweeps'
    BY <1>1, <1>2, <2>1, <2>4, <2>5
       DEF Sweeps, Settled, Filed, Single, Known, NoCommand, NoRequest, NotTold, NoneStarting
  <2> QED
    BY <2>6, <2>7 DEF OneAtATime
<1>4. CASE Settings!SweepKills
  <2>1. /\ sweep' = Settings!NoSweep /\ sweep.pc = "kill"
        /\ terminal' = [u \in Users |-> IF u \in sweep.seen /\ ~Settings!MayEnter(sweep.members, u)
                                        THEN "none" ELSE terminal[u]]
    BY <1>4 DEF Settings!SweepKills
  <2>2. SettingsTypes'
    BY <1>1, <2>1, IdleSettingsAre DEF SettingsTypes
  <2>3. ASSUME clean' PROVE AtRest'
    <3>1. Sweeps /\ Settled' /\ conf.members = wanted.members
      BY <1>1, <1>2, <2>3 DEF Sweeps, Settled, Filed, Single, Known
    <3>2. KeptOut'
      BY <1>1, <2>1, <3>1 DEF Sweeps, KeptOut, SettingsTypes
    <3> QED
      BY <1>1, <2>1, <3>1, <3>2 DEF Sweeps, AtRest, NoCommand, NoRequest, NotTold, NoSweeps, NoneStarting
  <2> QED
    BY <2>2, <2>3 DEF OneAtATime
<1> QED
  BY <1>3, <1>4

LEMMA SettingsStep == SettingsInv /\ [Settings!Next]_settingsVars => SettingsInv'
<1> SUFFICES ASSUME SettingsInv, [Settings!Next]_settingsVars PROVE SettingsInv'
  OBVIOUS
<1>1. CASE UNCHANGED settingsVars
  BY <1>1 DEF settingsVars, SettingsInv, SettingsTypes, OneAtATime, AtRest, Commanded, Reloads, Serves, Sweeps,
              Settled, Filed, Single, Known, KeptOut, Wants, Settings!Loaded,
              NoCommand, NoRequest, NotTold, NoSweeps, NoneStarting
<1>2. ASSUME NEW r \in Requests, Settings!Handle(r) PROVE SettingsInv'
  BY <1>2, AllowAddInv, AllowRemoveInv, PasskeyAuthInv, SetMembersInv, ReqTruncatesInv, ReqWritesInv,
     ArrivesInv DEF Settings!Handle
<1>3. CASE Settings!Next
  BY <1>2, <1>3, CommandGiven, CliWorks, ReloadsInv, DaemonStopsInv, DaemonStartsInv, PasskeyRegisteredInv,
     TerminalStarts, TerminalRuns, TerminalEnds, SweepInv DEF Settings!Next
<1> QED
  BY <1>1, <1>3

LEMMA SettingsSay == SettingsInv => Settings!ChangesLand /\ Settings!AclEnforced
<1> SUFFICES ASSUME SettingsInv, clean, Settings!Quiet
             PROVE  Settings!ChangesLand /\ Settings!AclEnforced
  BY DEF Settings!ChangesLand, Settings!AclEnforced
<1>1. AtRest
  BY AtWork
<1>2. Settings!ChangesLand
  BY <1>1 DEF AtRest, Settled, Filed, Single, Known, Settings!Listed, Settings!ChangesLand, SettingsInv, SettingsTypes
<1>3. Settings!AclEnforced
  BY <1>1 DEF AtRest, KeptOut, Settings!AclEnforced
<1> QED
  BY <1>2, <1>3

LEMMA SettingsTypesAre == ASSUME SettingsInv PROVE Settings!TypeOK
<1>1. SettingsTypes
  BY DEF SettingsInv
<1>2. \A r \in Requests : req[r] \in Request
  BY <1>1 DEF SettingsTypes
<1>3. disk \in Seq(Settings!Configs) /\ Len(disk) <= 1
  <2>1. <<>> \in Seq(Settings!Configs) /\ Len(<<>>) <= 1
    OBVIOUS
  <2>2. \A c \in Settings!Configs : <<c>> \in Seq(Settings!Configs) /\ Len(<<c>>) <= 1
    OBVIOUS
  <2>3. disk = <<>> \/ \E c \in Settings!Configs : disk = <<c>>
    BY <1>1 DEF SettingsTypes, Files
  <2> QED  BY <2>1, <2>2, <2>3, Zenon
<1>4. \A r \in Requests : req[r].mine \in Settings!Configs /\ req[r].snap \in [Users -> Settings!Entries]
  BY <1>2 DEF Request
<1> QED  BY <1>1, <1>3, <1>4 DEF SettingsTypes, Settings!TypeOK, Asked

-----------------------------------------------------------------------------
(* ChatHistory *)
Pcs == {"idle", "finding", "found", "writing", "closing", "renaming", "meta", "done"}
Text == [of : History!Convs \cup {"torn", "none"}, n : Nat]
Captor == [pc : Pcs, conv : History!Convs \cup {"none"}, what : Text,
           ino : History!Inodes \cup {0}]
Cap(p, c, w, i) == [pc |-> p, conv |-> c, what |-> w, ino |-> i]

PastTypes == [overlap : BOOLEAN, failed : BOOLEAN, others : BOOLEAN,
              captured : BOOLEAN, stopped : BOOLEAN, resumed : BOOLEAN, cut : BOOLEAN]
Source == History!Convs \cup {"torn", "none"}
HistoryTypes ==
    /\ chatHome \in [History!Convs -> Text] /\ newest \in History!Convs \cup {"none"}
    /\ egg \in {"up", "stopping", "removing", "leaving", "gone"} /\ agent \in {"runs", "done"}
    /\ captors \in [History!Captors -> Captor]
    /\ inodes \in [History!Inodes -> [head : Text, tail : Text]]
    /\ dir \in [tmp : History!Inodes \cup {0}, chat : History!Inodes \cup {0},
                meta : History!Convs \cup {"none"}]
    /\ sync \in [of : Source, copy : Source]
    /\ ticks \in 0 .. MaxTicks
    /\ past \in PastTypes

\* A capture that has found a file knows of which conversation it is, the final
\* one has begun exactly if the agent has exited, and none outlives the egg.
Stages ==
    /\ egg = "gone" => \A k \in History!Captors : captors[k] = History!Idle
    /\ \A k \in History!Captors :
          captors[k].pc \notin {"idle", "finding", "done"} => captors[k].conv \in History!Convs
    /\ egg # "gone" => (captors["final"].pc = "idle" <=> agent = "runs")
    /\ egg = "stopping" => past.stopped
    /\ egg \in {"removing", "leaving"} => /\ ~past.captured
                                         /\ (past.stopped \/ captors["final"].pc = "done")
    /\ past.resumed => egg = "gone"
    /\ ~past.resumed => \A c \in History!Convs : chatHome[c].of = c

\* Each capture writes one file at most, so there is one left for the next.
Used == {i \in History!Inodes : inodes[i].head # History!Empty}
Allowed == ticks + (IF captors["final"].pc \in {"idle", "finding", "found"} THEN 0 ELSE 1)
                 - (IF captors["ticker"].pc \in {"finding", "found"} THEN 1 ELSE 0)
Names ==
    /\ dir.tmp # 0 => dir.tmp \in Used /\ dir.tmp # dir.chat
    /\ dir.chat # 0 => dir.chat \in Used
    /\ past.captured => dir.chat # 0
    /\ \A k \in History!Captors : History!Writing(k) => captors[k].ino \in Used
Spare == egg # "gone" => Cardinality(Used) <= Allowed

\* Without an overlap the temporary file is that of the one capture which writes,
\* unless cleanup has taken its name away.
TempFile(k) ==
    \/ dir.tmp = 0 /\ dir.chat = 0 /\ egg = "leaving"
    \/ /\ captors[k].ino = dir.tmp /\ dir.tmp # 0
       /\ captors[k].pc # "writing" =>
             /\ inodes[dir.tmp].head = captors[k].what /\ captors[k].what.of \in History!Convs
             /\ (captors[k].pc = "renaming" => inodes[dir.tmp].tail = captors[k].what)
Whole ==
    /\ \A k, q \in History!Captors : History!Writing(k) /\ History!Writing(q) => k = q
    /\ \A k \in History!Captors : History!Writing(k) => TempFile(k)
    /\ dir.chat # 0 => /\ inodes[dir.chat].head = inodes[dir.chat].tail
                       /\ inodes[dir.chat].head.of \in History!Convs
    /\ sync.of \in History!Convs \cup {"none"}
    /\ sync.of = "none" /\ ~past.cut => sync.copy \in History!Convs \cup {"none"}

\* The final capture copies a file that no longer grows, and a later one of the
\* ticker's the same.
Undisturbed == ~past.overlap /\ ~past.failed /\ ~past.others
AllOf == dir.chat # 0 /\ inodes[dir.chat].head = chatHome["main"]
Latest ==
    /\ newest # "other" /\ dir.meta # "other"
    /\ \A k \in History!Captors : captors[k].conv # "other"
    /\ captors["final"].pc \in {"closing", "renaming"} => captors["final"].what = chatHome["main"]
    /\ newest = "main" /\ egg \in {"removing", "leaving"} => past.stopped
    /\ newest = "main" /\ egg \in {"up", "stopping"} /\ captors["final"].pc \in {"meta", "done"} =>
          /\ AllOf
          /\ captors["ticker"].pc \in {"closing", "renaming"} => captors["ticker"].what = chatHome["main"]
          /\ captors["final"].pc = "done" => dir.meta = "main"
    /\ newest = "main" /\ egg = "gone" /\ ~past.stopped =>
          AllOf /\ dir.meta = "main" /\ chatHome["main"].of = "main"

HistoryInv ==
    /\ HistoryTypes /\ Stages /\ Names /\ Spare
    /\ ~past.overlap => Whole
    /\ Undisturbed => Latest

LEMMA FileIs ==
    ASSUME NEW h \in Text, NEW x
    PROVE  [h EXCEPT !.n = x] = [of |-> h.of, n |-> x]
BY DEF Text

LEMMA CapIs ==
    ASSUME NEW h \in Captor, NEW p, NEW x
    PROVE  /\ [h EXCEPT !.pc = p] = Cap(p, h.conv, h.what, h.ino)
           /\ [h EXCEPT !.pc = p, !.conv = x] = Cap(p, x, h.what, h.ino)
           /\ [h EXCEPT !.pc = p, !.what = x] = Cap(p, h.conv, x, h.ino)
<1> DEFINE g == [h EXCEPT !.pc = p]
<1>1. g = Cap(p, h.conv, h.what, h.ino)
  BY DEF Captor, Cap
<1>2. /\ [h EXCEPT !.pc = p, !.conv = x] = [g EXCEPT !.conv = x]
      /\ [h EXCEPT !.pc = p, !.what = x] = [g EXCEPT !.what = x]
  OBVIOUS
<1> HIDE DEF g
<1>3. /\ [g EXCEPT !.conv = x] = Cap(p, x, h.what, h.ino)
      /\ [g EXCEPT !.what = x] = Cap(p, h.conv, x, h.ino)
  BY <1>1 DEF Cap
<1> QED
  BY <1>1, <1>2, <1>3 DEF g

LEMMA CapWrites ==
    ASSUME NEW h \in Captor, NEW x
    PROVE  [h EXCEPT !.pc = "writing", !.ino = x] = Cap("writing", h.conv, h.what, x)
<1> DEFINE g == [h EXCEPT !.pc = "writing"]
<1>1. g = Cap("writing", h.conv, h.what, h.ino)
  BY DEF Captor, Cap
<1>2. [h EXCEPT !.pc = "writing", !.ino = x] = [g EXCEPT !.ino = x]
  OBVIOUS
<1> HIDE DEF g
<1>3. [g EXCEPT !.ino = x] = Cap("writing", h.conv, h.what, x)
  BY <1>1 DEF Cap
<1> QED
  BY <1>2, <1>3

LEMMA IdleIs ==
    ASSUME PartsAssumption
    PROVE  /\ History!Empty \in Text /\ History!Torn \in Text
           /\ History!Idle = Cap("idle", "none", History!Empty, 0) /\ History!Idle \in Captor
           /\ \A p : [History!Idle EXCEPT !.pc = p] = Cap(p, "none", History!Empty, 0)
<1>1. History!Empty \in Text /\ History!Torn \in Text
  BY DEF PartsAssumption, History!Empty, History!Torn, History!Lines, Text
<1>2. History!Idle = Cap("idle", "none", History!Empty, 0) /\ History!Idle \in Captor
  BY <1>1 DEF History!Idle, Captor, Cap, Pcs
<1> QED
  BY <1>1, <1>2, CapIs DEF Cap

LEMMA HistoryInit == PartsAssumption /\ History!Init => HistoryInv
<1> SUFFICES ASSUME PartsAssumption, History!Init PROVE HistoryInv
  OBVIOUS
<1> USE DEF History!Init, History!Idle, History!Empty, History!Lines
<1>1. HistoryTypes
  <2>1. chatHome \in [History!Convs -> Text]
    BY DEF Text, History!Convs
  <2>2. 0 \in 0 .. MaxTicks
    BY DEF PartsAssumption
  <2> QED
    BY <2>1, <2>2, IdleIs DEF HistoryTypes, PastTypes, Source
<1>2. Stages
  BY DEF Stages, History!Convs, History!Captors
<1>3. Used = {}
  BY DEF Used
<1>4. Names
  BY DEF Names, History!Writing, History!Captors
<1>5. Spare
  BY <1>3, FS_EmptySet DEF Spare, Allowed, History!Captors
<1>6. Whole
  BY DEF Whole, History!Writing, History!Captors
<1>7. Latest
  BY DEF Latest, AllOf, History!Captors
<1> QED
  BY <1>1, <1>2, <1>4, <1>5, <1>6, <1>7 DEF HistoryInv

\* Some files are used, and there is a number of them.
LEMMA UsedCounts ==
    ASSUME PartsAssumption, HistoryTypes
    PROVE  /\ IsFiniteSet(Used) /\ Cardinality(Used) \in Nat
           /\ Used \subseteq History!Inodes
           /\ Used = History!Inodes => Cardinality(Used) = MaxTicks + 1
<1>1. IsFiniteSet(History!Inodes) /\ Cardinality(History!Inodes) = MaxTicks + 1
  BY FS_Interval DEF History!Inodes, PartsAssumption
<1>2. Used \subseteq History!Inodes
  BY DEF Used
<1> QED
  BY <1>1, <1>2, FS_Subset, FS_CardinalityType

\* A capture that needs a new file finds one.
LEMMA UnusedThere ==
    ASSUME PartsAssumption, HistoryInv, NEW k \in History!Captors, captors[k].pc = "found", dir.tmp = 0
    PROVE  /\ History!Unused \in History!Inodes \ Used
           /\ History!Unused # 0 /\ History!Unused # dir.chat
<1>1. egg # "gone"
  BY DEF HistoryInv, Stages, History!Idle
<1>2. Cardinality(Used) <= MaxTicks /\ Cardinality(Used) \in Nat
  BY <1>1, UsedCounts DEF HistoryInv, HistoryTypes, Spare, Allowed, History!Captors, PartsAssumption
<1>3. PICK i \in History!Inodes : i \notin Used
  <2>1. Used # History!Inodes
    BY <1>2, UsedCounts DEF HistoryInv, PartsAssumption
  <2> QED
    BY <2>1 DEF Used
<1>4. i # 0 /\ i # dir.chat
  BY <1>3 DEF HistoryInv, Names, History!Inodes
<1>5. \E j \in History!Inodes : inodes[j].head = History!Empty /\ j \notin {dir.tmp, dir.chat}
  BY <1>3, <1>4 DEF Used
<1>6. History!Unused \in History!Inodes /\ inodes[History!Unused].head = History!Empty
      /\ History!Unused \notin {dir.tmp, dir.chat}
  BY <1>5 DEF History!Unused
<1> QED
  BY <1>6 DEF Used, History!Inodes

\* A capture that has ended.
Ended(k) == Cap(IF k = "final" THEN "done" ELSE "idle", "none", History!Empty, 0)
LEMMA EndedIs == ASSUME PartsAssumption, NEW k PROVE History!Done(k) = Ended(k)
BY IdleIs DEF History!Done, Ended

(* One lemma per action *)

LEMMA SaysInv ==
    ASSUME PartsAssumption, HistoryInv, NEW c \in History!Convs, History!Says(c)
    PROVE  HistoryInv'
<1> USE DEF HistoryInv, History!Says
<1>a. chatHome[c] \in Text
  BY DEF HistoryTypes
<1>b. chatHome' = [chatHome EXCEPT ![c] = [of |-> chatHome[c].of, n |-> chatHome[c].n + 1]]
  BY <1>a, FileIs
<1>c. ~past.resumed /\ chatHome[c].of = c
  BY DEF Stages, HistoryTypes
<1>d. chatHome' \in [History!Convs -> Text] /\ (\A q \in History!Convs : chatHome'[q].of = chatHome[q].of)
  BY <1>a, <1>b DEF HistoryTypes, Text
<1>e. past' \in PastTypes /\ past'.stopped = past.stopped /\ past'.resumed = past.resumed
  BY DEF HistoryTypes, PastTypes
<1>1. HistoryTypes'
  BY <1>d, <1>e DEF HistoryTypes
<1>2. Stages'
  BY <1>c, <1>d, <1>e DEF Stages, HistoryTypes
<1>3. Names' /\ Spare'
  BY DEF History!Writing, Names, Spare, Used, Allowed, HistoryTypes
<1>4. (~past.overlap => Whole)'
  BY DEF Whole, TempFile, History!Writing, HistoryTypes
<1>5. (Undisturbed => Latest)'
  <2>1. CASE c = "other"
    <3>1. past'.others
      BY <2>1 DEF HistoryTypes, PastTypes
    <3> QED
      BY <3>1 DEF Undisturbed
  <2>2. CASE c = "main"
    <3>1. captors["final"].pc = "idle" /\ newest' = "main" /\ egg # "gone"
      BY <2>2 DEF Stages
    <3>2. egg \in {"removing", "leaving"} => past.stopped
      BY <3>1 DEF Stages
    <3>3. Undisturbed' => Undisturbed
      BY DEF Undisturbed, HistoryTypes, PastTypes
    <3> QED
      BY <1>e, <3>1, <3>2, <3>3 DEF Latest, Undisturbed
  <2> QED
    BY <2>1, <2>2 DEF History!Convs
<1> QED
  BY <1>1, <1>2, <1>3, <1>4, <1>5

LEMMA TickInv ==
    ASSUME PartsAssumption, HistoryInv, History!Tick
    PROVE  HistoryInv'
<1> USE DEF HistoryInv, History!Tick, History!Step, History!Captors
<1>b. captors' = [captors EXCEPT !["ticker"] = Cap("finding", "none", History!Empty, 0)]
  BY IdleIs
<1>1. HistoryTypes'
  BY <1>b, IdleIs DEF HistoryTypes, Captor, Cap, Pcs, PartsAssumption
<1>2. Stages'
  BY <1>b, IdleIs DEF Stages, HistoryTypes, Cap
<1>3. Names' /\ Spare'
  BY <1>b, UsedCounts DEF History!Writing, Names, Spare, Used, Allowed, HistoryTypes, Stages, Cap
<1>4. (~past.overlap => Whole)'
  BY <1>b DEF Whole, TempFile, History!Writing, HistoryTypes, Stages, Cap
<1>5. (Undisturbed => Latest)'
  BY <1>b DEF Undisturbed, Latest, AllOf, HistoryTypes, Stages, Cap, History!Convs
<1> QED
  BY <1>1, <1>2, <1>3, <1>4, <1>5

LEMMA AgentExitsInv ==
    ASSUME PartsAssumption, HistoryInv, History!AgentExits
    PROVE  HistoryInv'
<1> USE DEF HistoryInv, History!AgentExits, History!Step, History!Captors
<1>b. captors' = [captors EXCEPT !["final"] = Cap("finding", "none", History!Empty, 0)]
  BY IdleIs
<1>1. HistoryTypes'
  BY <1>b, IdleIs DEF HistoryTypes, Captor, Cap, Pcs, PartsAssumption
<1>2. Stages'
  BY <1>b, IdleIs DEF Stages, HistoryTypes, Cap
<1>3. Names' /\ Spare'
  BY <1>b, UsedCounts DEF History!Writing, Names, Spare, Used, Allowed, HistoryTypes, Stages, Cap
<1>4. (~past.overlap => Whole)'
  BY <1>b DEF Whole, TempFile, History!Writing, HistoryTypes, Stages, Cap
<1>5. (Undisturbed => Latest)'
  BY <1>b DEF Undisturbed, Latest, AllOf, HistoryTypes, Stages, Cap, History!Convs
<1> QED
  BY <1>1, <1>2, <1>3, <1>4, <1>5

LEMMA FindsInv ==
    ASSUME PartsAssumption, HistoryInv, NEW k \in History!Captors, History!Finds(k)
    PROVE  HistoryInv'
<1> USE DEF HistoryInv, History!Finds, History!Step, History!Captors
<1>a. captors[k] \in Captor
  BY DEF HistoryTypes
<1>b. captors' = [captors EXCEPT ![k] = IF newest = "none" THEN Ended(k)
                                        ELSE Cap("found", newest, captors[k].what, captors[k].ino)]
  BY <1>a, EndedIs, CapIs
<1>c. newest = "none" \/ newest \in History!Convs
  BY DEF HistoryTypes
<1>1. HistoryTypes'
  <2>1. Ended(k) \in Captor
    BY IdleIs DEF Captor, Cap, Pcs, Ended
  <2>2. newest \in History!Convs => Cap("found", newest, captors[k].what, captors[k].ino) \in Captor
    BY <1>a DEF Captor, Cap, Pcs
  <2>3. captors' \in [History!Captors -> Captor]
    BY <2>1, <2>2, <1>b, <1>c DEF HistoryTypes
  <2> QED
    BY <2>3 DEF HistoryTypes
<1>2. Stages'
  BY <1>b, <1>c, IdleIs DEF Stages, HistoryTypes, Cap, Ended
<1>3. Names' /\ Spare'
  BY <1>b, UsedCounts DEF History!Writing, Names, Spare, Used, Allowed, HistoryTypes, Stages, Cap, Ended
<1>4. (~past.overlap => Whole)'
  BY <1>b DEF Whole, TempFile, History!Writing, HistoryTypes, Stages, Cap, Ended
<1>5. (Undisturbed => Latest)'
  BY <1>b DEF Undisturbed, Latest, AllOf, HistoryTypes, Stages, Cap, History!Convs, Ended
<1> QED
  BY <1>1, <1>2, <1>3, <1>4, <1>5

LEMMA CreatesInv ==
    ASSUME PartsAssumption, HistoryInv, NEW k \in History!Captors, History!Creates(k)
    PROVE  HistoryInv'
<1>a. captors[k] \in Captor
  BY DEF HistoryInv, HistoryTypes
<1>i. \A x : [captors[k] EXCEPT !.pc = "writing", !.ino = x]
               = Cap("writing", captors[k].conv, captors[k].what, x)
  BY <1>a, CapWrites
<1> USE DEF HistoryInv, History!Creates, History!Step, History!Captors, History!Target
<1>d. egg # "gone" /\ ~past.resumed
  BY DEF Stages, History!Idle
<1> DEFINE i == IF dir.tmp # 0 THEN dir.tmp ELSE History!Unused
<1>e. i \in History!Inodes /\ i # 0 /\ i # dir.chat
  BY UnusedThere DEF Names, Used, History!Inodes
<1>c. /\ captors' = [captors EXCEPT ![k] = [captors[k] EXCEPT !.pc = "writing", !.ino = i]]
      /\ inodes' = [inodes EXCEPT ![i] = [head |-> History!Torn, tail |-> History!Empty]]
      /\ dir' = [dir EXCEPT !.tmp = i]
  OBVIOUS
<1> HIDE DEF i
<1>b. /\ captors' = [captors EXCEPT ![k] = Cap("writing", captors[k].conv, captors[k].what, i)]
      /\ inodes' = [inodes EXCEPT ![i] = [head |-> History!Torn, tail |-> History!Empty]]
      /\ dir' = [dir EXCEPT !.tmp = i]
  BY <1>c, <1>i
<1>f. past' \in PastTypes
      /\ \A f \in {"failed", "others", "captured", "stopped", "resumed", "cut"} : past'[f] = past[f]
  BY DEF HistoryTypes, PastTypes
<1>g. ~past'.overlap => ~past.overlap /\ \A q \in History!Captors \ {k} : ~History!Writing(q)
  BY DEF HistoryTypes, PastTypes
<1>h. Used' = Used \cup {i}
  BY <1>b, <1>e DEF Used, HistoryTypes, History!Torn, History!Empty, History!Lines
<1>1. HistoryTypes'
  <2>1. Cap("writing", captors[k].conv, captors[k].what, i) \in Captor
    BY <1>a, <1>e DEF Captor, Cap, Pcs
  <2>2. inodes' \in [History!Inodes -> [head : Text, tail : Text]]
    <3>1. [head |-> History!Torn, tail |-> History!Empty] \in [head : Text, tail : Text]
      BY IdleIs
    <3> QED
      BY <3>1, <1>b DEF HistoryTypes
  <2>3. dir' \in [tmp : History!Inodes \cup {0}, chat : History!Inodes \cup {0},
                  meta : History!Convs \cup {"none"}]
    BY <1>b, <1>e DEF HistoryTypes
  <2> QED
    BY <2>1, <2>2, <2>3, <1>b, <1>f DEF HistoryTypes
<1>2. Stages'
  BY <1>b, <1>d, <1>f DEF Stages, HistoryTypes, Cap
<1>3. Names' /\ Spare'
  <2>1. Names'
    BY <1>b, <1>e, <1>f, <1>h DEF History!Writing, Names, HistoryTypes, Cap
  <2>a. IsFiniteSet(Used) /\ Cardinality(Used) \in Nat
    BY UsedCounts
  <2>b. Cardinality(Used \cup {i}) = IF i \in Used THEN Cardinality(Used) ELSE Cardinality(Used) + 1
    BY <2>a, FS_AddElement
  <2>2. Cardinality(Used') <= Cardinality(Used) + 1
    BY <1>h, <2>a, <2>b
  <2>3. Cardinality(Used') \in Nat
    BY <1>h, UsedCounts, FS_AddElement, FS_CardinalityType
  <2>4. Spare'
    BY <1>b, <1>d, <2>2, <2>3, UsedCounts DEF Spare, Allowed, HistoryTypes, Cap
  <2> QED
    BY <2>1, <2>4
<1>4. (~past.overlap => Whole)'
  BY <1>b, <1>e, <1>g DEF Whole, TempFile, History!Writing, HistoryTypes, Cap
<1>5. (Undisturbed => Latest)'
  BY <1>b, <1>d, <1>e, <1>f, <1>g DEF Undisturbed, Latest, AllOf, HistoryTypes, Cap
<1> QED
  BY <1>1, <1>2, <1>3, <1>4, <1>5

LEMMA CopiesInv ==
    ASSUME PartsAssumption, HistoryInv, NEW k \in History!Captors, History!Copies(k)
    PROVE  HistoryInv'
<1> USE DEF HistoryInv, History!Copies, History!Step, History!Captors
<1>a. captors[k] \in Captor
  BY DEF HistoryTypes
<1>d. egg # "gone" /\ ~past.resumed
  BY DEF Stages, History!Idle
<1>c. captors[k].conv \in History!Convs
  BY DEF Stages
<1> DEFINE h == chatHome[captors[k].conv]
<1>h. h \in Text /\ h.of \in History!Convs /\ h # History!Empty
      /\ (captors[k].conv # "other" => h = chatHome["main"])
  BY SMTT(30), <1>c, <1>d DEF HistoryTypes, Stages, History!Convs, History!Empty, History!Lines
<1>b. /\ captors' = [captors EXCEPT ![k] = Cap("closing", captors[k].conv, h, captors[k].ino)]
      /\ inodes' = [inodes EXCEPT ![captors[k].ino].head = h]
  BY <1>a, CapIs
<1> HIDE DEF h
<1>e. captors[k].ino \in Used /\ captors[k].ino \in History!Inodes
  BY DEF Names, History!Writing, Used
<1>w. ~past.overlap => /\ captors[k].ino = dir.tmp \/ (dir.tmp = 0 /\ dir.chat = 0 /\ egg = "leaving")
                       /\ captors[k].ino # dir.chat
                       /\ \A q \in History!Captors \ {k} : ~History!Writing(q)
  <2> SUFFICES ASSUME ~past.overlap PROVE captors[k].ino # dir.chat /\ TempFile(k)
                /\ \A q \in History!Captors \ {k} : ~History!Writing(q)
    BY DEF TempFile
  <2>1. History!Writing(k)
    BY DEF History!Writing
  <2>2. TempFile(k) /\ \A q \in History!Captors \ {k} : ~History!Writing(q)
    BY <2>1 DEF Whole
  <2>3. captors[k].ino # 0
    BY <1>e DEF History!Inodes, PartsAssumption
  <2>4. captors[k].ino # dir.chat
    BY <2>2, <2>3 DEF TempFile, Names
  <2> QED
    BY <2>2, <2>4
<1>f. /\ inodes' \in [History!Inodes -> [head : Text, tail : Text]]
      /\ inodes'[captors[k].ino].head = h
      /\ \A j \in History!Inodes \ {captors[k].ino} : inodes'[j] = inodes[j]
  BY <1>b, <1>e, <1>h DEF HistoryTypes
<1>u. Used' = Used
  BY <1>e, <1>f, <1>h DEF Used
<1>1. HistoryTypes'
  <2>1. Cap("closing", captors[k].conv, h, captors[k].ino) \in Captor
    BY <1>a, <1>h DEF Captor, Cap, Pcs
  <2> QED
    BY <2>1, <1>b, <1>f DEF HistoryTypes
<1>2. Stages'
  BY <1>b, <1>c, <1>d DEF Stages, HistoryTypes, Cap
<1>3. Names' /\ Spare'
  BY <1>b, <1>u DEF History!Writing, Names, Spare, Allowed, HistoryTypes, Cap
<1>t. captors'[k].ino = captors[k].ino /\ captors'[k].pc = "closing" /\ captors'[k].what = h
      /\ \A q \in History!Captors \ {k} : captors'[q] = captors[q]
  <2>1. captors'[k] = Cap("closing", captors[k].conv, h, captors[k].ino)
        /\ \A q \in History!Captors \ {k} : captors'[q] = captors[q]
    BY <1>b DEF HistoryTypes
  <2> HIDE DEF History!Captors, History!Copies, HistoryInv
  <2> QED
    BY <2>1 DEF Cap
<1>4. (~past.overlap => Whole)'
  <2> SUFFICES ASSUME ~past.overlap PROVE Whole'
    OBVIOUS
  <2>1. Whole /\ captors[k].ino # dir.chat
        /\ \/ captors[k].ino = dir.tmp /\ dir.tmp # 0
           \/ dir.tmp = 0 /\ dir.chat = 0 /\ egg = "leaving"
        /\ \A q \in History!Captors \ {k} : ~History!Writing(q)
    BY <1>w DEF Whole, TempFile, History!Writing
  <2>2. \A q \in History!Captors \ {k} : ~History!Writing(q)'
    BY <1>t, <2>1 DEF History!Writing
  <2>3. TempFile(k)'
    BY <1>f, <1>h, <1>t, <2>1 DEF TempFile
  <2>4. dir.chat # 0 => inodes'[dir.chat] = inodes[dir.chat]
    BY <1>f, <2>1 DEF HistoryTypes
  <2> QED
    BY <2>1, <2>2, <2>3, <2>4 DEF Whole
<1>5. (Undisturbed => Latest)'
  BY <1>b, <1>d, <1>f, <1>h, <1>w DEF Undisturbed, Latest, AllOf, HistoryTypes, Cap
<1> QED
  BY <1>1, <1>2, <1>3, <1>4, <1>5

LEMMA ClosesInv ==
    ASSUME PartsAssumption, HistoryInv, NEW k \in History!Captors, History!Closes(k)
    PROVE  HistoryInv'
<1> USE DEF HistoryInv, History!Closes, History!Step, History!Captors
<1>a. captors[k] \in Captor
  BY DEF HistoryTypes
<1>d. egg # "gone" /\ ~past.resumed
  BY SMTT(30) DEF Stages, History!Idle
<1>b. captors' = [captors EXCEPT ![k] = Cap("renaming", captors[k].conv, captors[k].what, captors[k].ino)]
  BY <1>a, CapIs
<1>e. captors[k].ino \in Used /\ captors[k].ino \in History!Inodes
  BY DEF Names, History!Writing, Used
<1>w. ~past.overlap => /\ captors[k].ino = dir.tmp \/ (dir.tmp = 0 /\ dir.chat = 0 /\ egg = "leaving")
                       /\ captors[k].ino # dir.chat
                       /\ \A q \in History!Captors \ {k} : ~History!Writing(q)
  <2> SUFFICES ASSUME ~past.overlap PROVE captors[k].ino # dir.chat /\ TempFile(k)
                /\ \A q \in History!Captors \ {k} : ~History!Writing(q)
    BY DEF TempFile
  <2>1. History!Writing(k)
    BY DEF History!Writing
  <2>2. TempFile(k) /\ \A q \in History!Captors \ {k} : ~History!Writing(q)
    BY <2>1 DEF Whole
  <2>3. captors[k].ino # 0
    BY <1>e DEF History!Inodes, PartsAssumption
  <2>4. captors[k].ino # dir.chat
    BY <2>2, <2>3 DEF TempFile, Names
  <2> QED
    BY <2>2, <2>4
<1>f. /\ inodes' \in [History!Inodes -> [head : Text, tail : Text]]
      /\ inodes'[captors[k].ino].tail = captors[k].what
      /\ \A j \in History!Inodes : inodes'[j].head = inodes[j].head
      /\ \A j \in History!Inodes \ {captors[k].ino} : inodes'[j] = inodes[j]
  BY <1>a, <1>e DEF HistoryTypes, Captor
<1>u. Used' = Used
  BY <1>f DEF Used
<1>1. HistoryTypes'
  <2>1. Cap("renaming", captors[k].conv, captors[k].what, captors[k].ino) \in Captor
    BY <1>a DEF Captor, Cap, Pcs
  <2> QED
    BY <2>1, <1>b, <1>f DEF HistoryTypes
<1>2. Stages'
  BY <1>b, <1>d DEF Stages, HistoryTypes, Cap
<1>3. Names' /\ Spare'
  BY <1>b, <1>u DEF History!Writing, Names, Spare, Allowed, HistoryTypes, Cap
<1>4. (~past.overlap => Whole)'
  BY <1>b, <1>e, <1>f, <1>w DEF Whole, TempFile, History!Writing, HistoryTypes, Cap
<1>5. (Undisturbed => Latest)'
  BY <1>b, <1>d, <1>f, <1>w DEF Undisturbed, Latest, AllOf, HistoryTypes, Cap
<1> QED
  BY <1>1, <1>2, <1>3, <1>4, <1>5

LEMMA FailsInv ==
    ASSUME PartsAssumption, HistoryInv, NEW k \in History!Captors, History!Fails(k)
    PROVE  HistoryInv'
<1> USE DEF HistoryInv, History!Fails, History!Step, History!Captors
<1>a. captors[k] \in Captor
  BY DEF HistoryTypes
<1>d. egg # "gone" /\ ~past.resumed
  BY DEF Stages, History!Idle
<1>c. Ended(k) \in Captor /\ ~(Ended(k).pc \in {"writing", "closing", "renaming"})
      /\ Ended(k).conv = "none" /\ Ended(k).pc \in {"idle", "done"}
      /\ (k = "final" => Ended(k).pc = "done")
      /\ (k = "ticker" => Ended(k).pc = "idle")
  BY IdleIs DEF Captor, Cap, Pcs, Ended
<1>b. /\ captors' = [captors EXCEPT ![k] = Ended(k)]
      /\ dir' = dir \/ (History!Writing(k) /\ dir' = [dir EXCEPT !.tmp = 0])
  BY EndedIs DEF History!Writing
<1>f. past' \in PastTypes /\ past'.failed
      /\ \A f \in {"overlap", "others", "captured", "stopped", "resumed", "cut"} : past'[f] = past[f]
  BY DEF HistoryTypes, PastTypes
<1>u. Used' = Used
  BY DEF Used
<1>1. HistoryTypes'
  BY <1>b, <1>c, <1>f DEF HistoryTypes
<1>2. Stages'
  BY <1>b, <1>c, <1>d, <1>f DEF Stages, HistoryTypes
<1>3. Names'
  <2>1. captors'[k] = Ended(k) /\ \A q \in History!Captors \ {k} : captors'[q] = captors[q]
    BY <1>b DEF HistoryTypes
  <2>2. \A q \in History!Captors : History!Writing(q)' => captors'[q].ino \in Used'
    BY <2>1, <1>c, <1>u DEF History!Writing, Names
  <2>3. dir'.chat = dir.chat /\ dir'.tmp \in {dir.tmp, 0}
    BY <1>b DEF HistoryTypes
  <2> QED
    BY <2>2, <2>3, <1>f, <1>u DEF Names
<1>4. Spare'
  <2>1. Cardinality(Used) \in Nat /\ ticks \in Nat /\ Cardinality(Used) <= Allowed
    BY <1>d, UsedCounts DEF Spare, HistoryTypes
  <2>2. Allowed' >= Allowed /\ Allowed \in Int /\ Allowed' \in Int
    BY <1>b, <1>c, <2>1 DEF Allowed, HistoryTypes
  <2> QED
    BY <2>1, <2>2, <1>u DEF Spare
<1>5. (~past.overlap => Whole)'
  BY <1>b, <1>c, <1>f DEF Whole, TempFile, History!Writing, HistoryTypes
<1>6. (Undisturbed => Latest)'
  BY <1>f DEF Undisturbed
<1> QED
  BY <1>1, <1>2, <1>3, <1>4, <1>5, <1>6

LEMMA RenamesInv ==
    ASSUME PartsAssumption, HistoryInv, NEW k \in History!Captors, History!Renames(k)
    PROVE  HistoryInv'
<1> USE DEF HistoryInv, History!Renames, History!Step, History!Captors, History!Target
<1>a. captors[k] \in Captor
  BY DEF HistoryTypes
<1>d. egg # "gone" /\ ~past.resumed
  BY DEF Stages, History!Idle
<1>c. Ended(k) \in Captor /\ ~(Ended(k).pc \in {"writing", "closing", "renaming"})
      /\ Ended(k).conv = "none" /\ Ended(k).pc \in {"idle", "done"}
      /\ (k = "final" => Ended(k).pc = "done")
      /\ (k = "ticker" => Ended(k).pc = "idle")
  BY IdleIs DEF Captor, Cap, Pcs, Ended
<1>w. ~past.overlap =>
         /\ \A q \in History!Captors \ {k} : ~History!Writing(q)
         /\ \/ dir.tmp = 0 /\ dir.chat = 0 /\ egg = "leaving"
            \/ /\ captors[k].ino = dir.tmp /\ dir.tmp # 0 /\ dir.tmp # dir.chat
               /\ inodes[dir.tmp].head = captors[k].what /\ inodes[dir.tmp].tail = captors[k].what
               /\ captors[k].what.of \in History!Convs
  BY DEF Whole, TempFile, Names, History!Writing
<1>u. Used' = Used
  BY DEF Used
<1>6. CASE dir.tmp = 0
  <2>b. captors' = [captors EXCEPT ![k] = Ended(k)] /\ UNCHANGED <<dir, past>>
    BY <1>6, EndedIs
  <2>1. HistoryTypes'
    BY <1>c, <2>b DEF HistoryTypes
  <2>2. Stages'
    BY <1>c, <1>d, <2>b DEF Stages, HistoryTypes
  <2>3. Names' /\ Spare'
    BY <1>c, <2>b, <1>u DEF History!Writing, Names, Spare, Allowed, HistoryTypes
  <2>4. (~past.overlap => Whole)'
    BY <1>c, <1>w, <1>6, <2>b DEF Whole, TempFile, History!Writing, HistoryTypes
  <2>5. (Undisturbed => Latest)'
    BY <1>c, <1>d, <1>w, <1>6, <2>b DEF Undisturbed, Latest, AllOf, HistoryTypes
  <2> QED
    BY <2>1, <2>2, <2>3, <2>4, <2>5
<1>7. CASE dir.tmp # 0
  <2> DEFINE v == Cap("meta", captors[k].conv, captors[k].what, captors[k].ino)
  <2>b. /\ captors' = [captors EXCEPT ![k] = v]
        /\ dir' \in [tmp : History!Inodes \cup {0}, chat : History!Inodes \cup {0},
                      meta : History!Convs \cup {"none"}]
        /\ dir'.chat = dir.tmp /\ dir'.tmp = 0 /\ dir'.meta = dir.meta
    BY ZenonT(40), <1>7, <1>a, CapIs DEF HistoryTypes
  <2>f. past' \in PastTypes /\ (past'.captured <=> past.captured \/ egg \in {"up", "stopping"})
        /\ \A f \in {"overlap", "failed", "others", "stopped", "resumed", "cut"} : past'[f] = past[f]
    <3>1. past' = [past EXCEPT !.captured = @ \/ egg \in {"up", "stopping"}]
      BY <1>7
    <3> QED
      BY <3>1 DEF HistoryTypes, PastTypes
  <2>1. HistoryTypes'
    <3>1. v \in Captor
      BY <1>a DEF Captor, Cap, Pcs
    <3> QED
      BY <3>1, <2>b, <2>f DEF HistoryTypes
  <2>2. Stages'
    BY <2>b, <2>f, <1>d DEF Stages, HistoryTypes, Cap
  <2>3. Names' /\ Spare'
    BY <1>7, <2>b, <2>f, <1>u DEF History!Writing, Names, Spare, Allowed, HistoryTypes, Cap
  <2>4. (~past.overlap => Whole)'
    BY <2>b, <2>f, <1>w DEF Whole, TempFile, History!Writing, HistoryTypes, Cap
  <2>5. (Undisturbed => Latest)'
    BY <2>b, <2>f, <1>7, <1>d, <1>w DEF Undisturbed, Latest, AllOf, HistoryTypes, Cap, History!Writing
  <2> QED
    BY <2>1, <2>2, <2>3, <2>4, <2>5
<1> QED
  BY <1>6, <1>7

LEMMA WritesMetaInv ==
    ASSUME PartsAssumption, HistoryInv, NEW k \in History!Captors, History!WritesMeta(k)
    PROVE  HistoryInv'
<1> USE DEF HistoryInv, History!WritesMeta, History!Step, History!Captors
<1>a. captors[k] \in Captor
  BY DEF HistoryTypes
<1>d. egg # "gone" /\ ~past.resumed
  BY DEF Stages, History!Idle
<1>c. Ended(k) \in Captor /\ ~(Ended(k).pc \in {"writing", "closing", "renaming"})
      /\ Ended(k).conv = "none" /\ Ended(k).pc \in {"idle", "done"}
      /\ (k = "final" => Ended(k).pc = "done")
      /\ (k = "ticker" => Ended(k).pc = "idle")
  BY IdleIs DEF Captor, Cap, Pcs, Ended
<1>b. captors' = [captors EXCEPT ![k] = Ended(k)] /\ dir' = [dir EXCEPT !.meta = captors[k].conv]
  BY EndedIs
<1>e. captors[k].conv \in History!Convs
  BY DEF Stages
<1>u. Used' = Used
  BY DEF Used
<1>1. HistoryTypes'
  BY <1>b, <1>c, <1>e DEF HistoryTypes
<1>2. Stages'
  BY <1>b, <1>c, <1>d DEF Stages, HistoryTypes
<1>3. Names' /\ Spare'
  BY <1>b, <1>c, <1>u DEF History!Writing, Names, Spare, Allowed, HistoryTypes
<1>4. (~past.overlap => Whole)'
  BY <1>b, <1>c DEF Whole, TempFile, History!Writing, HistoryTypes
<1>5. (Undisturbed => Latest)'
  BY <1>b, <1>c, <1>d, <1>e DEF Undisturbed, Latest, AllOf, HistoryTypes, History!Convs
<1> QED
  BY <1>1, <1>2, <1>3, <1>4, <1>5

\* The process ends.
LEMMA GoneInv ==
    ASSUME PartsAssumption, HistoryInv, egg # "gone", History!Gone, past' \in PastTypes,
           \A f \in {"overlap", "failed", "others", "captured", "resumed", "cut"} : past'[f] = past[f],
           Undisturbed /\ newest = "main" /\ ~past'.stopped => AllOf /\ dir.meta = "main"
    PROVE  HistoryInv'
<1> USE DEF HistoryInv
<1>g. /\ egg' = "gone" /\ agent' = "done" /\ captors' = [q \in History!Captors |-> History!Idle]
      /\ UNCHANGED <<chatHome, newest, inodes, dir, sync, ticks>>
      /\ History!Idle.pc = "idle" /\ History!Idle.conv = "none" /\ History!Idle \in Captor
  BY IdleIs DEF History!Gone, Cap
<1>u. Used' = Used
  BY <1>g DEF Used
<1>1. HistoryTypes'
  BY <1>g DEF HistoryTypes
<1>2. Stages'
  BY <1>g DEF Stages
<1>3. Names' /\ Spare'
  BY <1>g, <1>u DEF History!Writing, Names, Spare
<1>4. (~past.overlap => Whole)'
  BY <1>g DEF Whole, History!Writing
<1>5. (Undisturbed => Latest)'
  <2>1. ~past.resumed /\ chatHome["main"].of = "main"
    BY DEF Stages, History!Convs
  <2>2. captors'["final"].pc = "idle" /\ \A q \in History!Captors : captors'[q].conv = "none"
    BY <1>g DEF History!Captors
  <2> QED
    BY <1>g, <2>1, <2>2 DEF Undisturbed, Latest, AllOf
<1> QED
  BY <1>1, <1>2, <1>3, <1>4, <1>5

\* Cleanup looks for a history: the process ends, or the directory is removed.
LEMMA CleanupInv ==
    ASSUME PartsAssumption, HistoryInv, History!Cleanup, UNCHANGED past, egg \in {"up", "stopping"},
           past.stopped \/ captors["final"].pc = "done"
    PROVE  HistoryInv'
<1> USE DEF HistoryInv
<1>a. past \in PastTypes /\ egg # "gone"
  BY DEF HistoryTypes
<1>b. Undisturbed /\ newest = "main" /\ ~past.stopped => AllOf /\ dir.meta = "main"
  BY DEF Latest
<1>1. CASE dir.chat # 0 /\ History!Gone
  BY <1>1, <1>a, <1>b, GoneInv
<1>2. CASE dir.chat = 0
  <2>1. egg' = "removing" /\ UNCHANGED <<chatHome, newest, agent, captors, inodes, dir, sync, ticks, past>>
    BY <1>2 DEF History!Cleanup
  <2>2. HistoryTypes'
    BY <2>1 DEF HistoryTypes
  <2>3. Stages'
    BY <1>2, <2>1 DEF Stages, Names
  <2>4. Names' /\ Spare'
    BY <2>1, <1>a DEF History!Writing, Names, Spare, Used, Allowed
  <2>5. (~past.overlap => Whole)'
    BY <1>a, <2>1 DEF Whole, TempFile, History!Writing
  <2>6. (Undisturbed => Latest)'
    BY <1>2, <1>b, <2>1 DEF Undisturbed, Latest, AllOf
  <2> QED
    BY <2>2, <2>3, <2>4, <2>5, <2>6
<1> QED
  BY <1>1, <1>2 DEF History!Cleanup

LEMMA EndsInv ==
    ASSUME PartsAssumption, HistoryInv, History!Ends \/ History!Shutdown
    PROVE  HistoryInv'
<1>1. past.stopped \/ captors["final"].pc = "done"
  BY DEF HistoryInv, Stages, History!Ends, History!Shutdown, History!MayEnd
<1> QED
  BY <1>1, CleanupInv DEF History!Ends, History!Shutdown

LEMMA RemovesInv ==
    ASSUME PartsAssumption, HistoryInv, History!Removes
    PROVE  HistoryInv'
<1> USE DEF HistoryInv
<1>1. /\ egg = "removing" /\ egg' = "leaving"
      /\ dir' = [tmp |-> 0, chat |-> 0, meta |-> "none"]
      /\ UNCHANGED <<chatHome, newest, agent, captors, inodes, sync, ticks, past>>
  BY DEF History!Removes
<1>2. HistoryTypes'
  BY <1>1 DEF HistoryTypes
<1>3. Stages'
  BY <1>1 DEF Stages
<1>u. Used' = Used
  BY <1>1 DEF Used
<1>4. Names' /\ Spare'
  <2>1. ~past.captured
    BY <1>1 DEF Stages
  <2>2. Names'
    BY <1>1, <2>1, <1>u DEF History!Writing, Names
  <2>3. Spare'
    BY <1>1, <1>u DEF Spare, Allowed
  <2> QED
    BY <2>2, <2>3
<1>5. (~past.overlap => Whole)'
  BY <1>1 DEF Whole, TempFile, History!Writing
<1>6. (Undisturbed => Latest)'
  BY <1>1 DEF Undisturbed, Latest, AllOf
<1> QED
  BY <1>2, <1>3, <1>4, <1>5, <1>6

LEMMA LeavesInv ==
    ASSUME PartsAssumption, HistoryInv, History!Leaves
    PROVE  HistoryInv'
<1>1. egg = "leaving" /\ History!Gone /\ past' = past
  BY DEF History!Leaves
<1>2. Undisturbed /\ newest = "main" => past.stopped
  BY <1>1 DEF HistoryInv, Latest
<1>3. past \in PastTypes
  BY DEF HistoryInv, HistoryTypes
<1> QED
  BY <1>1, <1>2, <1>3, GoneInv

LEMMA EggDiesInv ==
    ASSUME PartsAssumption, HistoryInv, History!Dies
    PROVE  HistoryInv'
<1>1. egg # "gone" /\ History!Gone /\ past' = [past EXCEPT !.stopped = TRUE]
  BY DEF History!Dies
<1>2. past' \in PastTypes /\ past'.stopped
      /\ \A f \in {"overlap", "failed", "others", "captured", "resumed", "cut"} : past'[f] = past[f]
  BY <1>1 DEF HistoryInv, HistoryTypes, PastTypes
<1> QED
  BY <1>1, <1>2, GoneInv

LEMMA ShutdownBeginsInv ==
    ASSUME PartsAssumption, HistoryInv, History!ShutdownBegins
    PROVE  HistoryInv'
<1> USE DEF HistoryInv, History!ShutdownBegins
<1>f. past' \in PastTypes /\ past'.stopped
      /\ \A f \in {"overlap", "failed", "others", "captured", "resumed"} : past'[f] = past[f]
  BY DEF HistoryTypes, PastTypes
<1>u. Used' = Used
  BY DEF Used
<1>1. HistoryTypes'
  BY <1>f DEF HistoryTypes
<1>2. Stages'
  BY <1>f DEF Stages
<1>3. Names' /\ Spare'
  BY <1>f, <1>u DEF History!Writing, Names, Spare, Allowed
<1>4. (~past.overlap => Whole)'
  BY <1>f DEF Whole, TempFile, History!Writing
<1>5. (Undisturbed => Latest)'
  BY <1>f DEF Undisturbed, Latest, AllOf
<1> QED
  BY <1>1, <1>2, <1>3, <1>4, <1>5

\* What a reader finds is something, and a whole copy without overlaps.
LEMMA ReadsWhole ==
    ASSUME PartsAssumption, HistoryInv, dir.chat # 0
    PROVE  /\ History!Reads(inodes[dir.chat]) \in Text
           /\ ~past.overlap => /\ History!Reads(inodes[dir.chat]) = inodes[dir.chat].head
                               /\ inodes[dir.chat].head.of \in History!Convs
BY IdleIs DEF HistoryInv, HistoryTypes, Whole, History!Reads

LEMMA SyncInv ==
    ASSUME PartsAssumption, HistoryInv, History!SyncStarts \/ History!SyncEnds \/ History!SyncBreaks
    PROVE  HistoryInv'
<1> USE DEF HistoryInv
<1>a. UNCHANGED <<chatHome, newest, egg, agent, captors, inodes, dir, ticks>>
  BY DEF History!SyncStarts, History!SyncEnds, History!SyncBreaks
<1>f. past' \in PastTypes
      /\ \A f \in {"overlap", "failed", "others", "captured", "stopped", "resumed"} : past'[f] = past[f]
  <2>1. past' \in {past, [past EXCEPT !.cut = FALSE], [past EXCEPT !.cut = TRUE]}
    BY DEF History!SyncStarts, History!SyncEnds, History!SyncBreaks
  <2> QED
    BY <2>1, ZenonT(40) DEF HistoryTypes, PastTypes
<1>s. /\ sync' \in [of : Source, copy : Source]
      /\ ~past.overlap =>
            /\ sync'.of \in History!Convs \cup {"none"}
            /\ sync'.of = "none" /\ ~past'.cut => sync'.copy \in History!Convs \cup {"none"}
  <2>0. "none" \notin History!Convs
    BY DEF History!Convs
  <2>2. CASE History!SyncStarts
    <3>1. sync' = [of |-> History!Reads(inodes[dir.chat]).of, copy |-> "torn"] /\ dir.chat # 0
      BY <2>2 DEF History!SyncStarts
    <3>2. History!Reads(inodes[dir.chat]).of \in Source
          /\ (~past.overlap => History!Reads(inodes[dir.chat]).of \in History!Convs)
      BY <3>1, ReadsWhole DEF Text, Source
    <3> QED
      BY <2>0, <3>1, <3>2 DEF Source
  <2>3. CASE History!SyncEnds
    <3>1. sync' = [of |-> "none", copy |-> sync.of] /\ sync.of # "none"
      BY <2>3 DEF History!SyncEnds
    <3> QED
      BY <3>1 DEF HistoryTypes, Whole, Source
  <2>4. CASE History!SyncBreaks
    <3>1. sync' = [sync EXCEPT !.of = "none"] /\ past' = [past EXCEPT !.cut = TRUE]
      BY <2>4 DEF History!SyncBreaks
    <3>2. past'.cut
      BY <3>1 DEF HistoryTypes, PastTypes
    <3> QED
      BY <3>1, <3>2 DEF HistoryTypes, Source
  <2> QED
    BY <2>2, <2>3, <2>4
<1>u. Used' = Used
  BY <1>a DEF Used
<1>1. HistoryTypes'
  BY <1>a, <1>f, <1>s DEF HistoryTypes
<1>2. Stages'
  BY <1>a, <1>f DEF Stages
<1>3. Names' /\ Spare'
  BY <1>a, <1>f, <1>u DEF History!Writing, Names, Spare, Allowed
<1>4. (~past.overlap => Whole)'
  BY <1>a, <1>f, <1>s DEF Whole, TempFile, History!Writing
<1>5. (Undisturbed => Latest)'
  BY <1>a, <1>f DEF Undisturbed, Latest, AllOf
<1> QED
  BY <1>1, <1>2, <1>3, <1>4, <1>5

LEMMA ResumesInv ==
    ASSUME PartsAssumption, HistoryInv, History!Resumes
    PROVE  HistoryInv'
<1> USE DEF HistoryInv
<1>0. PICK whole \in BOOLEAN :
        /\ chatHome' = [chatHome EXCEPT ![dir.meta] = IF whole THEN History!Reads(inodes[dir.chat]) ELSE History!Torn]
        /\ past' = [past EXCEPT !.resumed = TRUE, !.failed = @ \/ ~whole]
  BY DEF History!Resumes
<1>a. /\ egg = "gone" /\ ~past.resumed /\ dir.meta # "none" /\ dir.chat # 0
      /\ UNCHANGED <<newest, egg, agent, captors, inodes, dir, sync, ticks>>
  BY DEF History!Resumes
<1>f. past' \in PastTypes /\ past'.resumed /\ (past'.failed <=> past.failed \/ ~whole)
      /\ \A f \in {"overlap", "others", "captured", "stopped", "cut"} : past'[f] = past[f]
  BY <1>0 DEF HistoryTypes, PastTypes
<1>h. chatHome' \in [History!Convs -> Text]
  BY <1>0, <1>a, ReadsWhole, IdleIs DEF HistoryTypes
<1>u. Used' = Used
  BY <1>a DEF Used
<1>c. \A k \in History!Captors : captors[k].pc = "idle"
  BY <1>a, IdleIs DEF Stages, Cap
<1>1. HistoryTypes'
  BY <1>a, <1>f, <1>h DEF HistoryTypes
<1>2. Stages'
  BY <1>a, <1>f DEF Stages
<1>3. Names' /\ Spare'
  BY <1>a, <1>f, <1>u DEF History!Writing, Names, Spare
<1>4. (~past.overlap => Whole)'
  BY <1>a, <1>f DEF Whole, TempFile, History!Writing
<1>5. (Undisturbed => Latest)'
  <2>1. Undisturbed' /\ newest = "main" /\ ~past.stopped => chatHome' = chatHome
    BY <1>0, <1>a, <1>f, ReadsWhole DEF Undisturbed, Latest, AllOf, HistoryTypes
  <2> QED
    BY <2>1, <1>a, <1>c, <1>f DEF Undisturbed, Latest, AllOf, History!Captors
<1> QED
  BY <1>1, <1>2, <1>3, <1>4, <1>5

LEMMA HistoryStep == ASSUME PartsAssumption, HistoryInv, [History!Next]_historyVars PROVE HistoryInv'
<1>1. CASE UNCHANGED historyVars
  BY <1>1 DEF historyVars, HistoryInv, HistoryTypes, Stages, Names, Spare, Used, Allowed, Whole, TempFile,
              Undisturbed, Latest, AllOf, History!Writing
<1>2. CASE History!Next
  BY <1>2, SaysInv, TickInv, AgentExitsInv, FindsInv, CreatesInv, CopiesInv, ClosesInv, FailsInv,
     RenamesInv, WritesMetaInv, EndsInv, ShutdownBeginsInv, RemovesInv, LeavesInv, EggDiesInv, SyncInv, ResumesInv
     DEF History!Next
<1> QED
  BY <1>1, <1>2

LEMMA HistorySays ==
    ASSUME PartsAssumption, HistoryInv
    PROVE  History!CaptureWhole /\ History!HistoryKept
<1>1. History!CaptureWhole
  BY ReadsWhole DEF HistoryInv, Names, Whole, History!CaptureWhole
<1>2. History!HistoryKept
  BY ReadsWhole DEF HistoryInv, Undisturbed, Latest, AllOf, History!HistoryKept, History!Listed
<1> QED
  BY <1>1, <1>2

\* No file holds more lines than a conversation may have.
Sizes ==
    /\ chatHome \in [History!Convs -> History!File]
    /\ \A k \in History!Captors : captors[k].what \in History!File
    /\ inodes \in [History!Inodes -> [head : History!File, tail : History!File]]

LEMMA ShortFiles ==
    /\ History!Empty \in History!File /\ History!Torn \in History!File
    /\ \A c \in History!Convs : History!Lines(c, 0) \in History!File /\ History!Lines(c, 1) \in History!File
    /\ \A k, p : [History!Idle EXCEPT !.pc = p].what = History!Empty
    /\ \A k : History!Done(k).what = History!Empty
    /\ History!Idle.what = History!Empty
<1>1. 0 \in 0..MaxLines /\ 1 \in 0..MaxLines
  BY PartsAssumption
<1>2. History!Empty \in History!File /\ History!Torn \in History!File
  BY <1>1 DEF History!Empty, History!Torn, History!Lines, History!File
<1>3. \A c \in History!Convs : History!Lines(c, 0) \in History!File /\ History!Lines(c, 1) \in History!File
  BY <1>1 DEF History!Lines, History!File
<1>4. \A k, p : [History!Idle EXCEPT !.pc = p].what = History!Empty
  BY DEF History!Idle
<1>5. \A k : History!Done(k).what = History!Empty
  BY DEF History!Idle, History!Done
<1>6. History!Idle.what = History!Empty
  BY DEF History!Idle
<1> QED  BY <1>2, <1>3, <1>4, <1>5, <1>6

LEMMA SizesStart == ASSUME History!Init PROVE Sizes
<1>1. chatHome \in [History!Convs -> History!File]
  BY ShortFiles DEF History!Init
<1>2. \A k \in History!Captors : captors[k].what = History!Empty
  BY ShortFiles DEF History!Init
<1>3. inodes \in [History!Inodes -> [head : History!File, tail : History!File]]
  BY ShortFiles DEF History!Init
<1> QED  BY <1>1, <1>2, <1>3, ShortFiles DEF Sizes

\* What a reader finds is no longer than the file.
LEMMA ReadsShort ==
    ASSUME HistoryInv, Sizes, dir.chat # 0 PROVE History!Reads(inodes[dir.chat]) \in History!File
<1>1. dir.chat \in History!Inodes
  BY DEF HistoryInv, HistoryTypes
<1>2. inodes[dir.chat] \in [head : History!File, tail : History!File]
  BY <1>1 DEF Sizes
<1> QED  BY <1>2, ShortFiles DEF History!Reads

\* A step of one capture.
LEMMA StepShort ==
    ASSUME HistoryInv, Sizes, NEW k \in History!Captors, NEW c, c.what \in History!File,
           History!Step(k, c), UNCHANGED chatHome,
           inodes' \in [History!Inodes -> [head : History!File, tail : History!File]]
    PROVE  Sizes'
<1>1. captors' = [captors EXCEPT ![k] = c]
  BY DEF History!Step
<1>2. DOMAIN captors = History!Captors
  BY DEF HistoryInv, HistoryTypes
<1>3. \A q \in History!Captors : captors'[q] = IF q = k THEN c ELSE captors[q]
  BY <1>1, <1>2
<1>4. \A q \in History!Captors : captors'[q].what \in History!File
  BY <1>3 DEF Sizes
<1> QED  BY <1>4 DEF Sizes

\* A capture that goes on with what it has.
LEMMA CaptorsAre ==
    ASSUME HistoryInv, Sizes, NEW k \in History!Captors
    PROVE  /\ \A p : [captors[k] EXCEPT !.pc = p].what \in History!File
           /\ \A p, v : [captors[k] EXCEPT !.pc = p, !.conv = v].what \in History!File
           /\ \A i : [captors[k] EXCEPT !.pc = "writing", !.ino = i].what \in History!File
           /\ \A p, w : [captors[k] EXCEPT !.pc = p, !.what = w].what = w
           /\ captors[k] \in Captor /\ captors[k].what \in History!File
<1>1. captors[k] \in Captor /\ captors[k].what \in History!File
  BY DEF HistoryInv, HistoryTypes, Sizes
<1> DEFINE h == captors[k]
<1>2. \A c, x, i, p : Cap(p, c, x, i).what = x
  BY SMTT(30) DEF Cap
<1>3. \A p, x : /\ [h EXCEPT !.pc = p] = Cap(p, h.conv, h.what, h.ino)
                /\ [h EXCEPT !.pc = p, !.conv = x] = Cap(p, x, h.what, h.ino)
                /\ [h EXCEPT !.pc = p, !.what = x] = Cap(p, h.conv, x, h.ino)
  <2> HIDE DEF h
  <2> SUFFICES ASSUME h \in Captor, NEW p, NEW x
               PROVE  /\ [h EXCEPT !.pc = p] = Cap(p, h.conv, h.what, h.ino)
                      /\ [h EXCEPT !.pc = p, !.conv = x] = Cap(p, x, h.what, h.ino)
                      /\ [h EXCEPT !.pc = p, !.what = x] = Cap(p, h.conv, x, h.ino)
    BY <1>1 DEF h
  <2> QED  BY CapIs
<1>4. \A i : [h EXCEPT !.pc = "writing", !.ino = i] = Cap("writing", h.conv, h.what, i)
  <2> HIDE DEF h
  <2> SUFFICES ASSUME h \in Captor, NEW i
               PROVE  [h EXCEPT !.pc = "writing", !.ino = i] = Cap("writing", h.conv, h.what, i)
    BY <1>1 DEF h
  <2> QED  BY CapWrites
<1> HIDE DEF h
<1>5. \A p : [h EXCEPT !.pc = p].what = h.what
  <2> TAKE p
  <2>1. [h EXCEPT !.pc = p] = Cap(p, h.conv, h.what, h.ino)
    BY <1>3
  <2> QED  BY <1>2, <2>1
<1>6. \A p, v : [h EXCEPT !.pc = p, !.conv = v].what = h.what
  <2> TAKE p, v
  <2>1. [h EXCEPT !.pc = p, !.conv = v] = Cap(p, v, h.what, h.ino)
    BY <1>3
  <2> QED  BY <1>2, <2>1
<1>7. \A i : [h EXCEPT !.pc = "writing", !.ino = i].what = h.what
  <2> TAKE i
  <2>1. [h EXCEPT !.pc = "writing", !.ino = i] = Cap("writing", h.conv, h.what, i)
    BY <1>4
  <2> QED  BY <1>2, <2>1
<1>8. \A p, w : [h EXCEPT !.pc = p, !.what = w].what = w
  <2> TAKE p, w
  <2>1. [h EXCEPT !.pc = p, !.what = w] = Cap(p, h.conv, w, h.ino)
    BY <1>3
  <2> QED  BY <1>2, <2>1
<1> USE DEF h
<1> QED  BY <1>1, <1>5, <1>6, <1>7, <1>8, Zenon

LEMMA SizesKept == ASSUME HistoryInv, Sizes, [History!Next]_historyVars PROVE Sizes'
<1>1. CASE UNCHANGED historyVars
  BY <1>1 DEF historyVars, Sizes
<1>2. CASE \E c \in History!Convs : History!Says(c)
  <2>1. PICK c \in History!Convs : History!Says(c)
    BY <1>2
  <2>2. chatHome[c] \in History!File /\ chatHome[c].n < MaxLines
    BY <2>1 DEF Sizes, History!Says
  <2>3. [chatHome[c] EXCEPT !.n = chatHome[c].n + 1] \in History!File
    <3>1. chatHome[c].n \in 0..MaxLines
      BY <2>2 DEF History!File
    <3>2. chatHome[c].n + 1 \in 0..MaxLines
      BY <2>2, <3>1, PartsAssumption
    <3> QED  BY <2>2, <3>2 DEF History!File
  <2>4. chatHome' = [chatHome EXCEPT ![c] = [chatHome[c] EXCEPT !.n = chatHome[c].n + 1]]
    BY <2>1 DEF History!Says
  <2>5. chatHome' \in [History!Convs -> History!File]
    BY <2>3, <2>4 DEF Sizes
  <2> QED  BY <2>1, <2>5 DEF Sizes, History!Says
<1>3. CASE History!Tick
  BY <1>3, StepShort, ShortFiles DEF History!Tick, History!Captors, Sizes
<1>4. CASE History!AgentExits
  BY <1>4, StepShort, ShortFiles DEF History!AgentExits, History!Captors, Sizes
<1>5. ASSUME NEW k \in History!Captors, History!Finds(k) PROVE Sizes'
  <2>1. inodes' = inodes /\ UNCHANGED <<chatHome, sync>>
    BY <1>5 DEF History!Finds
  <2>2. inodes' \in [History!Inodes -> [head : History!File, tail : History!File]]
    BY <2>1 DEF Sizes
  <2> DEFINE c == [captors[k] EXCEPT !.pc = "found", !.conv = newest]
  <2>3. c.what \in History!File /\ History!Done(k).what \in History!File
    BY CaptorsAre, ShortFiles
  <2>4. History!Step(k, c) \/ History!Step(k, History!Done(k))
    BY <1>5 DEF History!Finds
  <2> HIDE DEF c
  <2> QED  BY <2>1, <2>2, <2>3, <2>4, StepShort
<1>6. ASSUME NEW k \in History!Captors, History!Creates(k) PROVE Sizes'
  <2>1. PICK i : /\ inodes' = [inodes EXCEPT ![i] = [head |-> History!Torn, tail |-> History!Empty]]
                 /\ History!Step(k, [captors[k] EXCEPT !.pc = "writing", !.ino = i])
                 /\ UNCHANGED <<chatHome, sync>>
    BY <1>6 DEF History!Creates
  <2>2. inodes' \in [History!Inodes -> [head : History!File, tail : History!File]]
    BY <2>1, ShortFiles DEF Sizes
  <2> DEFINE c == [captors[k] EXCEPT !.pc = "writing", !.ino = i]
  <2>3. c.what \in History!File
    BY CaptorsAre
  <2>4. History!Step(k, c) /\ UNCHANGED <<chatHome, sync>>
    BY <2>1
  <2> HIDE DEF c
  <2> QED  BY <2>2, <2>3, <2>4, StepShort
<1>7. ASSUME NEW k \in History!Captors, History!Copies(k) PROVE Sizes'
  <2>0. captors[k].conv \in History!Convs
    BY <1>7 DEF HistoryInv, Stages, History!Copies
  <2> DEFINE w == chatHome[captors[k].conv]
             i == captors[k].ino
  <2>1. w \in History!File
    BY <2>0 DEF Sizes
  <2>2. /\ inodes' = [inodes EXCEPT ![i] = [inodes[i] EXCEPT !.head = w]]
        /\ History!Step(k, [captors[k] EXCEPT !.pc = "closing", !.what = w])
        /\ UNCHANGED <<chatHome, sync>>
    BY <1>7 DEF History!Copies
  <2> HIDE DEF w, i
  <2>3. inodes' \in [History!Inodes -> [head : History!File, tail : History!File]]
    <3>1. ASSUME NEW j \in History!Inodes PROVE inodes'[j] \in [head : History!File, tail : History!File]
      <4>1. inodes[j] \in [head : History!File, tail : History!File]
        BY DEF Sizes
      <4>2. [inodes[j] EXCEPT !.head = w] \in [head : History!File, tail : History!File]
        BY <2>1, <4>1
      <4>3. inodes'[j] = IF j = i THEN [inodes[j] EXCEPT !.head = w] ELSE inodes[j]
        BY <2>2 DEF Sizes
      <4> QED  BY <4>1, <4>2, <4>3
    <3>2. inodes' = [j \in History!Inodes |-> inodes'[j]]
      BY <2>2 DEF Sizes
    <3> QED  BY <3>1, <3>2
  <2> DEFINE c == [captors[k] EXCEPT !.pc = "closing", !.what = w]
  <2>4. c.what \in History!File
    BY <2>1, CaptorsAre
  <2>5. History!Step(k, c) /\ UNCHANGED <<chatHome, sync>>
    BY <2>2
  <2> HIDE DEF c
  <2> QED  BY <2>3, <2>4, <2>5, StepShort
<1>8. ASSUME NEW k \in History!Captors, History!Closes(k) PROVE Sizes'
  <2> DEFINE w == captors[k].what
             i == captors[k].ino
  <2>1. w \in History!File
    BY DEF Sizes
  <2>2. /\ inodes' = [inodes EXCEPT ![i] = [inodes[i] EXCEPT !.tail = w]]
        /\ History!Step(k, [captors[k] EXCEPT !.pc = "renaming"])
        /\ UNCHANGED <<chatHome, sync>>
    BY <1>8 DEF History!Closes
  <2> HIDE DEF w, i
  <2>3. inodes' \in [History!Inodes -> [head : History!File, tail : History!File]]
    <3>1. ASSUME NEW j \in History!Inodes PROVE inodes'[j] \in [head : History!File, tail : History!File]
      <4>1. inodes[j] \in [head : History!File, tail : History!File]
        BY DEF Sizes
      <4>2. [inodes[j] EXCEPT !.tail = w] \in [head : History!File, tail : History!File]
        BY <2>1, <4>1
      <4>3. inodes'[j] = IF j = i THEN [inodes[j] EXCEPT !.tail = w] ELSE inodes[j]
        BY <2>2 DEF Sizes
      <4> QED  BY <4>1, <4>2, <4>3
    <3>2. inodes' = [j \in History!Inodes |-> inodes'[j]]
      BY <2>2 DEF Sizes
    <3> QED  BY <3>1, <3>2
  <2> DEFINE c == [captors[k] EXCEPT !.pc = "renaming"]
  <2>4. c.what \in History!File
    BY CaptorsAre
  <2>5. History!Step(k, c) /\ UNCHANGED <<chatHome, sync>>
    BY <2>2
  <2> HIDE DEF c
  <2> QED  BY <2>3, <2>4, <2>5, StepShort
<1>9. ASSUME NEW k \in History!Captors, History!Fails(k) \/ History!Renames(k) \/ History!WritesMeta(k)
      PROVE Sizes'
  <2>1. inodes' = inodes /\ UNCHANGED <<chatHome, sync>>
    BY <1>9 DEF History!Fails, History!Renames, History!WritesMeta
  <2>2. inodes' \in [History!Inodes -> [head : History!File, tail : History!File]]
    BY <2>1 DEF Sizes
  <2> DEFINE c == [captors[k] EXCEPT !.pc = "meta"]
  <2>3. c.what \in History!File /\ History!Done(k).what \in History!File
    BY CaptorsAre, ShortFiles
  <2>4. History!Step(k, c) \/ History!Step(k, History!Done(k))
    BY <1>9 DEF History!Fails, History!Renames, History!WritesMeta
  <2> HIDE DEF c
  <2> QED  BY <2>1, <2>2, <2>3, <2>4, StepShort
<1>10. CASE History!Gone
  <2>1. captors' = [k \in History!Captors |-> History!Idle] /\ UNCHANGED <<chatHome, inodes>>
    BY <1>10 DEF History!Gone
  <2>2. \A k \in History!Captors : captors'[k].what \in History!File
    BY <2>1, ShortFiles
  <2> QED  BY <2>1, <2>2 DEF Sizes
<1>11. CASE UNCHANGED <<chatHome, captors, inodes>>
  BY <1>11 DEF Sizes
<1>12. ASSUME \/ History!ShutdownBegins \/ History!Ends \/ History!Shutdown
              \/ History!Removes \/ History!Leaves \/ History!Dies
              \/ History!SyncStarts \/ History!SyncEnds \/ History!SyncBreaks
       PROVE  Sizes'
  BY <1>10, <1>11, <1>12 DEF History!ShutdownBegins, History!Ends, History!Shutdown, History!Cleanup, History!Removes,
     History!Leaves, History!Dies, History!SyncStarts, History!SyncEnds, History!SyncBreaks
<1>13. CASE History!Resumes
  BY <1>13, ReadsShort, ShortFiles, ZenonT(40) DEF History!Resumes, Sizes
<1> QED  BY <1>1, <1>2, <1>3, <1>4, <1>5, <1>6, <1>7, <1>8, <1>9, <1>12, <1>13 DEF History!Next

LEMMA HistoryTypesAre == ASSUME HistoryInv, Sizes PROVE History!TypeOK
<1>1. HistoryTypes
  BY DEF HistoryInv
<1>2. \A k \in History!Captors : captors[k] \in Captor
  BY <1>1 DEF HistoryTypes
<1>3. \A k \in History!Captors : captors[k].ino \in History!Inodes \cup {0}
  BY <1>2 DEF Captor
<1>4. \A f \in DOMAIN past : past[f] \in BOOLEAN
  BY <1>1 DEF HistoryTypes, PastTypes
<1> QED  BY <1>1, <1>3, <1>4 DEF HistoryTypes, Sizes, Source, History!TypeOK

-----------------------------------------------------------------------------
(* PeerLink *)

Signed(q) == \E i \in 1..Len(q) : q[i].t = "migrated"
Asks(q) == \E i \in 1..Len(q) : q[i].t = "migrate"
OneAsk(q) == \A i, j \in 1..Len(q) : q[i].t = "migrate" /\ q[j].t = "migrate" => i = j

\* The page asks for one move, and the wing makes one.
Once ==
    /\ OneAsk(net.up)
    /\ page.dc = "none" => ~Asks(net.up) /\ wing.look = 0 /\ ~wing.found
    /\ wing.look > 0 => ~Asks(net.up) /\ ~wing.found
    /\ wing.found => ~Asks(net.up)
    /\ wing.mode = "p2p" \/ page.active \/ Signed(net.down) =>
          page.dc # "none" /\ ~Asks(net.up) /\ wing.look = 0 /\ ~wing.found

\* Before the channel breaks: shown, on the relay, buffered, on the channel are
\* the n chunks there are.
Complete(sh, d, b, c, n) ==
    /\ \A i \in 1..Len(sh) : sh[i] = i
    /\ Link!Follow(d, Link!ChunksIn(d), Len(sh))
    /\ Link!Follow(b, Len(b), Len(sh) + Link!ChunksIn(d))
    /\ Link!Follow(c, Len(c), Len(sh) + Link!ChunksIn(d) + Len(b))
    /\ n = Len(sh) + Link!ChunksIn(d) + Len(b) + Len(c)

Stands ==
    /\ Complete(shown, net.down, page.buffer, net.dcDown, wing.produced)
    /\ page.dc # "closed" /\ wing.dc # "closed"
    /\ net.link = "none" => page.dc = "none" /\ wing.dc = "none"
    /\ wing.found => wing.dc = "open"
    /\ wing.mode = "p2p" => wing.dc = "open"
    /\ wing.mode = "relay" => ~Signed(net.down) /\ ~page.active /\ page.buffer = <<>> /\ net.dcDown = <<>>
    /\ wing.mode = "p2p" => IF page.active THEN net.down = <<>> /\ page.buffer = <<>> ELSE Signed(net.down)

\* Afterwards: what is on its way is in order, and newer than what is shown; what
\* the page keeps belongs where the sign of the move is.
Ordered(sh, d, b, n) ==
    /\ \A i, j \in 1..Len(sh) : i < j => sh[i] < sh[j]
    /\ \A i \in 1..Len(sh) : sh[i] <= n
    /\ \A i \in 1..Len(d) : d[i].t = "out" => d[i].n <= n /\ \A k \in 1..Len(sh) : sh[k] < d[i].n
    /\ \A i, j \in 1..Len(d) : i < j /\ d[i].t = "out" /\ d[j].t = "out" => d[i].n < d[j].n
    /\ \A i \in 1..Len(b) : b[i].n <= n /\ \A k \in 1..Len(sh) : sh[k] < b[i].n
    /\ \A i, j \in 1..Len(b) : i < j => b[i].n < b[j].n
    /\ \A i, j \in 1..Len(d) : d[i].t = "migrated" /\ d[j].t = "migrated" => i = j
    /\ b # <<>> => Signed(d)
    /\ \A i, m \in 1..Len(d), k \in 1..Len(b) :
          d[m].t = "migrated" /\ d[i].t = "out" => IF i < m THEN d[i].n < b[k].n ELSE b[k].n < d[i].n

Broken == net.dcDown = <<>> /\ Ordered(shown, net.down, page.buffer, wing.produced)

LinkInv ==
    /\ Link!TypeOK /\ Once
    /\ IF net.link = "cut" THEN Broken ELSE Stands

-----------------------------------------------------------------------------
(* What the operations do to the queues *)

LEMMA Queues ==
    ASSUME NEW S, NEW q \in Seq(S)
    PROVE  /\ Len(q) \in Nat /\ (q = <<>> <=> Len(q) = 0)
           /\ \A x : /\ Len(Append(q, x)) = Len(q) + 1 /\ Append(q, x)[Len(q) + 1] = x
                     /\ \A i \in 1..Len(q) : Append(q, x)[i] = q[i]
           /\ \A x \in S : Append(q, x) \in Seq(S)
           /\ q # <<>> => /\ Len(Tail(q)) = Len(q) - 1 /\ Head(q) = q[1] /\ Tail(q) \in Seq(S)
                          /\ \A i \in 1..Len(Tail(q)) : Tail(q)[i] = q[i + 1]
           /\ \A i \in 1..Len(q) : q[i] \in S
<1>1. \A x \in S : Append(q, x) \in Seq(S)
  OBVIOUS
<1>2. q # <<>> => Head(q) = q[1] /\ Tail(q) \in Seq(S)
  OBVIOUS
<1> QED  BY <1>1, <1>2

\* Of a queue in which the sign comes last, if at all, and whose other messages are chunks.
LEMMA ChunksAre ==
    ASSUME NEW d \in Seq(Link!Relayed), NEW from \in Nat, Link!Follow(d, Link!ChunksIn(d), from)
    PROVE  /\ ~Signed(d) => Link!ChunksIn(d) = Len(d)
           /\ Signed(d) => Link!ChunksIn(d) = Len(d) - 1 /\ Len(d) > 0 /\ d[Len(d)].t = "migrated"
           /\ Link!ChunksIn(d) \in Nat
<1>1. Len(d) \in Nat /\ (d = <<>> <=> Len(d) = 0)
  OBVIOUS
<1>2. CASE d # <<>> /\ d[Len(d)].t = "migrated"
  BY <1>1, <1>2 DEF Signed, Link!ChunksIn
<1>3. CASE ~(d # <<>> /\ d[Len(d)].t = "migrated")
  <2>1. Link!ChunksIn(d) = Len(d)
    BY <1>1, <1>3 DEF Link!ChunksIn
  <2>2. ~Signed(d)
    BY <2>1 DEF Signed, Link!Follow
  <2> QED  BY <1>1, <2>1, <2>2
<1> QED  BY <1>2, <1>3

LEMMA FollowAppend ==
    ASSUME NEW S, NEW q \in Seq(S), NEW from \in Nat, Link!Follow(q, Len(q), from),
           NEW m, m.t = "out", m.n = from + Len(q) + 1
    PROVE  Link!Follow(Append(q, m), Len(Append(q, m)), from)
<1> DEFINE e == Append(q, m)
<1>1. /\ Len(q) \in Nat /\ Len(e) = Len(q) + 1 /\ e[Len(q) + 1] = m
      /\ \A i \in 1..Len(q) : e[i] = q[i]
  BY Queues
<1> HIDE DEF e
<1>2. ASSUME NEW i \in 1..Len(e) PROVE e[i].t = "out" /\ e[i].n = from + i
  <2>1. CASE i = Len(q) + 1
    BY <1>1, <2>1
  <2>2. CASE i # Len(q) + 1
    <3>1. i \in 1..Len(q)
      BY <1>1, <2>2
    <3> QED  BY <1>1, <3>1 DEF Link!Follow
  <2> QED  BY <2>1, <2>2
<1> QED  BY <1>2 DEF Link!Follow, e

LEMMA FollowTail ==
    ASSUME NEW S, NEW q \in Seq(S), NEW from \in Nat, NEW k \in Nat, Link!Follow(q, k, from), q # <<>>,
           k > 0, k <= Len(q)
    PROVE  Link!Follow(Tail(q), k - 1, from + 1)
<1>1. Len(q) \in Nat /\ Len(Tail(q)) = Len(q) - 1 /\ \A i \in 1..Len(Tail(q)) : Tail(q)[i] = q[i + 1]
  BY Queues
<1>2. ASSUME NEW i \in 1..(k - 1) PROVE Tail(q)[i].t = "out" /\ Tail(q)[i].n = (from + 1) + i
  <2>1. i + 1 \in 1..k /\ i \in 1..Len(Tail(q)) /\ from + (i + 1) = (from + 1) + i
    BY <1>1
  <2> QED  BY <1>1, <2>1 DEF Link!Follow
<1> QED  BY <1>2 DEF Link!Follow

\* The wing writes to the relay, or to the channel; it gives the sign.
LEMMA WritesRelay ==
    ASSUME NEW sh \in Seq(1..MaxOut), NEW d \in Seq(Link!Relayed), NEW n \in Nat,
           Complete(sh, d, <<>>, <<>>, n), ~Signed(d), NEW m \in Link!Relayed, m.t = "out", m.n = n + 1
    PROVE  Complete(sh, Append(d, m), <<>>, <<>>, n + 1) /\ ~Signed(Append(d, m))
<1> DEFINE e == Append(d, m)
<1>1. /\ Len(sh) \in Nat /\ Len(d) \in Nat /\ Len(e) = Len(d) + 1 /\ e[Len(d) + 1] = m
      /\ \A i \in 1..Len(d) : e[i] = d[i]
  BY Queues
<1>2. Link!ChunksIn(d) = Len(d) /\ n = Len(sh) + Len(d)
  BY <1>1, ChunksAre DEF Complete
<1>3. ~Signed(e) /\ Link!ChunksIn(e) = Len(e)
  BY <1>1 DEF Signed, Link!ChunksIn
<1> HIDE DEF e
<1>4. Link!Follow(e, Len(e), Len(sh))
  BY <1>1, <1>2, FollowAppend DEF Complete, e
<1>5. \A from : Link!Follow(<<>>, Len(<<>>), from)
  BY DEF Link!Follow
<1>6. n + 1 = Len(sh) + Len(e) + Len(<<>>) + Len(<<>>)
  BY <1>1, <1>2
<1>7. Complete(sh, e, <<>>, <<>>, n + 1)
  BY <1>3, <1>4, <1>5, <1>6 DEF Complete
<1> QED  BY <1>3, <1>7 DEF e

LEMMA WritesChannel ==
    ASSUME NEW sh \in Seq(1..MaxOut), NEW d \in Seq(Link!Relayed), NEW b \in Seq(Link!Chunk),
           NEW c \in Seq(Link!Chunk), NEW n \in Nat, Complete(sh, d, b, c, n),
           NEW m \in Link!Chunk, m.n = n + 1
    PROVE  Complete(sh, d, b, Append(c, m), n + 1)
<1> DEFINE e == Append(c, m)
           before == Len(sh) + Link!ChunksIn(d) + Len(b)
<1>1. /\ Len(sh) \in Nat /\ Len(b) \in Nat /\ Len(c) \in Nat /\ Len(e) = Len(c) + 1 /\ e[Len(c) + 1] = m
      /\ \A i \in 1..Len(c) : e[i] = c[i]
  BY Queues
<1>2. Link!ChunksIn(d) \in Nat
  BY <1>1, ChunksAre DEF Complete
<1>3. before \in Nat /\ n = before + Len(c) /\ Link!Follow(c, Len(c), before)
  BY <1>1, <1>2 DEF Complete
<1> HIDE DEF e, before
<1>4. m.t = "out"
  BY DEF Link!Chunk
<1>5. Link!Follow(e, Len(e), before) /\ n + 1 = before + Len(e)
  <2>1. m.n = before + Len(c) + 1
    BY <1>3
  <2>2. Link!Follow(e, Len(e), before)
    BY <1>3, <1>4, <2>1, FollowAppend DEF e
  <2> QED  BY <1>1, <1>3, <2>2
<1> QED  BY <1>5 DEF Complete, before, e

LEMMA Signs ==
    ASSUME NEW sh \in Seq(1..MaxOut), NEW d \in Seq(Link!Relayed), NEW n \in Nat,
           Complete(sh, d, <<>>, <<>>, n), ~Signed(d), NEW m \in Link!Relayed, m.t = "migrated"
    PROVE  Complete(sh, Append(d, m), <<>>, <<>>, n) /\ Signed(Append(d, m))
<1> DEFINE e == Append(d, m)
<1>1. /\ Len(sh) \in Nat /\ Len(d) \in Nat /\ Len(e) = Len(d) + 1 /\ e[Len(d) + 1] = m
      /\ \A i \in 1..Len(d) : e[i] = d[i]
  BY Queues
<1>2. Link!ChunksIn(d) = Len(d)
  BY <1>1, ChunksAre DEF Complete
<1>3. Signed(e) /\ Link!ChunksIn(e) = Len(d)
  <2> HIDE DEF e
  <2>1. Len(e) \in 1..Len(e) /\ e[Len(e)].t = "migrated" /\ e # <<>>
    BY <1>1
  <2> QED  BY <1>1, <2>1 DEF Signed, Link!ChunksIn
<1> HIDE DEF e
<1>4. Link!Follow(e, Len(d), Len(sh))
  BY <1>1, <1>2 DEF Complete, Link!Follow
<1>5. Complete(sh, e, <<>>, <<>>, n)
  BY <1>2, <1>3, <1>4 DEF Complete
<1> QED  BY <1>3, <1>5 DEF e

\* The page reads a chunk from the relay, or the sign; from the channel it shows or keeps one.
LEMMA ReadsChunk ==
    ASSUME NEW sh \in Seq(1..MaxOut), NEW d \in Seq(Link!Relayed), NEW b \in Seq(Link!Chunk),
           NEW c \in Seq(Link!Chunk), NEW n \in Nat, Complete(sh, d, b, c, n), d # <<>>, Head(d).t = "out"
    PROVE  Complete(Append(sh, Head(d).n), Tail(d), b, c, n) /\ (Signed(Tail(d)) <=> Signed(d))
<1> DEFINE e == Tail(d)
           s == Append(sh, Head(d).n)
<1>1. /\ Len(sh) \in Nat /\ Len(b) \in Nat /\ Len(c) \in Nat /\ Len(d) \in Nat /\ Len(d) > 0
      /\ Len(e) = Len(d) - 1 /\ e \in Seq(Link!Relayed) /\ Head(d) = d[1]
      /\ \A i \in 1..Len(e) : e[i] = d[i + 1]
  BY Queues
<1>2. /\ Len(s) = Len(sh) + 1 /\ s[Len(sh) + 1] = d[1].n
      /\ \A i \in 1..Len(sh) : s[i] = sh[i]
  BY <1>1, Queues
<1>3. Link!ChunksIn(d) \in Nat /\ Link!ChunksIn(d) > 0
  BY <1>1, ChunksAre DEF Complete, Link!ChunksIn
<1>4. Link!ChunksIn(e) = Link!ChunksIn(d) - 1
  <2>1. CASE Len(d) = 1
    <3> HIDE DEF e, s
    <3>0. e \in Seq(Link!Relayed) /\ Len(e) = 0
      BY <1>1, <2>1
    <3>1. e = <<>> /\ Len(e) = 0
      BY <3>0, Queues
    <3>2. Link!ChunksIn(e) = 0
      BY <3>1 DEF Link!ChunksIn
    <3>3. Link!ChunksIn(d) = 1
      BY <1>1, <1>3, <2>1 DEF Link!ChunksIn
    <3> QED  BY <3>2, <3>3
  <2>2. CASE Len(d) > 1
    <3> HIDE DEF e
    <3>1. Len(e) \in 1..Len(e) /\ Len(e) + 1 = Len(d) /\ Len(e) # 0
      BY SMTT(30), <1>1, <2>2
    <3>2. e # <<>> /\ d # <<>> /\ e[Len(e)] = d[Len(d)]
      BY <1>1, <3>1
    <3> QED  BY <1>1, <3>1, <3>2 DEF Link!ChunksIn
  <2> QED  BY <1>1, <2>1, <2>2
<1>5. Signed(e) <=> Signed(d)
  <2>1. \A i \in 1..Len(d) : i = 1 \/ i - 1 \in 1..Len(e)
    BY <1>1
  <2>2. \A i \in 1..Len(e) : i + 1 \in 1..Len(d)
    BY <1>1
  <2>3. ASSUME Signed(d) PROVE Signed(e)
    <3>1. PICK i \in 1..Len(d) : d[i].t = "migrated"
      BY <2>3 DEF Signed
    <3>2. i - 1 \in 1..Len(e) /\ e[i - 1] = d[i]
      BY <1>1, <2>1, <3>1
    <3> QED  BY <3>1, <3>2 DEF Signed
  <2>4. ASSUME Signed(e) PROVE Signed(d)
    <3>1. PICK i \in 1..Len(e) : e[i].t = "migrated"
      BY <2>4 DEF Signed
    <3> QED  BY <1>1, <2>2, <3>1 DEF Signed
  <2> QED  BY <2>3, <2>4
<1> HIDE DEF e, s
<1>6. \A i \in 1..Len(s) : s[i] = i
  <2>1. d[1].n = Len(sh) + 1
    BY <1>3 DEF Complete, Link!Follow
  <2> TAKE i \in 1..Len(s)
  <2>0. Len(sh) \in Nat /\ Len(s) = Len(sh) + 1
    BY <1>1, <1>2
  <2>2. i \in 1..Len(sh) \/ i = Len(sh) + 1
    BY <2>0
  <2> QED  BY <1>2, <2>1, <2>2 DEF Complete
<1>7. Link!Follow(e, Link!ChunksIn(e), Len(s))
  <2> SUFFICES ASSUME NEW i \in 1..Link!ChunksIn(e) PROVE e[i].t = "out" /\ e[i].n = Len(s) + i
    BY DEF Link!Follow
  <2>1. i \in 1..Len(e) /\ i + 1 \in 1..Link!ChunksIn(d)
    <3>1. Link!ChunksIn(e) <= Len(e)
      BY <1>1, <1>3, <1>4 DEF Link!ChunksIn
    <3> QED  BY <1>1, <1>3, <1>4, <3>1
  <2>2. d[i + 1].t = "out" /\ d[i + 1].n = Len(sh) + (i + 1)
    BY <2>1 DEF Complete, Link!Follow
  <2> QED  BY <1>1, <1>2, <2>1, <2>2
<1>8. /\ Len(s) + Link!ChunksIn(e) = Len(sh) + Link!ChunksIn(d)
      /\ Len(s) + Link!ChunksIn(e) + Len(b) = Len(sh) + Link!ChunksIn(d) + Len(b)
      /\ Len(s) + Link!ChunksIn(e) + Len(b) + Len(c) = Len(sh) + Link!ChunksIn(d) + Len(b) + Len(c)
  BY SMTT(30), <1>1, <1>2, <1>3, <1>4
<1>9. Complete(s, e, b, c, n)
  BY <1>6, <1>7, <1>8 DEF Complete
<1> QED  BY <1>5, <1>9 DEF e, s

LEMMA Joined ==
    ASSUME NEW S, NEW p \in Seq(S), NEW q \in Seq(S)
    PROVE  /\ Len(p \o q) = Len(p) + Len(q) /\ p \o q \in Seq(S)
           /\ \A i \in 1..(Len(p) + Len(q)) : (p \o q)[i] = IF i <= Len(p) THEN p[i] ELSE q[i - Len(p)]
BY ConcatProperties

LEMMA OutsAre ==
    ASSUME NEW b \in Seq(Link!Chunk)
    PROVE  /\ Len(Link!Outs(b)) = Len(b) /\ Link!Outs(b) \in Seq(1..MaxOut)
           /\ \A i \in 1..Len(b) : Link!Outs(b)[i] = b[i].n
<1>1. \A i \in 1..Len(b) : b[i] \in Link!Chunk
  OBVIOUS
<1>2. Len(b) \in Nat /\ \A i \in 1..Len(b) : b[i].n \in 1..MaxOut
  BY <1>1 DEF Link!Chunk
<1> QED  BY <1>2 DEF Link!Outs

LEMMA ReadsSign ==
    ASSUME NEW sh \in Seq(1..MaxOut), NEW d \in Seq(Link!Relayed), NEW b \in Seq(Link!Chunk),
           NEW c \in Seq(Link!Chunk), NEW n \in Nat, Complete(sh, d, b, c, n), d # <<>>, Head(d).t = "migrated"
    PROVE  Complete(sh \o Link!Outs(b), Tail(d), <<>>, c, n) /\ Tail(d) = <<>>
<1> DEFINE o == Link!Outs(b)
           s == sh \o o
<1>1. /\ Len(sh) \in Nat /\ Len(b) \in Nat /\ Len(c) \in Nat /\ Len(d) \in Nat /\ Len(d) > 0
      /\ Head(d) = d[1] /\ Len(Tail(d)) = Len(d) - 1 /\ (Tail(d) = <<>> <=> Len(Tail(d)) = 0)
  <2>1. Tail(d) \in Seq(Link!Relayed) /\ Head(d) = d[1] /\ Len(Tail(d)) = Len(d) - 1 /\ Len(d) # 0
    BY Queues
  <2>2. Len(sh) \in Nat /\ Len(b) \in Nat /\ Len(c) \in Nat /\ Len(d) \in Nat
    OBVIOUS
  <2>3. Tail(d) = <<>> <=> Len(Tail(d)) = 0
    BY <2>1, Queues
  <2> QED  BY <2>1, <2>2, <2>3
<1>2. Signed(d)
  BY <1>1 DEF Signed
<1>3. Link!ChunksIn(d) = 0 /\ Len(d) = 1
  <2>1. Link!ChunksIn(d) = Len(d) - 1 /\ Link!ChunksIn(d) \in Nat /\ Link!Follow(d, Link!ChunksIn(d), Len(sh))
    BY <1>1, <1>2, ChunksAre DEF Complete
  <2>2. 1 \notin 1..Link!ChunksIn(d)
    BY <1>1, <2>1 DEF Link!Follow
  <2> QED  BY <1>1, <2>1, <2>2
<1>4. Len(o) = Len(b) /\ o \in Seq(1..MaxOut) /\ \A i \in 1..Len(b) : o[i] = b[i].n
  BY OutsAre
<1>5. /\ Len(s) = Len(sh) + Len(b) /\ \A i \in 1..Len(sh) : s[i] = sh[i]
      /\ \A i \in 1..Len(b) : s[Len(sh) + i] = b[i].n
  <2> HIDE DEF o
  <2>1. Len(s) = Len(sh) + Len(o) /\ \A i \in 1..(Len(sh) + Len(o)) :
            s[i] = IF i <= Len(sh) THEN sh[i] ELSE o[i - Len(sh)]
    <3>1. o \in Seq(1..MaxOut)
      BY <1>4
    <3> QED  BY <3>1, Joined
  <2> QED  BY <1>1, <1>4, <2>1
<1> HIDE DEF o, s
<1>6. \A i \in 1..Len(b) : b[i].n = Len(sh) + i
  BY <1>1, <1>3 DEF Complete, Link!Follow
<1>7. \A i \in 1..Len(s) : s[i] = i
  <2> TAKE i \in 1..Len(s)
  <2>1. CASE i <= Len(sh)
    BY <1>1, <1>5, <2>1 DEF Complete
  <2>2. CASE i > Len(sh)
    <3>1. i - Len(sh) \in 1..Len(b) /\ i = Len(sh) + (i - Len(sh))
      BY <1>1, <1>5, <2>2
    <3> QED  BY <1>5, <1>6, <3>1
  <2> QED  BY <1>1, <1>5, <2>1, <2>2
<1>8. Tail(d) = <<>> /\ Link!ChunksIn(<<>>) = 0 /\ Len(<<>>) = 0
  BY <1>1, <1>3 DEF Link!ChunksIn
<1>9. Len(s) + 0 = Len(sh) + Link!ChunksIn(d) + Len(b) /\ Len(s) + 0 + 0 = Len(sh) + Link!ChunksIn(d) + Len(b)
  BY <1>1, <1>3, <1>5
<1>10. Complete(s, <<>>, <<>>, c, n)
  BY <1>7, <1>8, <1>9 DEF Complete, Link!Follow
<1> QED  BY <1>8, <1>10 DEF s, o

LEMMA ShowsChunk ==
    ASSUME NEW sh \in Seq(1..MaxOut), NEW c \in Seq(Link!Chunk), NEW n \in Nat,
           Complete(sh, <<>>, <<>>, c, n), c # <<>>
    PROVE  Complete(Append(sh, Head(c).n), <<>>, <<>>, Tail(c), n)
<1> DEFINE e == Tail(c)
           s == Append(sh, Head(c).n)
<1>1. /\ Len(sh) \in Nat /\ Len(c) \in Nat /\ Len(c) > 0 /\ Len(e) = Len(c) - 1 /\ Head(c) = c[1]
      /\ \A i \in 1..Len(e) : e[i] = c[i + 1]
  BY Queues
<1>2. /\ Len(s) = Len(sh) + 1 /\ s[Len(sh) + 1] = c[1].n
      /\ \A i \in 1..Len(sh) : s[i] = sh[i]
  BY <1>1, Queues
<1>3. Link!ChunksIn(<<>>) = 0 /\ Len(<<>>) = 0
  BY DEF Link!ChunksIn
<1> HIDE DEF e, s
<1>4. Link!Follow(c, Len(c), Len(sh)) /\ n = Len(sh) + Len(c)
  BY <1>1, <1>3 DEF Complete
<1>5. Link!Follow(e, Len(e), Len(s)) /\ n = Len(s) + Len(e) /\ \A i \in 1..Len(s) : s[i] = i
  <2>1. Link!Follow(Tail(c), Len(c) - 1, Len(sh) + 1)
    BY <1>1, <1>4, FollowTail
  <2>2. c[1].n = Len(sh) + 1
    BY <1>1, <1>4 DEF Link!Follow
  <2>3. ASSUME NEW i \in 1..Len(s) PROVE s[i] = i
    <3>1. i \in 1..Len(sh) \/ i = Len(sh) + 1
      BY <1>1, <1>2
    <3> QED  BY <1>2, <2>2, <3>1 DEF Complete
  <2> QED  BY <1>1, <1>2, <1>4, <2>1, <2>3 DEF e
<1>6. Complete(s, <<>>, <<>>, e, n)
  <2>1. Len(s) + 0 = Len(s) /\ Len(s) + 0 + 0 = Len(s)
    BY <1>1, <1>2
  <2> QED  BY <1>3, <1>5, <2>1 DEF Complete, Link!Follow
<1> QED  BY <1>6 DEF s, e

LEMMA KeepsChunk ==
    ASSUME NEW sh \in Seq(1..MaxOut), NEW d \in Seq(Link!Relayed), NEW b \in Seq(Link!Chunk),
           NEW c \in Seq(Link!Chunk), NEW n \in Nat, Complete(sh, d, b, c, n), c # <<>>
    PROVE  Complete(sh, d, Append(b, Head(c)), Tail(c), n)
<1> DEFINE e == Tail(c)
           f == Append(b, Head(c))
           from == Len(sh) + Link!ChunksIn(d)
<1>1. /\ Len(sh) \in Nat /\ Len(c) \in Nat /\ Len(c) > 0 /\ Len(e) = Len(c) - 1 /\ Head(c) = c[1]
      /\ \A i \in 1..Len(e) : e[i] = c[i + 1]
  BY Queues
<1>2. /\ Len(b) \in Nat /\ Len(f) = Len(b) + 1 /\ f[Len(b) + 1] = c[1] /\ \A i \in 1..Len(b) : f[i] = b[i]
  BY <1>1, Queues
<1>3. from \in Nat
  BY <1>1, ChunksAre DEF Complete
<1>4. /\ Link!Follow(b, Len(b), from) /\ Link!Follow(c, Len(c), from + Len(b))
      /\ n = from + Len(b) + Len(c)
  BY DEF Complete
<1> HIDE DEF e, f, from
<1>5. Link!Follow(f, Len(f), from)
  <2>1. c[1].t = "out" /\ c[1].n = from + Len(b) + 1
    BY <1>1, <1>4 DEF Link!Follow
  <2> QED  BY <1>1, <1>3, <1>4, <2>1, FollowAppend DEF f
<1>6. Link!Follow(e, Len(e), from + Len(f)) /\ n = from + Len(f) + Len(e)
  <2>1. from + Len(b) \in Nat /\ from + Len(f) = (from + Len(b)) + 1
    BY <1>2, <1>3
  <2>2. Link!Follow(Tail(c), Len(c) - 1, (from + Len(b)) + 1)
    BY <1>1, <1>4, <2>1, FollowTail
  <2> QED  BY <1>1, <1>2, <1>3, <1>4, <2>1, <2>2 DEF e
<1> QED  BY <1>5, <1>6 DEF Complete, from, e, f

LEMMA Numbers ==
    ASSUME NEW sh \in Seq(1..MaxOut), NEW d \in Seq(Link!Relayed), NEW b \in Seq(Link!Chunk)
    PROVE  /\ \A i \in 1..Len(sh) : sh[i] \in Nat
           /\ \A i \in 1..Len(d) : d[i].n \in Nat
           /\ \A i \in 1..Len(b) : b[i].n \in Nat
<1>1. \A i \in 1..Len(sh) : sh[i] \in 1..MaxOut
  BY Queues
<1>2. \A i \in 1..Len(d) : d[i] \in Link!Relayed
  BY Queues
<1>3. \A i \in 1..Len(b) : b[i] \in Link!Chunk
  BY Queues
<1> QED  BY <1>1, <1>2, <1>3 DEF Link!Relayed, Link!Chunk

\* The channel breaks.
LEMMA LinkBreaks ==
    ASSUME NEW sh \in Seq(1..MaxOut), NEW d \in Seq(Link!Relayed), NEW b \in Seq(Link!Chunk),
           NEW n \in Nat, NEW c \in Seq(Link!Chunk), Complete(sh, d, b, c, n), b # <<>> => Signed(d)
    PROVE  Ordered(sh, d, b, n)
<1> DEFINE l == Len(sh)
           k == Link!ChunksIn(d)
<1>1. l \in Nat /\ Len(d) \in Nat /\ Len(b) \in Nat /\ Len(c) \in Nat /\ k \in Nat
  BY Queues, ChunksAre DEF Complete
<1>2. \A i \in 1..l : sh[i] = i
  BY DEF Complete
<1>3. n = l + k + Len(b) + Len(c)
  BY DEF Complete
<1>4. \A i \in 1..Len(d) : d[i].t = "out" => i \in 1..k /\ d[i].n = l + i
  <2>1. (~Signed(d) /\ k = Len(d)) \/ (k = Len(d) - 1 /\ d[Len(d)].t = "migrated")
    BY ChunksAre DEF Complete
  <2> HIDE DEF k
  <2>2. \A i \in 1..Len(d) : d[i].t = "out" => i \in 1..k
    BY <1>1, <2>1
  <2> QED  BY <2>2 DEF Complete, Link!Follow, k
<1>5. \A i \in 1..Len(d) : d[i].t = "migrated" => i = Len(d) /\ k = Len(d) - 1
  <2>1. ~Signed(d) \/ k = Len(d) - 1
    BY ChunksAre DEF Complete
  <2>2. \A i \in 1..k : d[i].t = "out"
    BY DEF Complete, Link!Follow
  <2> HIDE DEF k
  <2>3. ASSUME NEW i \in 1..Len(d), d[i].t = "migrated" PROVE i = Len(d) /\ k = Len(d) - 1
    <3>1. Signed(d)
      BY <2>3 DEF Signed
    <3>2. k = Len(d) - 1
      BY <2>1, <3>1
    <3>3. i \notin 1..k
      BY <2>2, <2>3
    <3> QED  BY <1>1, <3>2, <3>3
  <2> QED  BY <2>3
<1>6. \A i \in 1..Len(b) : b[i].n = l + k + i
  BY DEF Complete, Link!Follow
<1> HIDE DEF l, k
<1>7. /\ \A i, j \in 1..l : i < j => sh[i] < sh[j]
      /\ \A i \in 1..l : sh[i] <= n
  BY <1>1, <1>2, <1>3
<1>8. /\ \A i \in 1..Len(d) : d[i].t = "out" => d[i].n <= n /\ \A h \in 1..l : sh[h] < d[i].n
      /\ \A i, j \in 1..Len(d) : i < j /\ d[i].t = "out" /\ d[j].t = "out" => d[i].n < d[j].n
  BY SMTT(30), <1>1, <1>2, <1>3, <1>4
<1>9. /\ \A i \in 1..Len(b) : b[i].n <= n /\ \A h \in 1..l : sh[h] < b[i].n
      /\ \A i, j \in 1..Len(b) : i < j => b[i].n < b[j].n
  BY <1>1, <1>2, <1>3, <1>6
<1>10. \A i, j \in 1..Len(d) : d[i].t = "migrated" /\ d[j].t = "migrated" => i = j
  BY <1>5
<1>11. \A i, m \in 1..Len(d), h \in 1..Len(b) :
          d[m].t = "migrated" /\ d[i].t = "out" => IF i < m THEN d[i].n < b[h].n ELSE b[h].n < d[i].n
  BY SMTT(30), <1>1, <1>4, <1>5, <1>6
<1> QED  BY <1>7, <1>8, <1>9, <1>10, <1>11 DEF Ordered, l

LEMMA Drops ==
    ASSUME NEW sh, NEW d, NEW b, NEW n, Ordered(sh, d, b, n) PROVE Ordered(sh, d, <<>>, n)
BY DEF Ordered

LEMMA LosesChunk ==
    ASSUME NEW sh \in Seq(1..MaxOut), NEW d \in Seq(Link!Relayed), NEW b \in Seq(Link!Chunk),
           NEW n \in Nat, Ordered(sh, d, b, n)
    PROVE  Ordered(sh, d, b, n + 1)
<1>1. /\ \A i \in 1..Len(sh) : sh[i] \in Nat
      /\ \A i \in 1..Len(d) : d[i].n \in Nat
      /\ \A i \in 1..Len(b) : b[i].n \in Nat
  BY Numbers
<1> QED  BY <1>1 DEF Ordered

LEMMA Adds ==
    ASSUME NEW sh \in Seq(1..MaxOut), NEW d \in Seq(Link!Relayed), NEW b \in Seq(Link!Chunk),
           NEW n \in Nat, Ordered(sh, d, b, n), NEW m \in Link!Relayed, NEW o \in Nat,
           \/ m.t = "out" /\ m.n = n + 1 /\ o = n + 1
           \/ m.t = "migrated" /\ ~Signed(d) /\ o = n
           \/ m.t = "fallback" /\ o = n
    PROVE  Ordered(sh, Append(d, m), b, o)
<1> DEFINE e == Append(d, m)
<1>1. /\ Len(d) \in Nat /\ Len(e) = Len(d) + 1 /\ e[Len(d) + 1] = m
      /\ \A i \in 1..Len(d) : e[i] = d[i]
  BY Queues
<1>2. /\ \A i \in 1..Len(sh) : sh[i] \in Nat
      /\ \A i \in 1..Len(d) : d[i].n \in Nat
      /\ \A i \in 1..Len(b) : b[i].n \in Nat
  BY Numbers
<1> HIDE DEF e
<1>3. \A i \in 1..Len(e) : (i \in 1..Len(d) /\ e[i] = d[i]) \/ (i = Len(d) + 1 /\ e[i] = m)
  BY <1>1
<1>4. /\ \A i, j \in 1..Len(sh) : i < j => sh[i] < sh[j]
      /\ \A i \in 1..Len(sh) : sh[i] <= n /\ sh[i] <= o
      /\ \A i \in 1..Len(b) : b[i].n <= n /\ b[i].n <= o /\ \A h \in 1..Len(sh) : sh[h] < b[i].n
      /\ \A i, j \in 1..Len(b) : i < j => b[i].n < b[j].n
  BY <1>2 DEF Ordered
<1>5. ASSUME NEW i \in 1..Len(e), e[i].t = "out"
      PROVE  e[i].n <= o /\ \A h \in 1..Len(sh) : sh[h] < e[i].n
  <2>1. CASE i \in 1..Len(d) /\ e[i] = d[i]
    <3>1. d[i].n <= n /\ \A h \in 1..Len(sh) : sh[h] < d[i].n
      BY <1>5, <2>1 DEF Ordered
    <3> QED  BY <1>2, <2>1, <3>1
  <2>2. CASE i = Len(d) + 1 /\ e[i] = m
    <3>1. m.n = n + 1 /\ o = n + 1 /\ e[i].n = n + 1
      BY <1>5, <2>2
    <3>2. \A h \in 1..Len(sh) : sh[h] \in Nat /\ sh[h] <= n
      BY <1>2, <1>4
    <3>3. \A h \in 1..Len(sh) : sh[h] < n + 1
      BY <3>2
    <3> QED  BY <3>1, <3>3
  <2> QED  BY <1>3, <2>1, <2>2
<1>6. ASSUME NEW i \in 1..Len(e), NEW j \in 1..Len(e), i < j, e[i].t = "out", e[j].t = "out"
      PROVE  e[i].n < e[j].n
  <2>1. i \in 1..Len(d) /\ e[i] = d[i]
    BY <1>1, <1>3, <1>6
  <2>2. d[i].n <= n
    BY <1>6, <2>1 DEF Ordered
  <2>3. CASE j \in 1..Len(d) /\ e[j] = d[j]
    BY <1>6, <2>1, <2>3 DEF Ordered
  <2>4. CASE j = Len(d) + 1 /\ e[j] = m
    BY <1>2, <1>6, <2>1, <2>2, <2>4
  <2> QED  BY <1>3, <2>3, <2>4
<1>7. \A i, j \in 1..Len(e) : e[i].t = "migrated" /\ e[j].t = "migrated" => i = j
  BY <1>3 DEF Ordered, Signed
<1>8. b # <<>> => Signed(e)
  <2>1. Signed(d) => Signed(e)
    BY <1>1 DEF Signed
  <2> QED  BY <2>1 DEF Ordered
<1>9. ASSUME NEW i \in 1..Len(e), NEW g \in 1..Len(e), NEW h \in 1..Len(b), e[g].t = "migrated", e[i].t = "out"
      PROVE  IF i < g THEN e[i].n < b[h].n ELSE b[h].n < e[i].n
  <2>1. b # <<>>
    BY <1>9
  <2>2. Signed(d)
    BY <2>1 DEF Ordered
  <2>3. g \in 1..Len(d) /\ e[g] = d[g]
    BY <1>3, <1>9, <2>2
  <2>4. CASE i \in 1..Len(d) /\ e[i] = d[i]
    BY <1>9, <2>3, <2>4 DEF Ordered
  <2>5. CASE i = Len(d) + 1 /\ e[i] = m
    <3>1. ~(i < g) /\ e[i].n = n + 1
      BY <1>1, <1>9, <2>3, <2>5
    <3> QED  BY <1>2, <1>4, <3>1
  <2> QED  BY <1>3, <2>4, <2>5
<1>10. Ordered(sh, e, b, o)
  BY <1>4, <1>5, <1>6, <1>7, <1>8, <1>9 DEF Ordered
<1> QED  BY <1>10 DEF e

\* What comes after the first message is in order too.
LEMMA Rest ==
    ASSUME NEW sh \in Seq(1..MaxOut), NEW d \in Seq(Link!Relayed), NEW b \in Seq(Link!Chunk),
           NEW n \in Nat, Ordered(sh, d, b, n), d # <<>>
    PROVE  /\ Len(d) \in Nat /\ Len(d) > 0 /\ Head(d) = d[1] /\ Len(Tail(d)) = Len(d) - 1
           /\ \A i \in 1..Len(Tail(d)) : i + 1 \in 1..Len(d) /\ Tail(d)[i] = d[i + 1]
           /\ Ordered(sh, Tail(d), <<>>, n)
<1> DEFINE e == Tail(d)
<1>1. Len(d) \in Nat /\ Len(d) > 0 /\ Head(d) = d[1] /\ Len(e) = Len(d) - 1
      /\ \A i \in 1..Len(e) : e[i] = d[i + 1]
  BY Queues
<1> HIDE DEF e
<1>2. \A i \in 1..Len(e) : i + 1 \in 1..Len(d)
  BY <1>1
<1>3. ASSUME NEW i \in 1..Len(e), e[i].t = "out"
      PROVE  e[i].n <= n /\ \A h \in 1..Len(sh) : sh[h] < e[i].n
  <2>1. i + 1 \in 1..Len(d) /\ e[i] = d[i + 1]
    BY <1>1, <1>2
  <2> QED  BY <1>3, <2>1 DEF Ordered
<1>4. ASSUME NEW i \in 1..Len(e), NEW j \in 1..Len(e), i < j, e[i].t = "out", e[j].t = "out"
      PROVE  e[i].n < e[j].n
  <2>1. i + 1 \in 1..Len(d) /\ e[i] = d[i + 1]
    BY <1>1, <1>2
  <2>2. j + 1 \in 1..Len(d) /\ e[j] = d[j + 1]
    BY <1>1, <1>2
  <2>3. i + 1 < j + 1
    BY <1>1, <1>4
  <2>4. d[i + 1].t = "out" /\ d[j + 1].t = "out"
    BY <1>4, <2>1, <2>2
  <2>5. \A x, y \in 1..Len(d) : x < y /\ d[x].t = "out" /\ d[y].t = "out" => d[x].n < d[y].n
    BY Zenon DEF Ordered
  <2>6. d[i + 1].n < d[j + 1].n
    BY <2>1, <2>2, <2>3, <2>4, <2>5, Zenon
  <2> QED  BY <2>1, <2>2, <2>6
<1>5. ASSUME NEW i \in 1..Len(e), NEW j \in 1..Len(e), e[i].t = "migrated", e[j].t = "migrated" PROVE i = j
  <2>0. i + 1 \in 1..Len(d) /\ j + 1 \in 1..Len(d) /\ e[i] = d[i + 1] /\ e[j] = d[j + 1]
    BY <1>1, <1>2
  <2>1. i + 1 = j + 1
    BY <1>5, <2>0 DEF Ordered
  <2> QED  BY <2>1
<1>6. Ordered(sh, e, <<>>, n)
  BY <1>3, <1>4, <1>5 DEF Ordered
<1> QED  BY <1>1, <1>2, <1>6 DEF e

LEMMA ShowsNext ==
    ASSUME NEW sh \in Seq(1..MaxOut), NEW d \in Seq(Link!Relayed), NEW b \in Seq(Link!Chunk),
           NEW n \in Nat, Ordered(sh, d, b, n), d # <<>>, Head(d).t = "out"
    PROVE  Ordered(Append(sh, Head(d).n), Tail(d), b, n)
<1> DEFINE e == Tail(d)
           s == Append(sh, Head(d).n)
<1>1. /\ Len(d) \in Nat /\ Len(d) > 0 /\ Head(d) = d[1] /\ Len(e) = Len(d) - 1
      /\ \A i \in 1..Len(e) : i + 1 \in 1..Len(d) /\ e[i] = d[i + 1]
      /\ Ordered(sh, e, <<>>, n)
  BY Rest
<1>2. /\ Len(sh) \in Nat /\ Len(s) = Len(sh) + 1 /\ s[Len(sh) + 1] = d[1].n
      /\ \A i \in 1..Len(sh) : s[i] = sh[i]
  BY <1>1, Queues
<1>3. /\ \A i \in 1..Len(sh) : sh[i] \in Nat
      /\ \A i \in 1..Len(d) : d[i].n \in Nat
      /\ \A i \in 1..Len(b) : b[i].n \in Nat
  BY Numbers
<1>4. d[1].t = "out" /\ 1 \in 1..Len(d)
  BY <1>1
<1> HIDE DEF e, s
<1>5. \A i \in 1..Len(s) : (i \in 1..Len(sh) /\ s[i] = sh[i]) \/ (i = Len(sh) + 1 /\ s[i] = d[1].n)
  BY <1>2
<1>6. d[1].n <= n /\ \A h \in 1..Len(sh) : sh[h] < d[1].n
  BY <1>4 DEF Ordered
<1>7. ASSUME NEW i \in 1..Len(s), NEW j \in 1..Len(s), i < j PROVE s[i] < s[j]
  <2>1. i \in 1..Len(sh) /\ s[i] = sh[i]
    BY <1>2, <1>5, <1>7
  <2> QED  BY <1>5, <1>6, <1>7, <2>1 DEF Ordered
<1>8. \A i \in 1..Len(s) : s[i] <= n
  BY <1>5, <1>6 DEF Ordered
<1>9. ASSUME NEW i \in 1..Len(e), e[i].t = "out" PROVE e[i].n <= n /\ \A h \in 1..Len(s) : s[h] < e[i].n
  <2>1. d[1].n < d[i + 1].n /\ e[i] = d[i + 1] /\ i + 1 \in 1..Len(d)
    <3>1. 1 < i + 1 /\ i + 1 \in 1..Len(d) /\ d[i + 1].t = "out" /\ e[i] = d[i + 1]
      BY <1>1, <1>9
    <3> QED  BY <1>4, <3>1 DEF Ordered
  <2>2. e[i].n <= n /\ \A h \in 1..Len(sh) : sh[h] < e[i].n
    BY <1>1, <1>9 DEF Ordered
  <2> QED  BY <1>5, <2>1, <2>2
<1>10. b # <<>> => Signed(e) /\ \A h \in 1..Len(b) : d[1].n < b[h].n
  <2> SUFFICES ASSUME b # <<>> PROVE Signed(e) /\ \A h \in 1..Len(b) : d[1].n < b[h].n
    OBVIOUS
  <2>1. PICK g \in 1..Len(d) : d[g].t = "migrated"
    BY DEF Ordered, Signed
  <2>2. 1 < g /\ g - 1 \in 1..Len(e)
    BY <1>1, <1>4, <2>1
  <2>3. e[g - 1] = d[g]
    BY <1>1, <2>2
  <2>4. Signed(e)
    BY <2>1, <2>2, <2>3 DEF Signed
  <2>5. \A h \in 1..Len(b) : d[1].n < b[h].n
    BY <1>4, <2>1, <2>2 DEF Ordered
  <2> QED  BY <2>4, <2>5
<1>11. \A i \in 1..Len(b) : b[i].n <= n /\ \A h \in 1..Len(s) : s[h] < b[i].n
  <2> TAKE i \in 1..Len(b)
  <2>1. b # <<>>
    OBVIOUS
  <2>2. d[1].n < b[i].n /\ b[i].n <= n /\ \A h \in 1..Len(sh) : sh[h] < b[i].n
    BY <1>10, <2>1 DEF Ordered
  <2> QED  BY <1>5, <2>2
<1>12. ASSUME NEW i \in 1..Len(e), NEW g \in 1..Len(e), NEW h \in 1..Len(b), e[g].t = "migrated", e[i].t = "out"
       PROVE  IF i < g THEN e[i].n < b[h].n ELSE b[h].n < e[i].n
  <2>1. /\ i + 1 \in 1..Len(d) /\ g + 1 \in 1..Len(d) /\ e[i] = d[i + 1] /\ e[g] = d[g + 1]
        /\ (i < g <=> i + 1 < g + 1)
    BY <1>1
  <2> QED  BY <1>12, <2>1 DEF Ordered
<1>13. Ordered(s, e, b, n)
  BY <1>1, <1>7, <1>8, <1>9, <1>10, <1>11, <1>12 DEF Ordered
<1> QED  BY <1>13 DEF e, s

LEMMA ShowsKept ==
    ASSUME NEW sh \in Seq(1..MaxOut), NEW d \in Seq(Link!Relayed), NEW b \in Seq(Link!Chunk),
           NEW n \in Nat, Ordered(sh, d, b, n), d # <<>>, Head(d).t = "migrated"
    PROVE  Ordered(sh \o Link!Outs(b), Tail(d), <<>>, n)
<1> DEFINE e == Tail(d)
           s == sh \o Link!Outs(b)
<1>1. /\ Len(d) \in Nat /\ Len(d) > 0 /\ Head(d) = d[1] /\ Len(e) = Len(d) - 1
      /\ \A i \in 1..Len(e) : i + 1 \in 1..Len(d) /\ e[i] = d[i + 1]
      /\ Ordered(sh, e, <<>>, n)
  BY Rest
<1>2. Len(sh) \in Nat /\ Len(b) \in Nat
  OBVIOUS
<1>3. \A i \in 1..Len(s) : \/ i \in 1..Len(sh) /\ s[i] = sh[i]
                           \/ /\ i > Len(sh) /\ i - Len(sh) \in 1..Len(b)
                              /\ s[i] = b[i - Len(sh)].n
  <2> DEFINE o == Link!Outs(b)
  <2>1. o \in Seq(1..MaxOut) /\ Len(o) = Len(b) /\ \A i \in 1..Len(b) : o[i] = b[i].n
    BY OutsAre
  <2> HIDE DEF o
  <2>2. o \in Seq(1..MaxOut)
    BY <2>1
  <2>3. Len(sh \o o) = Len(sh) + Len(o) /\ \A i \in 1..(Len(sh) + Len(o)) :
            (sh \o o)[i] = IF i <= Len(sh) THEN sh[i] ELSE o[i - Len(sh)]
    BY <2>2, Joined
  <2>4. \A i \in 1..(Len(sh) + Len(b)) : i \in 1..Len(sh) \/ (i > Len(sh) /\ i - Len(sh) \in 1..Len(b))
    BY <1>2
  <2>5. s = sh \o o
    BY DEF o
  <2> QED  BY <1>2, <2>1, <2>3, <2>4, <2>5
<1>4. d[1].t = "migrated" /\ 1 \in 1..Len(d)
  BY <1>1
<1> HIDE DEF e, s
<1>5. \A h \in 1..Len(b) : b[h].n <= n /\ \A k \in 1..Len(sh) : sh[k] < b[h].n
  BY DEF Ordered
<1>6. ASSUME NEW i \in 1..Len(s), NEW j \in 1..Len(s), i < j PROVE s[i] < s[j]
  <2>1. CASE i \in 1..Len(sh) /\ s[i] = sh[i] /\ j \in 1..Len(sh) /\ s[j] = sh[j]
    BY <1>6, <2>1 DEF Ordered
  <2>2. CASE i \in 1..Len(sh) /\ s[i] = sh[i] /\ j > Len(sh)
    <3>1. j - Len(sh) \in 1..Len(b) /\ s[j] = b[j - Len(sh)].n
      BY <1>2, <1>3, <2>2
    <3> QED  BY <1>5, <2>2, <3>1
  <2>3. CASE i > Len(sh) /\ j > Len(sh)
    <3>1. i \in Nat /\ j \in Nat /\ i \notin 1..Len(sh) /\ j \notin 1..Len(sh)
      BY <1>2, <2>3
    <3>2. /\ i - Len(sh) \in 1..Len(b) /\ j - Len(sh) \in 1..Len(b)
          /\ s[i] = b[i - Len(sh)].n /\ s[j] = b[j - Len(sh)].n
      BY <1>3, <3>1
    <3>3. i - Len(sh) < j - Len(sh)
      BY <1>2, <1>6, <3>1
    <3> QED  BY <3>2, <3>3 DEF Ordered
  <2>4. ~(i > Len(sh) /\ j <= Len(sh))
    BY <1>2, <1>6
  <2>5. (i \in 1..Len(sh) /\ s[i] = sh[i]) \/ i > Len(sh)
    BY <1>3
  <2>6. (j \in 1..Len(sh) /\ s[j] = sh[j]) \/ j > Len(sh)
    BY <1>3
  <2>7. j \in 1..Len(sh) => j <= Len(sh)
    BY <1>2
  <2> QED  BY <2>1, <2>2, <2>3, <2>4, <2>5, <2>6, <2>7
<1>7. \A i \in 1..Len(s) : s[i] <= n
  BY <1>3, <1>5 DEF Ordered
<1>8. ASSUME NEW i \in 1..Len(e), e[i].t = "out" PROVE e[i].n <= n /\ \A h \in 1..Len(s) : s[h] < e[i].n
  <2>1. \A h \in 1..Len(b) : b[h].n < e[i].n
    <3>1. i + 1 \in 1..Len(d) /\ ~(i + 1 < 1) /\ d[i + 1].t = "out" /\ e[i] = d[i + 1]
      BY <1>1, <1>8
    <3> QED  BY <1>4, <3>1 DEF Ordered
  <2>2. e[i].n <= n /\ \A h \in 1..Len(sh) : sh[h] < e[i].n
    BY <1>1, <1>8 DEF Ordered
  <2> QED  BY <1>3, <2>1, <2>2
<1>9. Ordered(s, e, <<>>, n)
  BY <1>1, <1>6, <1>7, <1>8 DEF Ordered
<1> QED  BY <1>9 DEF e, s

-----------------------------------------------------------------------------
(* One move is asked for, and one is made *)

LEMMA AsksAre ==
    ASSUME NEW S, NEW q \in Seq(S)
    PROVE  /\ \A x : x.t # "migrate" =>
                 (Asks(Append(q, x)) <=> Asks(q)) /\ (OneAsk(q) => OneAsk(Append(q, x)))
           /\ \A x : ~Asks(q) => OneAsk(Append(q, x))
           /\ q # <<>> => /\ Asks(Tail(q)) => Asks(q)
                          /\ OneAsk(q) => OneAsk(Tail(q))
                          /\ Head(q).t = "migrate" => Asks(q)
                          /\ OneAsk(q) /\ Head(q).t = "migrate" => ~Asks(Tail(q))
<1>1. ASSUME NEW x
      PROVE  /\ x.t # "migrate" =>
                    (Asks(Append(q, x)) <=> Asks(q)) /\ (OneAsk(q) => OneAsk(Append(q, x)))
             /\ ~Asks(q) => OneAsk(Append(q, x))
  <2> DEFINE e == Append(q, x)
  <2>1. /\ Len(q) \in Nat /\ Len(e) = Len(q) + 1 /\ e[Len(q) + 1] = x
        /\ \A i \in 1..Len(q) : e[i] = q[i]
    BY Queues
  <2> HIDE DEF e
  <2>2. \A i \in 1..Len(e) : (i \in 1..Len(q) /\ e[i] = q[i]) \/ (i = Len(q) + 1 /\ e[i] = x)
    BY <2>1
  <2>3. \A i \in 1..Len(q) : i \in 1..Len(e)
    BY <2>1
  <2>4. x.t # "migrate" => (Asks(e) <=> Asks(q))
    BY <2>1, <2>2, <2>3 DEF Asks
  <2>5. x.t # "migrate" => (OneAsk(q) => OneAsk(e))
    BY <2>2 DEF OneAsk
  <2>6. ~Asks(q) => OneAsk(e)
    BY <2>2 DEF OneAsk, Asks
  <2> QED  BY <2>4, <2>5, <2>6 DEF e
<1>2. ASSUME q # <<>>
      PROVE  /\ Asks(Tail(q)) => Asks(q)
             /\ OneAsk(q) => OneAsk(Tail(q))
             /\ Head(q).t = "migrate" => Asks(q)
             /\ OneAsk(q) /\ Head(q).t = "migrate" => ~Asks(Tail(q))
  <2> DEFINE e == Tail(q)
  <2>1. /\ Len(q) \in Nat /\ Len(q) # 0 /\ Len(e) = Len(q) - 1 /\ Head(q) = q[1]
        /\ \A i \in 1..Len(e) : e[i] = q[i + 1]
    BY <1>2, Queues
  <2> HIDE DEF e
  <2>2. \A i \in 1..Len(e) : i + 1 \in 1..Len(q) /\ i + 1 # 1 /\ e[i] = q[i + 1]
    BY <2>1
  <2>3. 1 \in 1..Len(q)
    BY <2>1
  <2>4. Asks(e) => Asks(q)
    BY <2>2 DEF Asks
  <2>5. ASSUME OneAsk(q) PROVE OneAsk(e)
    <3>1. ASSUME NEW i \in 1..Len(e), NEW j \in 1..Len(e), e[i].t = "migrate", e[j].t = "migrate"
          PROVE  i = j
      <4>1. i + 1 = j + 1
        BY <2>2, <2>5, <3>1 DEF OneAsk
      <4> QED  BY <4>1
    <3> QED  BY <3>1 DEF OneAsk
  <2>6. Head(q).t = "migrate" => Asks(q)
    BY <2>1, <2>3 DEF Asks
  <2>7. OneAsk(q) /\ Head(q).t = "migrate" => ~Asks(e)
    BY <2>1, <2>2, <2>3 DEF OneAsk, Asks
  <2> QED  BY <2>4, <2>5, <2>6, <2>7 DEF e
<1> QED  BY <1>1, <1>2

LEMMA SignedAre ==
    ASSUME NEW S, NEW q \in Seq(S)
    PROVE  /\ \A x : x.t # "migrated" => (Signed(Append(q, x)) <=> Signed(q))
           /\ q # <<>> => /\ Signed(Tail(q)) => Signed(q)
                          /\ Head(q).t = "migrated" => Signed(q)
<1>1. ASSUME NEW x, x.t # "migrated" PROVE Signed(Append(q, x)) <=> Signed(q)
  <2> DEFINE e == Append(q, x)
  <2>1. /\ Len(q) \in Nat /\ Len(e) = Len(q) + 1 /\ e[Len(q) + 1] = x
        /\ \A i \in 1..Len(q) : e[i] = q[i]
    BY Queues
  <2> HIDE DEF e
  <2>2. \A i \in 1..Len(e) : (i \in 1..Len(q) /\ e[i] = q[i]) \/ (i = Len(q) + 1 /\ e[i] = x)
    BY <2>1
  <2>3. \A i \in 1..Len(q) : i \in 1..Len(e)
    BY <2>1
  <2>4. Signed(e) <=> Signed(q)
    BY <1>1, <2>1, <2>2, <2>3 DEF Signed
  <2> QED  BY <2>4 DEF e
<1>2. ASSUME q # <<>>
      PROVE  (Signed(Tail(q)) => Signed(q)) /\ (Head(q).t = "migrated" => Signed(q))
  <2> DEFINE e == Tail(q)
  <2>1. /\ Len(q) \in Nat /\ Len(q) # 0 /\ Len(e) = Len(q) - 1 /\ Head(q) = q[1]
        /\ \A i \in 1..Len(e) : e[i] = q[i + 1]
    BY <1>2, Queues
  <2> HIDE DEF e
  <2>2. \A i \in 1..Len(e) : i + 1 \in 1..Len(q) /\ e[i] = q[i + 1]
    BY <2>1
  <2>3. 1 \in 1..Len(q)
    BY <2>1
  <2>4. Signed(e) => Signed(q)
    BY <2>2 DEF Signed
  <2>5. Head(q).t = "migrated" => Signed(q)
    BY <2>1, <2>3 DEF Signed
  <2> QED  BY <2>4, <2>5 DEF e
<1> QED  BY <1>1, <1>2

LEMMA LinkMessages ==
    /\ \A n \in 1..MaxOut : Link!Out(n) \in Link!Relayed /\ Link!Out(n) \in Link!Chunk
    /\ \A n : Link!Out(n).t = "out" /\ Link!Out(n).n = n
    /\ \A n \in 1..MaxKeys : Link!Key(n) \in Link!Upward /\ Link!Key(n) \in Link!Keystroke
    /\ \A n : Link!Key(n).t = "key"
    /\ Link!Sign("migrate") \in Link!Upward
    /\ Link!Sign("migrated") \in Link!Relayed /\ Link!Sign("fallback") \in Link!Relayed
    /\ \A t : Link!Sign(t).t = t
BY PartsAssumption DEF Link!Out, Link!Key, Link!Sign, Link!Relayed, Link!Chunk, Link!Upward, Link!Keystroke

LEMMA LinkQueues ==
    ASSUME NEW S, NEW q \in Seq(S)
    PROVE  /\ \A x \in S : Append(q, x) \in Seq(S)
           /\ q # <<>> => Head(q) \in S /\ Tail(q) \in Seq(S)
           /\ <<>> \in Seq(S)
<1>1. \A x \in S : Append(q, x) \in Seq(S)
  BY Queues
<1>2. ASSUME q # <<>> PROVE Head(q) \in S /\ Tail(q) \in Seq(S)
  <2>1. Len(q) \in Nat /\ Len(q) # 0 /\ Head(q) = q[1] /\ Tail(q) \in Seq(S) /\ \A i \in 1..Len(q) : q[i] \in S
    BY <1>2, Queues
  <2> QED  BY <2>1
<1> QED  BY <1>1, <1>2

LEMMA LinkFields ==
    ASSUME Link!TypeOK
    PROVE  /\ page.dc \in {"none", "open", "closed"} /\ page.active \in BOOLEAN
           /\ page.timer \in BOOLEAN /\ page.buffer \in Seq(Link!Chunk) /\ page.typed \in 0..MaxKeys
           /\ wing.dc \in {"none", "open", "closed"} /\ wing.mode \in {"relay", "p2p"}
           /\ wing.look \in 0..MaxLook /\ wing.found \in BOOLEAN /\ wing.produced \in 0..MaxOut
           /\ wing.locked \in BOOLEAN
           /\ net.down \in Seq(Link!Relayed) /\ net.up \in Seq(Link!Upward)
           /\ net.dcDown \in Seq(Link!Chunk) /\ net.dcUp \in Seq(Link!Keystroke)
           /\ net.link \in {"none", "up", "cut"}
           /\ shown \in Seq(1..MaxOut) /\ taken \in Seq(1..MaxKeys)
BY DEF Link!TypeOK, Link!Pages, Link!Wings, Link!Nets

LEMMA NetsAre ==
    ASSUME NEW q \in Link!Nets
    PROVE  /\ \A x \in Seq(Link!Relayed) : [q EXCEPT !.down = x] \in Link!Nets
           /\ \A x \in Seq(Link!Upward) : [q EXCEPT !.up = x] \in Link!Nets
           /\ \A x \in Seq(Link!Chunk) : [q EXCEPT !.dcDown = x] \in Link!Nets
           /\ \A x \in Seq(Link!Keystroke) : [q EXCEPT !.dcUp = x] \in Link!Nets
           /\ [q EXCEPT !.link = "up"] \in Link!Nets
           /\ Link!Cut(q) \in Link!Nets
           /\ q.down \in Seq(Link!Relayed) /\ q.up \in Seq(Link!Upward)
           /\ q.dcDown \in Seq(Link!Chunk) /\ q.dcUp \in Seq(Link!Keystroke)
<1>1. <<>> \in Seq(Link!Chunk) /\ <<>> \in Seq(Link!Keystroke)
  OBVIOUS
<1> QED  BY <1>1 DEF Link!Nets, Link!Cut

LEMMA PagesAre ==
    ASSUME NEW q \in Link!Pages
    PROVE  /\ [q EXCEPT !.dc = "open", !.timer = TRUE] \in Link!Pages
           /\ [q EXCEPT !.dc = "closed", !.buffer = <<>>, !.timer = FALSE] \in Link!Pages
           /\ Link!Cleaned(q) \in Link!Pages
           /\ Link!CompleteMigration(q) \in Link!Pages
           /\ \A x \in Seq(Link!Chunk) : [q EXCEPT !.buffer = x] \in Link!Pages
           /\ \A x \in 0..MaxKeys : [q EXCEPT !.typed = x] \in Link!Pages
           /\ q.buffer \in Seq(Link!Chunk) /\ q.typed \in 0..MaxKeys
<1>1. <<>> \in Seq(Link!Chunk)
  OBVIOUS
<1> QED  BY <1>1 DEF Link!Pages, Link!Cleaned, Link!CompleteMigration

LEMMA WingsAre ==
    ASSUME NEW q \in Link!Wings
    PROVE  /\ [q EXCEPT !.dc = "open"] \in Link!Wings
           /\ Link!FallbackToRelay(q) \in Link!Wings
           /\ \A x \in 0..MaxOut : [q EXCEPT !.produced = x] \in Link!Wings
           /\ \A x \in 0..MaxLook : [q EXCEPT !.look = x] \in Link!Wings
           /\ [q EXCEPT !.look = 0, !.found = TRUE] \in Link!Wings
           /\ [q EXCEPT !.found = FALSE, !.mode = "p2p"] \in Link!Wings
           /\ q.produced \in 0..MaxOut /\ q.look \in 0..MaxLook
<1>1. 0 \in 0..MaxLook
  BY PartsAssumption
<1> QED  BY <1>1 DEF Link!Wings, Link!FallbackToRelay

LEMMA LinkTypes ==
    ASSUME Link!TypeOK, Link!Next
    PROVE  Link!TypeOK'
<1>0. page \in Link!Pages /\ wing \in Link!Wings /\ net \in Link!Nets
      /\ shown \in Seq(1..MaxOut) /\ taken \in Seq(1..MaxKeys)
  BY DEF Link!TypeOK
<1>1. CASE Link!Connects
  BY SMTT(30), <1>0, <1>1, NetsAre DEF Link!Connects, Link!TypeOK
<1>2. CASE Link!WingOpens
  BY <1>0, <1>2, WingsAre DEF Link!WingOpens, Link!TypeOK
<1>3. CASE Link!PageOpens
  <2>1. Append(net.up, Link!Sign("migrate")) \in Seq(Link!Upward)
    BY <1>0, NetsAre, LinkQueues, LinkMessages
  <2>2. page' \in Link!Pages
    BY <1>0, <1>3, PagesAre DEF Link!PageOpens
  <2>3. net' \in Link!Nets
    BY <1>0, <1>3, <2>1, NetsAre DEF Link!PageOpens
  <2> QED  BY <1>0, <1>3, <2>2, <2>3 DEF Link!PageOpens, Link!TypeOK
<1>4. CASE Link!TimesOut
  BY <1>0, <1>4, PagesAre, NetsAre DEF Link!TimesOut, Link!TypeOK
<1>5. CASE Link!Fails
  BY <1>0, <1>5, NetsAre DEF Link!Fails, Link!TypeOK
<1>6. CASE Link!PageCloses
  BY <1>0, <1>6, PagesAre DEF Link!PageCloses, Link!TypeOK
<1>7. CASE Link!WingCloses
  <2>1. Append(net.down, Link!Sign("fallback")) \in Seq(Link!Relayed)
    BY <1>0, NetsAre, LinkQueues, LinkMessages
  <2>2. net' \in Link!Nets
    BY <1>0, <1>7, <2>1, NetsAre DEF Link!WingCloses
  <2> QED  BY <1>0, <1>7, <2>2, WingsAre DEF Link!WingCloses, Link!TypeOK
<1>8. CASE Link!WingWrites
  <2> DEFINE m == Link!Out(wing.produced + 1)
  <2>1. wing.produced + 1 \in 0..MaxOut /\ wing.produced + 1 \in 1..MaxOut
    <3>1. wing.produced \in 0..MaxOut
      BY <1>0, WingsAre
    <3>2. wing.produced < MaxOut
      BY <1>8 DEF Link!WingWrites
    <3> QED  BY SMTT(30), <3>1, <3>2, PartsAssumption
  <2>2. m \in Link!Relayed /\ m \in Link!Chunk
    BY <2>1, LinkMessages
  <2> HIDE DEF m
  <2>3. Append(net.down, m) \in Seq(Link!Relayed) /\ Append(net.dcDown, m) \in Seq(Link!Chunk)
    BY <1>0, <2>2, NetsAre, LinkQueues
  <2>4. \/ net' = net
        \/ net' = [net EXCEPT !.down = Append(net.down, m)]
        \/ net' = [net EXCEPT !.dcDown = Append(net.dcDown, m)]
    BY <1>8 DEF Link!WingWrites, m
  <2>5. net' \in Link!Nets
    BY <1>0, <2>3, <2>4, NetsAre
  <2> QED  BY <1>0, <1>8, <2>1, <2>5, WingsAre DEF Link!WingWrites, Link!TypeOK
<1>9. CASE Link!WingReads
  <2>1. net.up # <<>> /\ net' = [net EXCEPT !.up = Tail(@)] /\ UNCHANGED <<page, shown>>
    BY <1>9 DEF Link!WingReads
  <2>2. Head(net.up) \in Link!Upward /\ Tail(net.up) \in Seq(Link!Upward)
    BY <1>0, <2>1, NetsAre, LinkQueues
  <2>3. Head(net.up).t # "migrate" => Head(net.up).n \in 1..MaxKeys
    BY <2>2 DEF Link!Upward, Link!Keystroke
  <2>4. taken' = taken \/ (Head(net.up).t # "migrate" /\ taken' = Append(taken, Head(net.up).n))
    BY <1>9 DEF Link!WingReads
  <2>5. taken' \in Seq(1..MaxKeys)
    BY <1>0, <2>3, <2>4, LinkQueues
  <2>6. wing' = wing \/ wing' = [wing EXCEPT !.look = MaxLook]
    BY <1>9 DEF Link!WingReads
  <2>7. wing' \in Link!Wings
    <3>1. MaxLook \in 0..MaxLook
      BY PartsAssumption
    <3> QED  BY <1>0, <2>6, <3>1, WingsAre
  <2>8. net' \in Link!Nets
    BY <1>0, <2>1, <2>2, NetsAre
  <2> QED  BY <1>0, <2>1, <2>5, <2>7, <2>8 DEF Link!TypeOK
<1>10. CASE Link!WingReadsDC
  <2>1. /\ net.dcUp # <<>> /\ net' = [net EXCEPT !.dcUp = Tail(@)] /\ UNCHANGED <<page, wing, shown>>
        /\ taken' = Append(taken, Head(net.dcUp).n)
    BY <1>10 DEF Link!WingReadsDC
  <2>2. Head(net.dcUp) \in Link!Keystroke /\ Tail(net.dcUp) \in Seq(Link!Keystroke)
    BY <1>0, <2>1, NetsAre, LinkQueues
  <2>3. Head(net.dcUp).n \in 1..MaxKeys
    BY <2>2 DEF Link!Keystroke
  <2>4. taken' \in Seq(1..MaxKeys)
    BY <1>0, <2>1, <2>3, LinkQueues
  <2>5. net' \in Link!Nets
    BY <1>0, <2>1, <2>2, NetsAre
  <2> QED  BY <1>0, <2>1, <2>4, <2>5 DEF Link!TypeOK
<1>11. CASE Link!Looks
  <2>1. wing.look > 0 => wing.look - 1 \in 0..MaxLook
    <3>1. wing.look \in 0..MaxLook
      BY <1>0, WingsAre
    <3> QED  BY SMTT(30), <3>1, PartsAssumption
  <2>2. wing' = [wing EXCEPT !.look = 0, !.found = TRUE] \/ wing' = [wing EXCEPT !.look = wing.look - 1]
    BY SMTT(30), <1>11 DEF Link!Looks
  <2>3. wing' \in Link!Wings
    BY <1>0, <1>11, <2>1, <2>2, WingsAre DEF Link!Looks
  <2> QED  BY <1>0, <1>11, <2>3 DEF Link!Looks, Link!TypeOK
<1>12. CASE Link!MigrateToDC
  <2>1. Append(net.down, Link!Sign("migrated")) \in Seq(Link!Relayed)
    BY <1>0, NetsAre, LinkQueues, LinkMessages
  <2>2. net' \in Link!Nets
    BY <1>0, <1>12, <2>1, NetsAre DEF Link!MigrateToDC
  <2> QED  BY <1>0, <1>12, <2>2, WingsAre DEF Link!MigrateToDC, Link!TypeOK
<1>13. CASE Link!PageReads
  <2>1. net.down # <<>> /\ UNCHANGED <<wing, taken>>
    BY <1>13 DEF Link!PageReads
  <2>2. Head(net.down) \in Link!Relayed /\ Tail(net.down) \in Seq(Link!Relayed)
    BY <1>0, <2>1, NetsAre, LinkQueues
  <2>3. [net EXCEPT !.down = Tail(net.down)] \in Link!Nets
    BY <1>0, <2>2, NetsAre
  <2>4. net' = [net EXCEPT !.down = Tail(net.down)] \/ net' = Link!Cut([net EXCEPT !.down = Tail(net.down)])
    BY <1>13 DEF Link!PageReads
  <2>5. net' \in Link!Nets
    BY <2>3, <2>4, NetsAre
  <2>6. CASE Head(net.down).t = "out"
    <3>1. shown' = Append(shown, Head(net.down).n) /\ page' = page
      BY <1>13, <2>6 DEF Link!PageReads
    <3>2. Head(net.down).n \in 1..MaxOut
      BY <2>2, <2>6 DEF Link!Relayed, Link!Chunk
    <3>3. shown' \in Seq(1..MaxOut)
      BY <1>0, <3>1, <3>2, LinkQueues
    <3> QED  BY <1>0, <2>1, <2>5, <3>1, <3>3 DEF Link!TypeOK
  <2>7. CASE Head(net.down).t = "migrated"
    <3> DEFINE o == Link!Outs(page.buffer)
    <3>1. o \in Seq(1..MaxOut)
      BY <1>0, PagesAre, OutsAre
    <3>2. page' = Link!CompleteMigration(page) /\ shown' = shown \o o
      BY <1>13, <2>7 DEF Link!PageReads, Link!Flushed
    <3> HIDE DEF o
    <3>3. shown' \in Seq(1..MaxOut)
      BY <1>0, <3>1, <3>2, Joined
    <3> QED  BY <1>0, <2>1, <2>5, <3>2, <3>3, PagesAre DEF Link!TypeOK
  <2>8. CASE Head(net.down).t = "fallback"
    <3>1. page' = Link!Cleaned(page) /\ shown' = shown
      BY <1>13, <2>8 DEF Link!PageReads
    <3> QED  BY <1>0, <2>1, <2>5, <3>1, PagesAre DEF Link!TypeOK
  <2> QED  BY <2>2, <2>6, <2>7, <2>8 DEF Link!Relayed, Link!Chunk
<1>14. CASE Link!PageReadsDC
  <2>1. net.dcDown # <<>> /\ net' = [net EXCEPT !.dcDown = Tail(@)] /\ UNCHANGED <<wing, taken>>
    BY <1>14 DEF Link!PageReadsDC
  <2>2. Head(net.dcDown) \in Link!Chunk /\ Tail(net.dcDown) \in Seq(Link!Chunk)
    BY <1>0, <2>1, NetsAre, LinkQueues
  <2>3. Head(net.dcDown).n \in 1..MaxOut
    BY <2>2 DEF Link!Chunk
  <2>4. net' \in Link!Nets
    BY <1>0, <2>1, <2>2, NetsAre
  <2>5. Append(shown, Head(net.dcDown).n) \in Seq(1..MaxOut)
    BY <1>0, <2>3, LinkQueues
  <2>6. Append(page.buffer, Head(net.dcDown)) \in Seq(Link!Chunk)
    BY <1>0, <2>2, PagesAre, LinkQueues
  <2>7. [page EXCEPT !.buffer = Append(page.buffer, Head(net.dcDown))] \in Link!Pages
    BY <1>0, <2>6, PagesAre
  <2> QED  BY <1>0, <1>14, <2>1, <2>4, <2>5, <2>7 DEF Link!PageReadsDC, Link!TypeOK
<1>15. CASE Link!Types
  <2> DEFINE m == Link!Key(page.typed + 1)
  <2>1. page.typed + 1 \in 1..MaxKeys /\ page.typed + 1 \in 0..MaxKeys
    <3>1. page.typed \in 0..MaxKeys
      BY <1>0, PagesAre
    <3>2. page.typed < MaxKeys
      BY <1>15 DEF Link!Types
    <3> QED  BY SMTT(30), <3>1, <3>2, PartsAssumption
  <2>2. m \in Link!Upward /\ m \in Link!Keystroke
    BY <2>1, LinkMessages
  <2> HIDE DEF m
  <2>3. Append(net.up, m) \in Seq(Link!Upward) /\ Append(net.dcUp, m) \in Seq(Link!Keystroke)
    BY <1>0, <2>2, NetsAre, LinkQueues
  <2>4. net' = [net EXCEPT !.up = Append(net.up, m)] \/ net' = [net EXCEPT !.dcUp = Append(net.dcUp, m)]
    BY <1>15 DEF Link!Types, m
  <2>5. net' \in Link!Nets
    BY <1>0, <2>3, <2>4, NetsAre
  <2>6. page' \in Link!Pages
    BY <1>0, <1>15, <2>1, PagesAre DEF Link!Types
  <2> QED  BY <1>0, <1>15, <2>5, <2>6 DEF Link!Types, Link!TypeOK
<1> QED  BY <1>1, <1>2, <1>3, <1>4, <1>5, <1>6, <1>7, <1>8, <1>9, <1>10, <1>11, <1>12, <1>13,
            <1>14, <1>15 DEF Link!Next

LEMMA OnceKept ==
    ASSUME Link!TypeOK, Once, Link!Next
    PROVE  Once'
<1> USE LinkFields DEF Once
<1>1. CASE Link!Connects
  BY <1>1 DEF Link!Connects
<1>2. CASE Link!WingOpens
  BY <1>2 DEF Link!WingOpens
<1>3. CASE Link!PageOpens
  <2> DEFINE e == Append(net.up, Link!Sign("migrate"))
  <2>1. OneAsk(e)
    BY <1>3, AsksAre DEF Link!PageOpens
  <2> HIDE DEF e
  <2>2. net'.up = e /\ net'.down = net.down /\ page'.dc = "open" /\ page'.active = page.active /\ wing' = wing
    BY <1>3 DEF Link!PageOpens, Link!TypeOK, Link!Pages, Link!Wings, Link!Nets, e
  <2>3. ~wing.found /\ wing.look = 0 /\ ~(wing.mode = "p2p" \/ page.active \/ Signed(net.down))
    BY <1>3 DEF Link!PageOpens
  <2> QED  BY <2>1, <2>2, <2>3
<1>4. CASE Link!TimesOut
  BY <1>4 DEF Link!TimesOut, Link!Cut, Link!TypeOK, Link!Pages, Link!Wings, Link!Nets
<1>5. CASE Link!Fails
  BY <1>5 DEF Link!Fails, Link!Cut, Link!TypeOK, Link!Pages, Link!Wings, Link!Nets
<1>6. CASE Link!PageCloses
  BY <1>6 DEF Link!PageCloses, Link!Cleaned, Link!TypeOK, Link!Pages, Link!Wings, Link!Nets
<1>7. CASE Link!WingCloses
  <2> DEFINE e == Append(net.down, Link!Sign("fallback"))
  <2>0. \A x : x.t # "migrated" => (Signed(Append(net.down, x)) <=> Signed(net.down))
    BY SignedAre
  <2>1. Signed(e) <=> Signed(net.down)
    BY <2>0, LinkMessages
  <2> HIDE DEF e
  <2>2. /\ net'.up = net.up /\ (net'.down = net.down \/ net'.down = e) /\ page' = page
        /\ wing'.mode = "relay" /\ wing'.look = wing.look /\ wing'.found = wing.found
    BY <1>7 DEF Link!WingCloses, Link!FallbackToRelay, Link!TypeOK, Link!Pages, Link!Wings, Link!Nets, e
  <2>3. Signed(net'.down) => Signed(net.down)
    BY <2>1, <2>2
  <2> QED  BY <2>2, <2>3
<1>8. CASE Link!WingWrites
  <2> DEFINE e == Append(net.down, Link!Out(wing.produced + 1))
  <2>0. \A x : x.t # "migrated" => (Signed(Append(net.down, x)) <=> Signed(net.down))
    BY SignedAre
  <2>1. Signed(e) <=> Signed(net.down)
    BY <2>0, LinkMessages
  <2> HIDE DEF e
  <2>2. /\ net'.up = net.up /\ (net'.down = net.down \/ net'.down = e) /\ page' = page
        /\ wing'.mode = wing.mode /\ wing'.look = wing.look /\ wing'.found = wing.found
    BY <1>8 DEF Link!WingWrites, Link!TypeOK, Link!Pages, Link!Wings, Link!Nets, e
  <2>3. Signed(net'.down) => Signed(net.down)
    BY <2>1, <2>2
  <2> QED  BY <2>2, <2>3
<1>9. CASE Link!WingReads
  <2> DEFINE e == Tail(net.up)
  <2>1. net.up # <<>> /\ net'.up = e /\ net'.down = net.down /\ page' = page
    BY <1>9 DEF Link!WingReads, Link!TypeOK, Link!Pages, Link!Wings, Link!Nets
  <2>2. /\ Asks(e) => Asks(net.up)
        /\ OneAsk(e)
        /\ Head(net.up).t = "migrate" => Asks(net.up) /\ ~Asks(e)
    BY <2>1, AsksAre
  <2> HIDE DEF e
  <2>3. wing.look = 0 /\ ~wing.found
    BY <1>9 DEF Link!WingReads, Link!Idle
  <2>4. wing'.mode = wing.mode /\ wing'.found = wing.found
    BY <1>9 DEF Link!WingReads, Link!TypeOK, Link!Pages, Link!Wings, Link!Nets
  <2>5. wing'.look = wing.look \/ Head(net.up).t = "migrate"
    BY <1>9 DEF Link!WingReads
  <2> QED  BY <2>1, <2>2, <2>3, <2>4, <2>5
<1>10. CASE Link!WingReadsDC
  BY <1>10 DEF Link!WingReadsDC, Link!TypeOK, Link!Pages, Link!Wings, Link!Nets
<1>11. CASE Link!Looks
  <2>1. wing.look > 0 /\ ~wing.found /\ ~Asks(net.up)
    BY <1>11 DEF Link!Looks
  <2>2. net' = net /\ page' = page /\ wing'.mode = wing.mode
    BY <1>11 DEF Link!Looks, Link!TypeOK, Link!Pages, Link!Wings, Link!Nets
  <2>3. page.dc # "none" /\ ~(wing.mode = "p2p" \/ page.active \/ Signed(net.down))
    BY <2>1
  <2>4. (wing'.look = 0 /\ wing'.found) \/ wing'.found = wing.found
    BY <1>11 DEF Link!Looks, Link!TypeOK, Link!Pages, Link!Wings, Link!Nets
  <2> QED  BY <2>1, <2>2, <2>3, <2>4
<1>12. CASE Link!MigrateToDC
  <2>1. wing.found /\ ~Asks(net.up) /\ page.dc # "none" /\ wing.look = 0
    BY <1>12 DEF Link!MigrateToDC
  <2>2. net'.up = net.up /\ page' = page /\ wing'.look = 0 /\ ~wing'.found
    BY <1>12, <2>1 DEF Link!MigrateToDC, Link!TypeOK, Link!Pages, Link!Wings, Link!Nets
  <2> QED  BY <2>1, <2>2
<1>13. CASE Link!PageReads
  <2>1. net.down # <<>> /\ wing' = wing
    BY <1>13 DEF Link!PageReads
  <2>2. net'.up = net.up /\ net'.down = Tail(net.down)
    BY <1>13 DEF Link!PageReads, Link!Cut, Link!TypeOK, Link!Pages, Link!Wings, Link!Nets
  <2>3. (Signed(Tail(net.down)) => Signed(net.down)) /\ (Head(net.down).t = "migrated" => Signed(net.down))
    BY <2>1, SignedAre
  <2>6. page \in Link!Pages /\ Head(net.down).t \in {"out", "migrated", "fallback"}
    <3>1. net.down \in Seq(Link!Relayed)
      OBVIOUS
    <3>2. Head(net.down) \in Link!Relayed
      BY <2>1, <3>1, LinkQueues
    <3> QED  BY <3>2 DEF Link!TypeOK, Link!Relayed, Link!Chunk
  <2>7. \/ page' = page
        \/ Head(net.down).t = "migrated" /\ page' = Link!CompleteMigration(page)
        \/ page' = Link!Cleaned(page)
    BY <1>13, <2>6 DEF Link!PageReads
  <2>4. page'.dc = page.dc \/ page'.dc = "closed"
    BY <2>6, <2>7 DEF Link!CompleteMigration, Link!Cleaned, Link!Pages
  <2>5. page'.active => page.active \/ Head(net.down).t = "migrated"
    BY <2>6, <2>7 DEF Link!CompleteMigration, Link!Cleaned, Link!Pages
  <2> QED  BY <2>1, <2>2, <2>3, <2>4, <2>5
<1>14. CASE Link!PageReadsDC
  BY <1>14 DEF Link!PageReadsDC, Link!TypeOK, Link!Pages, Link!Wings, Link!Nets
<1>15. CASE Link!Types
  <2> DEFINE e == Append(net.up, Link!Key(page.typed + 1))
  <2>1. (Asks(e) <=> Asks(net.up)) /\ OneAsk(e)
    BY AsksAre, LinkMessages
  <2> HIDE DEF e
  <2>2. /\ (net'.up = net.up \/ net'.up = e) /\ net'.down = net.down /\ wing' = wing
        /\ page'.dc = page.dc /\ page'.active = page.active
    BY <1>15 DEF Link!Types, Link!TypeOK, Link!Pages, Link!Wings, Link!Nets, e
  <2>3. Asks(net'.up) => Asks(net.up)
    BY <2>1, <2>2
  <2>4. OneAsk(net'.up)
    BY <2>1, <2>2
  <2> QED  BY <2>2, <2>3, <2>4
<1> QED  BY <1>1, <1>2, <1>3, <1>4, <1>5, <1>6, <1>7, <1>8, <1>9, <1>10, <1>11, <1>12, <1>13,
            <1>14, <1>15 DEF Link!Next

\* What a state's parts say of one another, with the fields of the next.

\* What a state's parts say of one another, with the fields of the next.

\* What a state's parts say of one another, with the fields of the next.
LEMMA LinkReaches ==
    ASSUME LinkInv, Link!Next, IF net.link = "cut" THEN Broken' /\ net'.link = "cut"
                               ELSE IF net'.link = "cut" THEN Broken' ELSE Stands'
    PROVE  LinkInv'
<1>1. Link!TypeOK' /\ Once'
  BY LinkTypes, OnceKept DEF LinkInv
<1>2. IF net'.link = "cut" THEN Broken' ELSE Stands'
  OBVIOUS
<1> QED  BY <1>1, <1>2 DEF LinkInv

\* The channel breaks, wherever the move is.
LEMMA Cuts ==
    ASSUME Link!TypeOK, Stands
    PROVE  Ordered(shown, net.down, page.buffer, wing.produced)
<1>1. page.buffer # <<>> => Signed(net.down)
  BY LinkFields DEF Stands
<1>2. wing.produced \in Nat
  BY LinkFields, PartsAssumption
<1>3. /\ shown \in Seq(1..MaxOut) /\ net.down \in Seq(Link!Relayed) /\ page.buffer \in Seq(Link!Chunk)
      /\ net.dcDown \in Seq(Link!Chunk)
  BY LinkFields
<1>4. Complete(shown, net.down, page.buffer, net.dcDown, wing.produced)
  BY DEF Stands
<1> QED  BY <1>1, <1>2, <1>3, <1>4, LinkBreaks

\* Steps that touch neither output nor the way it goes.
LEMMA LinkKeeps ==
    ASSUME LinkInv, Link!Next,
           Link!Connects \/ Link!WingOpens \/ Link!PageOpens \/ Link!WingReads \/ Link!WingReadsDC
             \/ Link!Looks \/ Link!Types
    PROVE  LinkInv'
<1>1. /\ net'.down = net.down /\ net'.dcDown = net.dcDown /\ page'.active = page.active
      /\ page'.buffer = page.buffer /\ shown' = shown /\ wing'.produced = wing.produced
      /\ wing'.mode = wing.mode
  <2> USE DEF LinkInv, Link!TypeOK, Link!Pages, Link!Wings, Link!Nets
  <2>1. CASE Link!Connects
    BY <2>1 DEF Link!Connects
  <2>2. CASE Link!WingOpens
    BY <2>2 DEF Link!WingOpens
  <2>3. CASE Link!PageOpens
    BY <2>3 DEF Link!PageOpens
  <2>4. CASE Link!WingReads
    BY <2>4 DEF Link!WingReads
  <2>5. CASE Link!WingReadsDC
    BY <2>5 DEF Link!WingReadsDC
  <2>6. CASE Link!Looks
    BY <2>6 DEF Link!Looks
  <2>7. CASE Link!Types
    BY <2>7 DEF Link!Types
  <2> QED  BY <2>1, <2>2, <2>3, <2>4, <2>5, <2>6, <2>7
<1>2. CASE net.link = "cut"
  <2>1. net'.link = "cut"
    BY <1>2 DEF LinkInv, Link!TypeOK, Link!Pages, Link!Wings, Link!Nets, Link!Connects, Link!WingOpens,
         Link!PageOpens, Link!WingReads, Link!WingReadsDC, Link!Looks, Link!Types
  <2>2. Broken'
    BY <1>1, <1>2 DEF LinkInv, Broken
  <2> QED  BY <1>2, <2>1, <2>2, LinkReaches
<1>3. CASE net.link # "cut"
  <2>0. Stands /\ Link!TypeOK
    BY <1>3 DEF LinkInv
  <2>1. /\ net'.link # "cut" /\ page'.dc # "closed" /\ wing'.dc # "closed"
        /\ net'.link = "none" => page'.dc = "none" /\ wing'.dc = "none"
        /\ wing'.found => wing'.dc = "open"
        /\ wing'.mode = "p2p" => wing'.dc = "open"
    <3> USE <1>1, <1>3, <2>0 DEF Stands, Link!TypeOK, Link!Pages, Link!Wings, Link!Nets
    <3>1. CASE Link!Connects
      BY <3>1 DEF Link!Connects
    <3>2. CASE Link!WingOpens
      BY <3>2 DEF Link!WingOpens
    <3>3. CASE Link!PageOpens
      BY <3>3 DEF Link!PageOpens
    <3>4. CASE Link!WingReads
      BY <3>4 DEF Link!WingReads
    <3>5. CASE Link!WingReadsDC
      BY <3>5 DEF Link!WingReadsDC
    <3>6. CASE Link!Looks
      BY <3>6 DEF Link!Looks
    <3>7. CASE Link!Types
      BY <3>7 DEF Link!Types
    <3> QED  BY <3>1, <3>2, <3>3, <3>4, <3>5, <3>6, <3>7
  <2>2. Stands'
    BY <1>1, <2>0, <2>1 DEF Stands
  <2> QED  BY <1>3, <2>1, <2>2, LinkReaches
<1> QED  BY <1>2, <1>3

LEMMA LinkCut ==
    ASSUME LinkInv, Link!Next, Link!TimesOut \/ Link!Fails \/ Link!PageCloses
    PROVE  LinkInv'
<1>1. Ordered(shown, net.down, page.buffer, wing.produced) /\ Link!TypeOK
  BY Cuts DEF LinkInv, Broken
<1>2. Ordered(shown, net.down, <<>>, wing.produced)
  BY <1>1, Drops
<1>3. /\ net'.down = net.down /\ net'.dcDown = <<>> /\ net'.link = "cut"
      /\ page'.buffer = <<>> \/ page'.buffer = page.buffer
      /\ shown' = shown /\ wing'.produced = wing.produced
  <2> USE DEF LinkInv, Link!TypeOK, Link!Pages, Link!Wings, Link!Nets
  <2>1. CASE Link!TimesOut
    BY <2>1 DEF Link!TimesOut, Link!Cut
  <2>2. CASE Link!Fails
    BY <2>2 DEF Link!Fails, Link!Cut
  <2>3. CASE Link!PageCloses
    <3>1. net.link = "cut" /\ net' = net /\ wing' = wing /\ shown' = shown /\ page' = Link!Cleaned(page)
      BY <2>3 DEF Link!PageCloses
    <3>2. net.dcDown = <<>>
      BY <3>1 DEF Broken
    <3>3. page'.buffer = <<>>
      BY <3>1 DEF Link!Cleaned
    <3> QED  BY <3>1, <3>2, <3>3
  <2> QED  BY <2>1, <2>2, <2>3
<1>4. Broken'
  BY <1>1, <1>2, <1>3 DEF Broken
<1> QED  BY <1>3, <1>4, LinkReaches

LEMMA LinkFallsBack ==
    ASSUME LinkInv, Link!Next, Link!WingCloses
    PROVE  LinkInv'
<1>1. net.link = "cut" /\ Broken /\ Link!TypeOK
  BY DEF LinkInv, Link!WingCloses
<1> DEFINE e == Append(net.down, Link!Sign("fallback"))
<1>2. /\ net'.down = net.down \/ net'.down = e
      /\ net'.dcDown = net.dcDown /\ net'.link = "cut" /\ page' = page /\ shown' = shown
      /\ wing'.produced = wing.produced
  BY <1>1 DEF Link!WingCloses, Link!FallbackToRelay, Link!TypeOK, Link!Pages, Link!Wings, Link!Nets
<1>3. Ordered(shown, e, page.buffer, wing.produced)
  <2>1. wing.produced \in Nat
    BY <1>1, LinkFields, PartsAssumption
  <2>2. /\ shown \in Seq(1..MaxOut) /\ net.down \in Seq(Link!Relayed) /\ page.buffer \in Seq(Link!Chunk)
    BY <1>1, LinkFields
  <2>3. Ordered(shown, net.down, page.buffer, wing.produced)
    BY <1>1 DEF Broken
  <2> QED  BY <2>1, <2>2, <2>3, Adds, LinkMessages
<1> HIDE DEF e
<1>4. Broken'
  BY <1>1, <1>2, <1>3 DEF Broken
<1> QED  BY <1>1, <1>2, <1>4, LinkReaches

LEMMA LinkWrites ==
    ASSUME LinkInv, Link!Next, Link!WingWrites
    PROVE  LinkInv'
<1> DEFINE m == Link!Out(wing.produced + 1)
           n == wing.produced
           d == Append(net.down, m)
           c == Append(net.dcDown, m)
<1>0. Link!TypeOK
  BY DEF LinkInv
<1>1. n \in Nat /\ n + 1 \in 1..MaxOut
  <2>1. wing.produced \in 0..MaxOut /\ wing.produced < MaxOut
    BY <1>0, LinkFields DEF Link!WingWrites
  <2> QED  BY <2>1, PartsAssumption
<1>2. m \in Link!Relayed /\ m \in Link!Chunk /\ m.t = "out" /\ m.n = n + 1
  BY <1>1, LinkMessages
<1>3. /\ shown \in Seq(1..MaxOut) /\ net.down \in Seq(Link!Relayed) /\ page.buffer \in Seq(Link!Chunk)
      /\ net.dcDown \in Seq(Link!Chunk) /\ wing.mode \in {"relay", "p2p"}
      /\ net.link \in {"none", "up", "cut"}
  BY <1>0, LinkFields
<1>4. /\ page' = page /\ shown' = shown /\ net'.link = net.link
      /\ wing'.produced = n + 1 /\ wing'.dc = wing.dc /\ wing'.mode = wing.mode
      /\ wing'.found = wing.found /\ wing'.look = wing.look
  BY <1>0 DEF Link!WingWrites, Link!TypeOK, Link!Pages, Link!Wings, Link!Nets
<1>5. /\ wing.mode = "relay" => net'.down = d /\ net'.dcDown = net.dcDown
      /\ wing.mode # "relay" => net'.down = net.down
                                /\ net'.dcDown = IF net.link = "up" THEN c ELSE net.dcDown
  BY <1>0 DEF Link!WingWrites, Link!TypeOK, Link!Pages, Link!Wings, Link!Nets
<1> HIDE DEF m, d, c, n
<1>6. CASE net.link = "cut"
  <2>1. Ordered(shown, net.down, page.buffer, n) /\ net.dcDown = <<>>
    BY <1>6 DEF LinkInv, Broken, n
  <2>2. CASE wing.mode = "relay"
    <3>1. Ordered(shown, d, page.buffer, n + 1)
      <4>1. n + 1 \in Nat
        BY <1>1
      <4> QED  BY <1>1, <1>2, <1>3, <2>1, <4>1, Adds DEF d
    <3>2. Broken'
      BY <1>4, <1>5, <2>1, <2>2, <3>1 DEF Broken
    <3> QED  BY <1>4, <1>6, <3>2, LinkReaches
  <2>3. CASE wing.mode # "relay"
    <3>1. Ordered(shown, net.down, page.buffer, n + 1)
      BY <1>1, <1>3, <2>1, LosesChunk
    <3>2. Broken'
      BY <1>4, <1>5, <1>6, <2>1, <2>3, <3>1 DEF Broken
    <3> QED  BY <1>4, <1>6, <3>2, LinkReaches
  <2> QED  BY <2>2, <2>3
<1>7. CASE net.link # "cut"
  <2>1. Stands /\ Complete(shown, net.down, page.buffer, net.dcDown, n)
    BY <1>7 DEF LinkInv, Stands, n
  <2>2. CASE wing.mode = "relay"
    <3>1. ~Signed(net.down) /\ ~page.active /\ page.buffer = <<>> /\ net.dcDown = <<>>
      BY <2>1, <2>2 DEF Stands
    <3>2. Complete(shown, d, <<>>, <<>>, n + 1) /\ ~Signed(d)
      <4>1. Complete(shown, net.down, <<>>, <<>>, n)
        BY <2>1, <3>1
      <4> QED  BY <1>1, <1>2, <1>3, <3>1, <4>1, WritesRelay DEF d
    <3>3. net'.down = d /\ net'.dcDown = <<>> /\ page'.buffer = <<>> /\ wing'.mode # "p2p"
      BY <1>4, <1>5, <2>2, <3>1
    <3>4. Complete(shown', net'.down, page'.buffer, net'.dcDown, wing'.produced)
      BY <1>4, <3>2, <3>3
    <3>5. Stands'
      BY <1>4, <2>1, <3>1, <3>2, <3>3, <3>4 DEF Stands
    <3> QED  BY <1>4, <1>7, <3>5, LinkReaches
  <2>3. CASE wing.mode = "p2p"
    <3>1. net.link = "up"
      BY <1>3, <1>7, <2>1, <2>3 DEF Stands
    <3>2. Complete(shown, net.down, page.buffer, c, n + 1)
      BY <1>1, <1>2, <1>3, <2>1, WritesChannel DEF c
    <3>3. net'.down = net.down /\ net'.dcDown = c /\ wing'.mode # "relay"
      BY <1>4, <1>5, <2>3, <3>1
    <3>4. Complete(shown', net'.down, page'.buffer, net'.dcDown, wing'.produced)
      BY <1>4, <3>2, <3>3
    <3>5. Stands'
      BY <1>4, <2>1, <2>3, <3>3, <3>4 DEF Stands
    <3> QED  BY <1>4, <1>7, <3>5, LinkReaches
  <2> QED  BY <1>3, <2>2, <2>3
<1> QED  BY <1>6, <1>7

LEMMA LinkMigrates ==
    ASSUME LinkInv, Link!Next, Link!MigrateToDC
    PROVE  LinkInv'
<1> DEFINE m == Link!Sign("migrated")
           d == Append(net.down, m)
<1>0. Link!TypeOK /\ wing.found /\ wing.mode # "p2p" /\ ~page.active /\ ~Signed(net.down)
  BY DEF LinkInv, Once, Link!MigrateToDC
<1>1. m \in Link!Relayed /\ m.t = "migrated"
  BY LinkMessages
<1>2. /\ shown \in Seq(1..MaxOut) /\ net.down \in Seq(Link!Relayed) /\ page.buffer \in Seq(Link!Chunk)
      /\ wing.mode = "relay" /\ wing.produced \in Nat
  BY <1>0, LinkFields, PartsAssumption
<1>3. /\ page' = page /\ shown' = shown /\ net'.link = net.link /\ net'.dcDown = net.dcDown
      /\ net'.down = d /\ wing'.produced = wing.produced /\ wing'.dc = wing.dc
      /\ wing'.mode = "p2p" /\ ~wing'.found
  BY <1>0 DEF Link!MigrateToDC, Link!TypeOK, Link!Pages, Link!Wings, Link!Nets
<1> HIDE DEF m
<1>4. CASE net.link = "cut"
  <2>1. Ordered(shown, net.down, page.buffer, wing.produced) /\ net.dcDown = <<>>
    BY <1>4 DEF LinkInv, Broken
  <2>2. Ordered(shown, d, page.buffer, wing.produced)
    BY <1>0, <1>1, <1>2, <2>1, Adds
  <2> HIDE DEF d
  <2>3. Broken'
    BY <1>3, <2>1, <2>2 DEF Broken
  <2> QED  BY <1>3, <1>4, <2>3, LinkReaches
<1>5. CASE net.link # "cut"
  <2>1. /\ Stands /\ Complete(shown, net.down, <<>>, <<>>, wing.produced)
        /\ page.buffer = <<>> /\ net.dcDown = <<>>
    BY <1>2, <1>5 DEF LinkInv, Stands
  <2>2. Complete(shown, d, <<>>, <<>>, wing.produced) /\ Signed(d)
    BY <1>0, <1>1, <1>2, <2>1, Signs
  <2> HIDE DEF d
  <2>3. Complete(shown', net'.down, page'.buffer, net'.dcDown, wing'.produced)
    BY <1>3, <2>1, <2>2
  <2>4. wing.dc = "open"
    BY <1>0, <2>1 DEF Stands
  <2>5. Stands'
    BY <1>0, <1>3, <2>1, <2>2, <2>3, <2>4 DEF Stands
  <2> QED  BY <1>3, <1>5, <2>5, LinkReaches
<1> QED  BY <1>4, <1>5

LEMMA LinkShows ==
    ASSUME LinkInv, Link!Next, Link!PageReads
    PROVE  LinkInv'
<1> DEFINE d == net.down
           e == Tail(net.down)
           n == wing.produced
<1>0. Link!TypeOK /\ d # <<>>
  BY DEF LinkInv, Link!PageReads
<1>1. /\ shown \in Seq(1..MaxOut) /\ d \in Seq(Link!Relayed) /\ page.buffer \in Seq(Link!Chunk)
      /\ net.dcDown \in Seq(Link!Chunk) /\ wing.mode \in {"relay", "p2p"} /\ n \in Nat
  BY <1>0, LinkFields, PartsAssumption
<1>2. Head(d).t \in {"out", "migrated", "fallback"}
  <2>1. Head(d) \in Link!Relayed
    BY <1>0, <1>1, LinkQueues
  <2> QED  BY <2>1 DEF Link!Relayed, Link!Chunk
<1>3. /\ wing' = wing /\ net'.down = e
      /\ Head(d).t # "fallback" => net'.link = net.link /\ net'.dcDown = net.dcDown
      /\ net.link = "cut" => net'.link = "cut" /\ net'.dcDown = net.dcDown
  BY <1>0 DEF Link!PageReads, Link!Cut, Link!TypeOK, Link!Pages, Link!Wings, Link!Nets
<1>4. /\ Head(d).t = "out" => shown' = Append(shown, Head(d).n) /\ page' = page
      /\ Head(d).t = "migrated" => /\ page' = Link!CompleteMigration(page)
                                   /\ shown' = shown \o Link!Outs(page.buffer)
      /\ Head(d).t = "fallback" => page' = Link!Cleaned(page) /\ shown' = shown
  BY <1>2 DEF Link!PageReads, Link!Flushed
<1>5. /\ Link!CompleteMigration(page).buffer = <<>> /\ Link!CompleteMigration(page).active = TRUE
      /\ Link!CompleteMigration(page).dc = page.dc /\ Link!Cleaned(page).buffer = <<>>
  BY <1>0 DEF Link!CompleteMigration, Link!Cleaned, Link!TypeOK, Link!Pages
<1> HIDE DEF d, e, n
<1>6. CASE net.link = "cut"
  <2>1. Ordered(shown, d, page.buffer, n) /\ net.dcDown = <<>>
    BY <1>6 DEF LinkInv, Broken, n, d
  <2>2. CASE Head(d).t = "out"
    <3>1. Ordered(Append(shown, Head(d).n), e, page.buffer, n)
      BY <1>0, <1>1, <2>1, <2>2, ShowsNext DEF e, d
    <3>2. Broken'
      BY <1>3, <1>4, <1>6, <2>1, <2>2, <3>1 DEF Broken, n
    <3> QED  BY <1>3, <1>6, <3>2, LinkReaches
  <2>3. CASE Head(d).t = "migrated"
    <3>1. Ordered(shown \o Link!Outs(page.buffer), e, <<>>, n)
      BY <1>0, <1>1, <2>1, <2>3, ShowsKept DEF e, d
    <3>2. Broken'
      BY <1>3, <1>4, <1>5, <1>6, <2>1, <2>3, <3>1 DEF Broken, n
    <3> QED  BY <1>3, <1>6, <3>2, LinkReaches
  <2>4. CASE Head(d).t = "fallback"
    <3>1. Ordered(shown, e, <<>>, n)
      BY <1>0, <1>1, <2>1, Rest DEF e, d
    <3>2. Broken'
      BY <1>3, <1>4, <1>5, <1>6, <2>1, <2>4, <3>1 DEF Broken, n
    <3> QED  BY <1>3, <1>6, <3>2, LinkReaches
  <2> QED  BY <1>2, <2>2, <2>3, <2>4
<1>7. CASE net.link # "cut"
  <2>1. Stands /\ Complete(shown, d, page.buffer, net.dcDown, n)
    BY <1>7 DEF LinkInv, Stands, n, d
  <2>2. Head(d).t # "fallback"
    <3>1. Len(d) \in Nat /\ Len(d) > 0 /\ Head(d) = d[1] /\ Len(shown) \in Nat
      BY <1>0, <1>1, Queues
    <3>2. Link!Follow(d, Link!ChunksIn(d), Len(shown))
      BY <2>1 DEF Complete
    <3>3. Link!ChunksIn(d) = Len(d) \/ (Link!ChunksIn(d) = Len(d) - 1 /\ d[Len(d)].t = "migrated")
      <4>1. Signed(d) \/ ~Signed(d)
        OBVIOUS
      <4> QED  BY <1>1, <3>1, <3>2, <4>1, ChunksAre
    <3>4. CASE Link!ChunksIn(d) > 0
      <4>1. 1 \in 1..Link!ChunksIn(d)
        BY <3>1, <3>3, <3>4
      <4> QED  BY <3>1, <3>2, <4>1 DEF Link!Follow
    <3>5. CASE ~(Link!ChunksIn(d) > 0)
      <4>1. Link!ChunksIn(d) # Len(d)
        BY <3>1, <3>5
      <4>2. Link!ChunksIn(d) = Len(d) - 1 /\ d[Len(d)].t = "migrated"
        BY <3>3, <4>1
      <4>3. Len(d) = 1
        BY SMTT(30), <3>1, <3>5, <4>2
      <4> QED  BY <3>1, <4>2, <4>3
    <3> QED  BY <3>4, <3>5
  <2>3. CASE Head(d).t = "out"
    <3>1. Complete(Append(shown, Head(d).n), e, page.buffer, net.dcDown, n) /\ (Signed(e) <=> Signed(d))
      BY <1>0, <1>1, <2>1, <2>3, ReadsChunk DEF e, d
    <3>2. Complete(shown', net'.down, page'.buffer, net'.dcDown, wing'.produced)
      BY <1>3, <1>4, <2>2, <2>3, <3>1 DEF n
    <3>3. Stands'
      <4>1. page' = page /\ wing' = wing /\ net'.link = net.link /\ net'.dcDown = net.dcDown
            /\ (Signed(net'.down) <=> Signed(net.down))
        BY <1>3, <1>4, <2>3, <3>1 DEF d
      <4> QED  BY <1>0, <2>1, <3>2, <4>1 DEF Stands, d
    <3> QED  BY <1>3, <1>7, <2>2, <3>3, LinkReaches
  <2>4. CASE Head(d).t = "migrated"
    <3>1. Complete(shown \o Link!Outs(page.buffer), e, <<>>, net.dcDown, n) /\ e = <<>>
      BY <1>0, <1>1, <2>1, <2>4, ReadsSign DEF e, d
    <3>2. Signed(d)
      BY <1>0, <1>1, <2>4, SignedAre
    <3>3. wing.mode = "p2p"
      BY <1>1, <2>1, <3>2 DEF Stands, d
    <3>4. /\ page'.buffer = <<>> /\ page'.active = TRUE /\ page'.dc = page.dc
          /\ shown' = shown \o Link!Outs(page.buffer) /\ net'.down = <<>>
          /\ net'.link = net.link /\ net'.dcDown = net.dcDown
      BY <1>3, <1>4, <1>5, <2>4, <3>1
    <3>5. Complete(shown', net'.down, page'.buffer, net'.dcDown, wing'.produced)
      BY <1>3, <3>1, <3>4 DEF n
    <3>6. Stands'
      BY <1>3, <2>1, <3>3, <3>4, <3>5 DEF Stands
    <3> QED  BY <1>7, <3>4, <3>6, LinkReaches
  <2> QED  BY <1>2, <2>2, <2>3, <2>4
<1> QED  BY <1>6, <1>7

LEMMA LinkShowsDC ==
    ASSUME LinkInv, Link!Next, Link!PageReadsDC
    PROVE  LinkInv'
<1> DEFINE c == net.dcDown
           e == Tail(net.dcDown)
           n == wing.produced
<1>0. Link!TypeOK /\ c # <<>>
  BY DEF LinkInv, Link!PageReadsDC
<1>1. /\ shown \in Seq(1..MaxOut) /\ net.down \in Seq(Link!Relayed) /\ page.buffer \in Seq(Link!Chunk)
      /\ c \in Seq(Link!Chunk) /\ wing.mode \in {"relay", "p2p"} /\ n \in Nat
      /\ page.active \in BOOLEAN
  BY <1>0, LinkFields, PartsAssumption
<1>2. wing' = wing /\ net'.down = net.down /\ net'.link = net.link /\ net'.dcDown = e
  BY <1>0 DEF Link!PageReadsDC, Link!TypeOK, Link!Nets
<1>3. /\ page.active => shown' = Append(shown, Head(c).n) /\ page' = page
      /\ ~page.active => /\ shown' = shown /\ page'.buffer = Append(page.buffer, Head(c))
                         /\ page'.active = page.active /\ page'.dc = page.dc
  BY <1>0 DEF Link!PageReadsDC, Link!ShowsDC, Link!TypeOK, Link!Pages
<1> HIDE DEF c, e, n
<1>4. net.link # "cut" /\ Stands
  BY <1>0 DEF LinkInv, Broken, c
<1>5. Complete(shown, net.down, page.buffer, c, n) /\ wing.mode = "p2p"
  BY <1>0, <1>1, <1>4 DEF Stands, c, n
<1>6. CASE page.active
  <2>1. net.down = <<>> /\ page.buffer = <<>>
    BY <1>4, <1>5, <1>6 DEF Stands
  <2>2. Complete(shown, <<>>, <<>>, c, n)
    BY <1>5, <2>1
  <2>3. Complete(Append(shown, Head(c).n), <<>>, <<>>, e, n)
    BY <1>0, <1>1, <2>2, ShowsChunk DEF e, c
  <2>4. Complete(shown', net'.down, page'.buffer, net'.dcDown, wing'.produced)
    BY <1>2, <1>3, <1>6, <2>1, <2>3 DEF n
  <2>5. Stands'
    BY <1>2, <1>3, <1>4, <1>5, <1>6, <2>1, <2>4 DEF Stands
  <2> QED  BY <1>2, <1>4, <2>5, LinkReaches
<1>7. CASE ~page.active
  <2>1. Complete(shown, net.down, Append(page.buffer, Head(c)), e, n)
    BY <1>0, <1>1, <1>5, KeepsChunk DEF e, c
  <2>2. Complete(shown', net'.down, page'.buffer, net'.dcDown, wing'.produced)
    BY <1>2, <1>3, <1>7, <2>1 DEF n
  <2>3. Stands'
    BY <1>2, <1>3, <1>4, <1>5, <1>7, <2>2 DEF Stands
  <2> QED  BY <1>2, <1>4, <2>3, LinkReaches
<1> QED  BY <1>6, <1>7

LEMMA LinkInit ==
    ASSUME Link!Init
    PROVE  LinkInv
<1>1. /\ page = [dc |-> "none", active |-> FALSE, buffer |-> <<>>, timer |-> FALSE, typed |-> 0]
      /\ net = [down |-> <<>>, up |-> <<>>, dcDown |-> <<>>, dcUp |-> <<>>, link |-> "none"]
      /\ shown = <<>> /\ taken = <<>>
  BY DEF Link!Init
<1>2. PICK locked \in BOOLEAN :
           wing = [dc |-> "none", mode |-> "relay", look |-> 0, found |-> FALSE, produced |-> 0,
                   locked |-> locked]
  BY DEF Link!Init
<1>3. Link!TypeOK
  <2>1. \A S : <<>> \in Seq(S)
    OBVIOUS
  <2>2. 0 \in 0..MaxOut /\ 0 \in 0..MaxLook /\ 0 \in 0..MaxKeys
    BY PartsAssumption
  <2>3. page \in Link!Pages
    BY <1>1, <2>1, <2>2 DEF Link!Pages
  <2>4. wing \in Link!Wings
    BY <1>2, <2>2 DEF Link!Wings
  <2>5. net \in Link!Nets
    BY <1>1, <2>1 DEF Link!Nets
  <2> QED  BY <1>1, <2>1, <2>3, <2>4, <2>5 DEF Link!TypeOK
<1>4. Len(<<>>) = 0 /\ ~Asks(<<>>) /\ ~Signed(<<>>) /\ OneAsk(<<>>) /\ Link!ChunksIn(<<>>) = 0
  BY DEF Asks, Signed, OneAsk, Link!ChunksIn
<1>5. Once
  BY <1>1, <1>2, <1>4 DEF Once
<1>6. Complete(<<>>, <<>>, <<>>, <<>>, 0)
  BY <1>4 DEF Complete, Link!Follow
<1>7. Stands
  BY <1>1, <1>2, <1>4, <1>6 DEF Stands
<1> QED  BY <1>1, <1>3, <1>5, <1>7 DEF LinkInv

LEMMA LinkSteps ==
    ASSUME LinkInv, Link!Next
    PROVE  LinkInv'
BY LinkKeeps, LinkCut, LinkFallsBack, LinkWrites, LinkMigrates, LinkShows, LinkShowsDC DEF Link!Next

LEMMA LinkStays ==
    ASSUME LinkInv, UNCHANGED linkVars
    PROVE  LinkInv'
<1>1. page' = page /\ wing' = wing /\ net' = net /\ shown' = shown /\ taken' = taken
  BY DEF linkVars
<1> QED  BY <1>1 DEF LinkInv, Link!TypeOK, Once, Stands, Broken

LEMMA LinkPicture ==
    ASSUME LinkInv
    PROVE  Link!OnePicture
<1>1. CASE net.link = "cut"
  BY <1>1 DEF LinkInv, Broken, Ordered, Link!OnePicture
<1>2. CASE net.link # "cut"
  <2>1. Complete(shown, net.down, page.buffer, net.dcDown, wing.produced)
    BY <1>2 DEF LinkInv, Stands
  <2>2. \A i, j \in 1..Len(shown) : i < j => shown[i] < shown[j]
    BY <2>1 DEF Complete
  <2> QED  BY <2>1, <2>2 DEF Complete, Link!OnePicture
<1> QED  BY <1>1, <1>2

LEMMA LinkStep == ASSUME PartsAssumption, LinkInv, [Link!Next]_linkVars PROVE LinkInv'
BY LinkSteps, LinkStays

-----------------------------------------------------------------------------
(* The parts, side by side *)

PartsInv ==
    /\ part = "command" => CommandInv
    /\ part = "tool" => ToolInv /\ Tool!TypeOK
    /\ part = "sandbox" => SandboxInv
    /\ part = "settings" => SettingsInv
    /\ part = "history" => HistoryInv /\ Sizes
    /\ part = "link" => LinkInv

LEMMA PartsHold == PartsSpec => []PartsInv
<1>1. PartsInit => PartsInv
  BY PartsAssumption, CommandInit, ToolInit, SandboxInit, SettingsInit, HistoryInit,
     LinkInit, ToolStarts, SizesStart DEF PartsInit, PartsInv
<1>2. PartsInv /\ [PartsNext]_partsVars => PartsInv'
  <2> SUFFICES ASSUME PartsInv, [PartsNext]_partsVars PROVE PartsInv'
    OBVIOUS
  <2>1. part' = part
    BY DEF PartsNext, partsVars
  <2>2. part = "command" => [Command!Next]_commandVars
    BY DEF PartsNext, partsVars
  <2>3. part = "tool" => [Tool!Next]_toolVars
    BY DEF PartsNext, partsVars
  <2>4. part = "sandbox" => [Sandbox!Next]_sandboxVars
    BY DEF PartsNext, partsVars
  <2>5. part = "history" => [History!Next]_historyVars
    BY DEF PartsNext, partsVars
  <2>6. part = "settings" => [Settings!Next]_settingsVars
    BY DEF PartsNext, partsVars
  <2>7. part = "link" => [Link!Next]_linkVars
    BY DEF PartsNext, partsVars
  <2> QED
    BY <2>1, <2>2, <2>3, <2>4, <2>5, <2>6, <2>7, PartsAssumption, CommandStep, ToolStep, SandboxStep,
       SettingsStep, HistoryStep, LinkStep, ToolRanges, SizesKept DEF PartsInv
<1> QED  BY <1>1, <1>2, PTL DEF PartsSpec

\* The part that moves keeps its types, and what the code numbers or counts stays
\* within what its constants allow.
THEOREM PartsTypesHold == PartsSpec => []PartsTypeOK
<1>1. PartsInv => PartsTypeOK
  BY SandboxTypesAre, SettingsTypesAre, HistoryTypesAre DEF PartsInv, PartsTypeOK, CommandInv, LinkInv
<1> QED  BY <1>1, PartsHold, PTL

\* Whatever commands are given and whatever befalls the daemons, no two run, and
\* a pid file names the one that does.
THEOREM OneDaemonRuns == PartsSpec => []OneDaemon
<1>1. PartsInv => OneDaemon
  BY CommandSays DEF PartsInv, OneDaemon
<1> QED  BY <1>1, PartsHold, PTL

\* However many calls there are and however often the tools are reloaded while
\* they run, no tool runs more calls than the limit it has, counting all that
\* found it.
THEOREM ToolLimitHolds == PartsSpec => []ToolLimit
<1>1. PartsInv => ToolLimit
  BY DEF PartsInv, ToolInv, ToolLimit
<1> QED  BY <1>1, PartsHold, PTL

\* However mounts are made and undone, and whichever fail, an agent whose mounts
\* all succeeded changes nothing its rules do not leave writable.
THEOREM WritesStayWithin == PartsSpec => []WritesWithin
<1>1. PartsInv => WritesWithin
  BY SandboxSays DEF PartsInv, WritesWithin
<1> QED  BY <1>1, PartsHold, PTL

\* What it may write is there when its session has ended in order, whoever else
\* ran, and settings it changed while it ran alone are as they were.
THEOREM WorkIsKept == PartsSpec => []WorkKept
<1>1. PartsInv => WorkKept
  BY SandboxSays DEF PartsInv, WorkKept
<1> QED  BY <1>1, PartsHold, PTL

\* When changes come one after the other, from commands and from browsers, the file
\* and the daemon's copies of it are as the changes asked.
THEOREM ChangesAreMade == PartsSpec => []ChangesLand
<1>1. PartsInv => ChangesLand
  BY SettingsSay DEF PartsInv, ChangesLand
<1> QED  BY <1>1, PartsHold, PTL

\* Who was taken off a folder has no terminal there when that is done.
THEOREM AclIsEnforced == PartsSpec => []AclEnforced
<1>1. PartsInv => AclEnforced
  BY SettingsSay DEF PartsInv, AclEnforced
<1> QED  BY <1>1, PartsHold, PTL

\* However captures, readers and deaths fall: without an overlap a history is a
\* whole copy of one conversation, and the one of a session that ended by itself
\* is all of it.
THEOREM HistoryIsKept == PartsSpec => []HistoryKept
<1>1. PartsInv => HistoryKept
  BY PartsAssumption, HistorySays DEF PartsInv, HistoryKept
<1> QED  BY <1>1, PartsHold, PTL

\* However output, keys, the move, its timeouts and a broken channel fall among one
\* another, no chunk is shown twice or after a later one, and while the channel
\* stands none is missing.
THEOREM OnePictureShown == PartsSpec => []OnePicture
<1>1. PartsInv => OnePicture
  BY LinkPicture DEF PartsInv, OnePicture
<1> QED  BY <1>1, PartsHold, PTL
=============================================================================
