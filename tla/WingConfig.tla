----------------------------- MODULE WingConfig -----------------------------
(***************************************************************************)
(* The wing's configuration: the file wing.yaml that commands load, change   *)
(* and save, the daemon's copy of it that requests from browsers change and  *)
(* save too, the list of allowed users that is kept apart from both, and the *)
(* sessions that the members of a folder have there (cmd/wt/wing.go,         *)
(* internal/config/wing.go).                                                 *)
(*                                                                           *)
(* Nothing locks the file or the daemon's copy. One folder is configured.    *)
(***************************************************************************)
EXTENDS Naturals, FiniteSets, Sequences, Functions

CONSTANTS
    Users,
    Admins,      \* users in the file's admins
    Requests,    \* handlers of requests that run at the same time
    MaxChanges,  \* commands and requests ever made
    MaxRush,     \* the first ones, which may come while another is handled
    MaxStops     \* commands killed, daemons stopped

\* A list of allowed users has any number of entries per user, in their order:
\* without a passkey or with one.
Entries == Seq({"bare", "key"})
Nobody == [u \in Users |-> <<>>]
Listed(a) == {u \in Users : Len(a[u]) > 0}

\* allow: allow_keys; org stands for what the daemon reads at its start only;
\* members: the folder's, nobody meaning everybody.
Configs == [locked : BOOLEAN, allow : [Users -> Entries], org : 0..1, members : SUBSET Users]

\* What an empty file is loaded as.
Zero == [locked |-> FALSE, allow |-> Nobody, org |-> 0, members |-> {}]

VARIABLES
    disk,      \* wing.yaml: empty, or what was written last
    conf,      \* the daemon's wingCfg
    allowed,   \* its allowedKeys
    org,       \* the organisation it was started with
    up,        \* the daemon runs
    cli,       \* a command: what it is at, what it has loaded, what it does
    req,       \* requests the daemon handles
    hup,       \* a SIGHUP nobody has seen yet
    reload,    \* the reload: what it is at and what it has loaded
    sweep,     \* killSessionsViolatingACLs: the members it checks, the sessions it saw
    session,   \* per user, a terminal in the folder
    changes,   \* commands and requests made
    stops,
    clean,     \* history: so far nothing overlapped, and nothing was cut short
    wanted,    \* history: entries and members as the last changes asked
    extra,     \* history: users allowed for this session only
    tried,     \* history: users an authentication has listed unasked: it failed, or
               \* it was with another key than the one there was
    off        \* history: users taken off the folder by the last changes of its members

procs == <<cli, req, hup, reload, sweep>>
counts == <<changes, stops>>
history == <<wanted, extra, tried, off>>
vars == <<disk, conf, allowed, org, up, procs, session, counts, clean, history>>

IdleCli == [pc |-> "idle", op |-> "none", who |-> {}, mine |-> Zero]
IdleReq == [pc |-> "idle", op |-> "none", from |-> {}, who |-> {}, snap |-> Nobody, mine |-> Zero]
NoReload == [pc |-> "idle", new |-> Zero]
NoSweep == [pc |-> "idle", members |-> {}, seen |-> {}]

Quiet == /\ cli = IdleCli /\ reload = NoReload /\ ~hup /\ sweep = NoSweep
         /\ \A r \in Requests : req[r] = IdleReq
         /\ \A u \in Users : session[u] # "starting"

Wanted(c) == [allow |-> Listed(c.allow), members |-> c.members, org |-> c.org]

\* A file somebody wrote, and a daemon that has just read it.
Init ==
    /\ \E m \in {{}} \union {{u} : u \in Users}, l \in BOOLEAN, a \in {{}} \union {{u} : u \in Users} :
         conf = [Zero EXCEPT !.members = m, !.locked = l, !.allow = [u \in Users |-> IF u \in a THEN <<"key">> ELSE <<>>]]
    /\ disk = <<conf>> /\ allowed = conf.allow /\ org = 0 /\ up = TRUE
    /\ cli = IdleCli /\ req = [r \in Requests |-> IdleReq] /\ hup = FALSE
    /\ reload = NoReload /\ sweep = NoSweep
    /\ session = [u \in Users |-> "none"]
    /\ changes = 0 /\ stops = 0 /\ clean = TRUE
    /\ wanted = Wanted(conf) /\ extra = {} /\ tried = {} /\ off = {}

\* A change is made; later ones wait until all is quiet.
Makes ==
    /\ changes < MaxChanges /\ (changes < MaxRush \/ Quiet)
    /\ changes' = changes + 1
    /\ clean' = (clean /\ Quiet)

Loaded == IF disk = <<>> THEN Zero ELSE disk[1]

-----------------------------------------------------------------------------
(* Commands: wt wing allow, revoke, lock, unlock, config set *)

CliOps == {"allow", "revoke", "revokeAll", "lock", "unlock", "org", "paths"}

\* wt wing allow: refused for a user who is listed; the wing is locked.
AllowUser(who, c) ==
    IF who \in Listed(c.allow) THEN c ELSE [c EXCEPT !.allow[who] = <<"bare">>, !.locked = TRUE]

\* wt wing revoke, of all or of a user, which is refused as ambiguous when the
\* user has several entries
RevokeAll(c) == [c EXCEPT !.allow = Nobody]
RevokeUser(who, c) == IF Len(c.allow[who]) > 1 THEN c ELSE [c EXCEPT !.allow[who] = <<>>]

SetLock(on, c) == [c EXCEPT !.locked = on]

\* wt wing config set, of the organisation or of the folders, who lose their members
SetConfig(key, c) == IF key = "org" THEN [c EXCEPT !.org = 1 - @] ELSE [c EXCEPT !.members = {}]

\* Mutant: a revocation leaves a mark that nothing knows.
MutantApplied(op, who, c) ==
    IF op = "revoke" THEN [c EXCEPT !.allow[who] = <<"revoked">>] ELSE c

\* What a command makes of the configuration it has loaded.
Applied(op, who, c) ==
    CASE op = "allow" -> AllowUser(who, c)
      [] op = "revoke" -> RevokeUser(who, c)
      [] op = "revokeAll" -> RevokeAll(c)
      [] op \in {"lock", "unlock"} -> SetLock(op = "lock", c)
      [] OTHER -> SetConfig(op, c)

\* Load and change; a command that changes nothing returns (allow, revoke, lock).
Command(op, u) ==
    /\ cli = IdleCli /\ Makes
    /\ LET new == Applied(op, u, Loaded) IN
       /\ cli' = IF new = Loaded /\ op # "paths" THEN IdleCli
                 ELSE [pc |-> "save", op |-> op, who |-> {u}, mine |-> new]
       /\ wanted' = Wanted(new)
    /\ UNCHANGED <<disk, conf, allowed, org, up, req, hup, reload, sweep, session, stops, extra, tried, off>>

\* SaveWingConfig: os.WriteFile empties the file and then writes it.
CliTruncates ==
    /\ cli.pc = "save"
    /\ disk' = <<>> /\ cli' = [cli EXCEPT !.pc = "write"]
    /\ UNCHANGED <<conf, allowed, org, up, req, hup, reload, sweep, session, counts, clean, history>>

CliWrites ==
    /\ cli.pc = "write"
    /\ disk' = <<cli.mine>> /\ cli' = [cli EXCEPT !.pc = "signal"]
    /\ UNCHANGED <<conf, allowed, org, up, req, hup, reload, sweep, session, counts, clean, history>>

\* Mutant: a revocation does not tell the daemon.
MutantSignals ==
    /\ cli.pc = "signal"
    /\ hup' = (hup \/ (up /\ cli.op \notin {"revoke", "revokeAll"})) /\ cli' = IdleCli
    /\ UNCHANGED <<disk, conf, allowed, org, up, req, reload, sweep, session, counts, clean, history>>

\* signalDaemon
CliSignals ==
    /\ cli.pc = "signal"
    /\ hup' = (hup \/ up) /\ cli' = IdleCli
    /\ UNCHANGED <<disk, conf, allowed, org, up, req, reload, sweep, session, counts, clean, history>>

CliKilled ==
    /\ cli # IdleCli /\ stops < MaxStops
    /\ cli' = IdleCli /\ stops' = stops + 1 /\ clean' = FALSE
    /\ UNCHANGED <<disk, conf, allowed, org, up, req, hup, reload, sweep, session, changes, history>>

-----------------------------------------------------------------------------
(* The daemon *)

\* The SIGHUP goroutine reads the file, then copies it field by field; the
\* organisation is not among them.
ReloadReads ==
    /\ up /\ hup /\ reload = NoReload
    /\ hup' = FALSE /\ reload' = [pc |-> "keys", new |-> Loaded]
    /\ UNCHANGED <<disk, conf, allowed, org, up, cli, req, sweep, session, counts, clean, history>>

\* The list in memory becomes the file's: who was allowed for this session is not
\* any more.
ReloadKeys ==
    /\ reload.pc = "keys"
    /\ conf' = [conf EXCEPT !.locked = reload.new.locked, !.allow = reload.new.allow]
    /\ allowed' = reload.new.allow
    /\ reload' = [reload EXCEPT !.pc = "paths"] /\ extra' = {}
    /\ UNCHANGED <<disk, org, up, cli, req, hup, sweep, session, counts, clean, wanted, tried, off>>

ReloadPaths ==
    /\ reload.pc = "paths"
    /\ conf' = [conf EXCEPT !.members = reload.new.members]
    /\ reload' = NoReload
    /\ off' = IF reload.new.members = conf.members THEN off ELSE {}
    /\ UNCHANGED <<disk, allowed, org, up, cli, req, hup, sweep, session, counts, clean, wanted, extra, tried>>

\* The daemon stops or dies; eggs and their sessions go on.
DaemonStops ==
    /\ up /\ stops < MaxStops
    /\ up' = FALSE /\ stops' = stops + 1
    /\ req' = [r \in Requests |-> IdleReq] /\ hup' = FALSE
    /\ reload' = NoReload /\ sweep' = NoSweep
    /\ session' = [u \in Users |-> IF session[u] = "starting" THEN "none" ELSE session[u]]
    /\ clean' = (clean /\ Quiet)
    /\ UNCHANGED <<disk, conf, allowed, org, cli, changes, history>>

\* It starts from the file. (It lists the user of its own token on a locked wing:
\* taken to be listed.)
DaemonStarts ==
    /\ ~up
    /\ up' = TRUE /\ conf' = Loaded /\ allowed' = Loaded.allow /\ org' = Loaded.org
    /\ extra' = {}
    /\ clean' = (clean /\ Quiet)
    /\ UNCHANGED <<disk, procs, session, counts, wanted, tried, off>>

\* A request arrives: its handler takes the list as it is now. A locked wing
\* answers users who are listed or admins (with a token of this boot), except when
\* they enrol or authenticate.
Admitted(op, u) ==
    \/ op \in {"allow.add", "passkey.auth"}
    \/ ~conf.locked \/ u \in Listed(allowed) \/ u \in Admins

ReqOps == {"allow.add", "allow.remove", "passkey.auth", "paths.add_member", "paths.remove_member"}

Arrives(r, op, u, target) ==
    /\ up /\ req[r] = IdleReq /\ Admitted(op, u) /\ Makes
    /\ op = "allow.remove" => u = target \/ u \in Admins
    /\ op \in {"paths.add_member", "paths.remove_member"} => u \in Admins
    /\ op \in {"allow.add", "passkey.auth"} => u = target
    /\ req' = [req EXCEPT ![r] = [pc |-> "do", op |-> op, from |-> {u}, who |-> {target},
                                  snap |-> allowed, mine |-> Zero]]
    /\ UNCHANGED <<disk, conf, allowed, org, up, cli, hup, reload, sweep, session, stops, history>>

Finishes(r) == req' = [req EXCEPT ![r] = IdleReq]

\* json and yaml are marshalled now, and the file is written next.
Saves(r, new) == req' = [req EXCEPT ![r].pc = "save", ![r].mine = new]

\* allow.add: listed for this session only.
AllowAdd(r) ==
    /\ req[r].pc = "do" /\ req[r].op = "allow.add"
    /\ \E u \in req[r].who, k \in {"bare", "key"} :
         IF u \in Listed(req[r].snap) THEN UNCHANGED <<allowed, extra>>
         ELSE /\ allowed' = [req[r].snap EXCEPT ![u] = <<k>>]
              /\ extra' = extra \union {u}
    /\ Finishes(r)
    /\ UNCHANGED <<disk, conf, org, up, cli, hup, reload, sweep, session, counts, clean, wanted, tried, off>>

\* allow.remove: the user's first entry, from the daemon's copy, which is saved if
\* there was one, and from the list the handler began with.
OneLess(l) == IF Len(l) > 0 THEN Tail(l) ELSE l
AllowRemove(r) ==
    /\ req[r].pc = "do" /\ req[r].op = "allow.remove"
    /\ \E u \in req[r].who :
         LET new == [conf EXCEPT !.allow[u] = OneLess(@)]
             kept == u \in Listed(conf.allow) IN
         /\ conf' = new
         /\ allowed' = IF ~kept /\ u \notin Listed(req[r].snap) THEN allowed
                       ELSE [req[r].snap EXCEPT ![u] = OneLess(@)]
         /\ wanted' = [wanted EXCEPT !.allow = @ \ {u}] /\ extra' = extra \ {u}
         /\ IF kept THEN Saves(r, new) ELSE Finishes(r)
    /\ UNCHANGED <<disk, org, up, cli, hup, reload, sweep, session, counts, clean, tried, off>>

\* passkey.auth: with the key of an entry nothing changes; otherwise with keys the
\* relay attests (tryRelayPasskeys). A user who has no entry without a key gets
\* one, in both lists. The first without a key gets the key when the signature
\* verifies, and the file is written.
Keyed(l) == [i \in 1 .. Len(l) |->
                IF l[i] = "bare" /\ \A j \in 1 .. (i - 1) : l[j] # "bare" THEN "key" ELSE l[i]]
PasskeyAuth(r) ==
    /\ req[r].pc = "do" /\ req[r].op = "passkey.auth"
    /\ \E u \in req[r].who, verified \in BOOLEAN :
         LET snap == req[r].snap
             enrols == "bare" \notin Range(snap[u])
             mine == IF enrols THEN [snap EXCEPT ![u] = Append(@, "bare")] ELSE snap
             kept == IF enrols THEN [conf.allow EXCEPT ![u] = Append(@, "bare")] ELSE conf.allow
             new == [conf EXCEPT !.allow = IF verified THEN [kept EXCEPT ![u] = Keyed(@)] ELSE kept] IN
         \/ /\ "key" \in Range(snap[u])
            /\ Finishes(r) /\ UNCHANGED <<conf, allowed, wanted, extra, tried>>
         \/ /\ conf' = new
            /\ allowed' = IF verified THEN [mine EXCEPT ![u] = Keyed(@)] ELSE IF enrols THEN mine ELSE allowed
            /\ wanted' = IF verified /\ u \in Listed(new.allow)
                         THEN [wanted EXCEPT !.allow = @ \union {u}] ELSE wanted
            /\ extra' = IF verified THEN extra ELSE extra \union {u}
            /\ tried' = IF ~verified \/ (enrols /\ u \in Listed(snap)) THEN tried \union {u} ELSE tried
            /\ IF verified THEN Saves(r, new) ELSE Finishes(r)
    /\ UNCHANGED <<disk, org, up, cli, hup, reload, sweep, session, counts, clean, off>>

\* paths.add_member and paths.remove_member; a removal is swept.
SetMembers(r) ==
    /\ req[r].pc = "do" /\ req[r].op \in {"paths.add_member", "paths.remove_member"}
    /\ \E u \in req[r].who :
         LET adds == req[r].op = "paths.add_member"
             new == [conf EXCEPT !.members = IF adds THEN @ \union {u} ELSE @ \ {u}] IN
         IF ~adds /\ u \notin conf.members
         THEN Finishes(r) /\ UNCHANGED <<conf, wanted, off>>
         ELSE /\ conf' = new /\ wanted' = [wanted EXCEPT !.members = new.members]
              /\ off' = IF adds THEN {} ELSE off \union {u}
              /\ Saves(r, new)
    /\ UNCHANGED <<disk, allowed, org, up, cli, hup, reload, sweep, session, counts, clean, extra, tried>>

ReqTruncates(r) ==
    /\ req[r].pc = "save"
    /\ disk' = <<>> /\ req' = [req EXCEPT ![r].pc = "write"]
    /\ UNCHANGED <<conf, allowed, org, up, cli, hup, reload, sweep, session, counts, clean, history>>

\* Mutant: the new members are not swept for.
MutantReqWrites(r) ==
    /\ req[r].pc = "write"
    /\ disk' = <<req[r].mine>> /\ Finishes(r)
    /\ UNCHANGED <<conf, allowed, org, up, cli, hup, reload, sweep, session, counts, clean, history>>

ReqWrites(r) ==
    /\ req[r].pc = "write"
    /\ disk' = <<req[r].mine>>
    /\ IF req[r].op = "paths.remove_member"
       THEN sweep = NoSweep /\ sweep' = [pc |-> "list", members |-> conf.members, seen |-> {}]
       ELSE UNCHANGED sweep
    /\ Finishes(r)
    /\ UNCHANGED <<conf, allowed, org, up, cli, hup, reload, session, counts, clean, history>>

\* passkey.registered: a member of the folder is listed for this session.
PasskeyRegistered(u) ==
    /\ up /\ Makes
    /\ IF u \in conf.members /\ u \notin Listed(allowed)
       THEN allowed' = [allowed EXCEPT ![u] = <<"bare">>] /\ extra' = extra \union {u}
       ELSE UNCHANGED <<allowed, extra>>
    /\ UNCHANGED <<disk, conf, org, up, procs, session, stops, wanted, tried, off>>

-----------------------------------------------------------------------------
(* Terminals in the folder *)

\* PathsForUser: a folder without members is everybody's.
MayEnter(members, u) == members = {} \/ u \in members

\* OnPTY: the folders of a user are looked up once, then the egg is started.
Starts(u) ==
    /\ up /\ session[u] = "none" /\ u \notin Admins /\ MayEnter(conf.members, u)
    /\ session' = [session EXCEPT ![u] = "starting"]
    /\ clean' = (clean /\ Quiet)
    /\ UNCHANGED <<disk, conf, allowed, org, up, procs, counts, history>>

Runs(u) ==
    /\ session[u] = "starting"
    /\ session' = [session EXCEPT ![u] = "running"]
    /\ UNCHANGED <<disk, conf, allowed, org, up, procs, counts, clean, history>>

Ends(u) ==
    /\ session[u] = "running"
    /\ session' = [session EXCEPT ![u] = "none"]
    /\ UNCHANGED <<disk, conf, allowed, org, up, procs, counts, clean, history>>

\* killSessionsViolatingACLs: the eggs that are alive, then one after the other.
SweepLists ==
    /\ sweep.pc = "list"
    /\ sweep' = [sweep EXCEPT !.pc = "kill", !.seen = {u \in Users : session[u] = "running"}]
    /\ UNCHANGED <<disk, conf, allowed, org, up, cli, req, hup, reload, session, counts, clean, history>>

SweepKills ==
    /\ sweep.pc = "kill"
    /\ session' = [u \in Users |-> IF u \in sweep.seen /\ ~MayEnter(sweep.members, u)
                                   THEN "none" ELSE session[u]]
    /\ sweep' = NoSweep
    /\ UNCHANGED <<disk, conf, allowed, org, up, cli, req, hup, reload, counts, clean, history>>

-----------------------------------------------------------------------------
Handle(r) ==
    \/ AllowAdd(r) \/ AllowRemove(r) \/ PasskeyAuth(r) \/ SetMembers(r)
    \/ ReqTruncates(r) \/ ReqWrites(r)
    \/ \E op \in ReqOps, u, t \in Users : Arrives(r, op, u, t)

Next ==
    \/ \E op \in CliOps, u \in Users : Command(op, u)
    \/ CliTruncates \/ CliWrites \/ CliSignals \/ CliKilled
    \/ ReloadReads \/ ReloadKeys \/ ReloadPaths \/ DaemonStops \/ DaemonStarts
    \/ \E r \in Requests : Handle(r)
    \/ \E u \in Users : PasskeyRegistered(u) \/ Starts(u) \/ Runs(u) \/ Ends(u)
    \/ SweepLists \/ SweepKills

Spec == Init /\ [][Next]_vars

-----------------------------------------------------------------------------
TypeOK ==
    /\ disk \in Seq(Configs) /\ Len(disk) <= 1 /\ conf \in Configs
    /\ allowed \in [Users -> Entries] /\ org \in 0..1
    /\ cli.mine \in Configs /\ reload.new \in Configs
    /\ \A r \in Requests : req[r].mine \in Configs /\ req[r].snap \in [Users -> Entries]
    /\ session \in [Users -> {"none", "starting", "running"}]

\* When changes come one after the other, each from whatever side, the file lists
\* the users and members the changes asked for, the daemon works with the same,
\* and it allows besides them only users it was told to allow for this session.
\* Not so for users an authentication has listed unasked: one that fails leaves
\* an entry, and one with another key than the stored one leaves a second entry
\* (tryRelayPasskeys), which allow.remove, taking the first, does not remove.
\* Nobody else has a second entry, so that a removal of theirs lands.
ChangesLand ==
    clean /\ Quiet =>
        /\ wanted.allow \subseteq Listed(Loaded.allow)
        /\ Listed(Loaded.allow) \subseteq wanted.allow \union tried
        /\ Loaded.members = wanted.members
        /\ up => /\ conf.locked = Loaded.locked /\ conf.members = Loaded.members
                 /\ Listed(allowed) \ extra \subseteq wanted.allow \union tried
                 /\ wanted.allow \subseteq Listed(allowed)
                 /\ \A u \in Users \ tried : Len(allowed[u]) <= 1

\* When changes come one after the other, nobody who has been taken off the
\* folder by a request has a terminal in it. (Other changes do not end terminals.)
AclEnforced ==
    clean /\ Quiet /\ up => \A u \in off : session[u] = "running" => MayEnter(conf.members, u)
=============================================================================
