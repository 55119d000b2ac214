------------------------------- MODULE Parts -------------------------------
(* Components that stand beside a session on the wing's machine, side by side: *)
(* they do not interact, so the initial state chooses the one that moves, and  *)
(* the variables of the others stay idle.                                      *)
EXTENDS Integers, FiniteSets

CONSTANTS
    MaxProcs, MaxOps, MaxKills,             \* WingCommand
    Calls, Tools, Caps, MaxReloads,         \* ToolListener
    Sessions, MaxWrites, MaxFaults,         \* EggSandbox
    Users, Admins, Requests, MaxChanges, MaxRush, MaxStops,     \* WingConfig
    MaxLines, MaxTicks,                     \* ChatHistory
    MaxOut, MaxKeys, MaxLook                \* PeerLink

ASSUME PartsAssumption ==
    /\ MaxProcs \in Nat /\ MaxFaults \in Nat /\ MaxLines \in Nat \ {0} /\ MaxTicks \in Nat
    /\ MaxOut \in Nat /\ MaxKeys \in Nat /\ MaxLook \in Nat /\ MaxReloads \in Nat
    /\ IsFiniteSet(Calls) /\ Caps \subseteq Nat
    /\ 0 \notin Sessions    \* 0 marks a file that is not there

VARIABLES
    part,
    \* WingCommand
    procs, pidFile, args, status, token, port, cli, ops, faults,
    \* ToolListener
    calls, tools, sema, listener, reloads, since,
    \* EggSandbox
    home, run, view, upper, perUser, sandboxFaults,
    \* WingConfig
    disk, conf, allowed, org, up, command, req, hup, reload, sweep, terminal,
    changes, stops, clean, wanted, extra, tried, off,
    \* ChatHistory
    chatHome, newest, egg, agent, captors, inodes, dir, sync, ticks, past,
    \* PeerLink
    page, wing, net, shown, taken

Command == INSTANCE WingCommand WITH MaxFaults <- MaxKills
Tool == INSTANCE ToolListener
Sandbox == INSTANCE EggSandbox WITH disk <- home, faults <- sandboxFaults
Settings == INSTANCE WingConfig WITH cli <- command, session <- terminal
History == INSTANCE ChatHistory WITH home <- chatHome
Link == INSTANCE PeerLink

commandVars == <<procs, pidFile, args, status, token, port, cli, ops, faults>>
toolVars == <<calls, tools, sema, listener, reloads, since>>
sandboxVars == <<home, run, view, upper, perUser, sandboxFaults>>
settingsVars == <<disk, conf, allowed, org, up, command, req, hup, reload, sweep, terminal,
                  changes, stops, clean, wanted, extra, tried, off>>
historyVars == <<chatHome, newest, egg, agent, captors, inodes, dir, sync, ticks, past>>
linkVars == <<page, wing, net, shown, taken>>
partsVars == <<part, commandVars, toolVars, sandboxVars, settingsVars, historyVars, linkVars>>

IdleCommand == procs = 0 /\ pidFile = 0 /\ args = 0 /\ status = 0 /\ token = 0 /\ port = 0
               /\ cli = 0 /\ ops = 0 /\ faults = 0
IdleTool == calls = 0 /\ tools = 0 /\ sema = 0 /\ listener = 0 /\ reloads = 0 /\ since = 0
IdleSandbox == home = 0 /\ run = 0 /\ view = 0 /\ upper = 0 /\ perUser = 0 /\ sandboxFaults = 0
IdleSettings == disk = 0 /\ conf = 0 /\ allowed = 0 /\ org = 0 /\ up = 0 /\ command = 0 /\ req = 0
                /\ hup = 0 /\ reload = 0 /\ sweep = 0 /\ terminal = 0 /\ changes = 0 /\ stops = 0
                /\ clean = 0 /\ wanted = 0 /\ extra = 0 /\ tried = 0 /\ off = 0
IdleHistory == chatHome = 0 /\ newest = 0 /\ egg = 0 /\ agent = 0 /\ captors = 0 /\ inodes = 0
               /\ dir = 0 /\ sync = 0 /\ ticks = 0 /\ past = 0
IdleLink == page = 0 /\ wing = 0 /\ net = 0 /\ shown = 0 /\ taken = 0
IdleParts == IdleCommand /\ IdleTool /\ IdleSandbox /\ IdleSettings /\ IdleHistory /\ IdleLink

PartsInit ==
    \/ /\ part = "command" /\ Command!Init
       /\ IdleTool /\ IdleSandbox /\ IdleSettings /\ IdleHistory /\ IdleLink
    \/ /\ part = "tool" /\ Tool!Init
       /\ IdleCommand /\ IdleSandbox /\ IdleSettings /\ IdleHistory /\ IdleLink
    \/ /\ part = "sandbox" /\ Sandbox!Init
       /\ IdleCommand /\ IdleTool /\ IdleSettings /\ IdleHistory /\ IdleLink
    \/ /\ part = "settings" /\ Settings!Init
       /\ IdleCommand /\ IdleTool /\ IdleSandbox /\ IdleHistory /\ IdleLink
    \/ /\ part = "history" /\ History!Init
       /\ IdleCommand /\ IdleTool /\ IdleSandbox /\ IdleSettings /\ IdleLink
    \/ /\ part = "link" /\ Link!Init
       /\ IdleCommand /\ IdleTool /\ IdleSandbox /\ IdleSettings /\ IdleHistory

PartsNext ==
    \/ /\ part = "command" /\ Command!Next
       /\ UNCHANGED <<part, toolVars, sandboxVars, settingsVars, historyVars, linkVars>>
    \/ /\ part = "tool" /\ Tool!Next
       /\ UNCHANGED <<part, commandVars, sandboxVars, settingsVars, historyVars, linkVars>>
    \/ /\ part = "sandbox" /\ Sandbox!Next
       /\ UNCHANGED <<part, commandVars, toolVars, settingsVars, historyVars, linkVars>>
    \/ /\ part = "settings" /\ Settings!Next
       /\ UNCHANGED <<part, commandVars, toolVars, sandboxVars, historyVars, linkVars>>
    \/ /\ part = "history" /\ History!Next
       /\ UNCHANGED <<part, commandVars, toolVars, sandboxVars, settingsVars, linkVars>>
    \/ /\ part = "link" /\ Link!Next
       /\ UNCHANGED <<part, commandVars, toolVars, sandboxVars, settingsVars, historyVars>>

PartsSpec == PartsInit /\ [][PartsNext]_partsVars

-----------------------------------------------------------------------------
(* The properties of the parts; what each says is told in its module. *)

\* The part that moves keeps its types.
PartsTypeOK ==
    /\ part = "command" => Command!TypeOK
    /\ part = "tool" => Tool!TypeOK
    /\ part = "sandbox" => Sandbox!TypeOK
    /\ part = "settings" => Settings!TypeOK
    /\ part = "history" => History!TypeOK
    /\ part = "link" => Link!TypeOK

\* WingCommand: no sequence of commands leaves two daemons, or one that
\* `wt stop' does not find.
OneDaemon == part = "command" => Command!OneDaemon

\* ToolListener: calls that run when the tools are reloaded go on counting.
ToolLimit == part = "tool" => Tool!ToolLimit

\* EggSandbox: through its home an agent changes nothing its rules do not leave
\* writable.
WritesWithin == part = "sandbox" => Sandbox!WritesWithin

\* EggSandbox: what an agent may write is there when its session has ended, and
\* the settings in the host's home are as they were.
WorkKept == part = "sandbox" => Sandbox!WorkKept /\ Sandbox!SettingsRestored

\* WingConfig: changes made one at a time reach the file and the daemon.
ChangesLand == part = "settings" => Settings!ChangesLand

\* WingConfig: who was taken off a folder has no terminal in it.
AclEnforced == part = "settings" => Settings!AclEnforced

\* ChatHistory: captures leave a whole conversation, the last one all of it.
HistoryKept == part = "history" => History!CaptureWhole /\ History!HistoryKept

\* PeerLink: a terminal that moves to a data channel and back shows its output
\* in order and once.
OnePicture == part = "link" => Link!OnePicture
=============================================================================
