# Wingthing in TLA+

Wingthing runs AI agents in sandboxed terminals on a user's machine and lets
browsers attach to them through a relay that sees only ciphertext. This
directory holds TLA+ models of the program, TLC configurations that check them
on small instances, and theorems about them that the TLA+ proof system checks
for every instance. File names and line numbers are those of `src/`.

1. [The system](#the-system): its parts, their state, what is hard about them
2. [The modules](#the-modules): how they correspond to the code
3. [The runs](#the-runs): what each shows, its bounds, the fairness
4. [The proofs](#the-proofs)
5. [Where code and words disagree](#where-code-and-words-disagree)
6. [What is not modelled](#what-is-not-modelled)
7. [The plan](#the-plan)

## The system

    agent <-> PTY <-> egg <--gRPC--> wing daemon <--WebSocket--> relay <--WebSocket--> browser
             (a process per session)  (one per machine)      (login node, edge nodes)

An *egg* is a process that runs one agent in a sandbox and keeps its output. A
*wing* is a daemon that connects out to the *relay* (the "roost"), opens eggs
and encrypts their output for browsers. The relay routes by session; it may be
one process or a login node with several edge nodes. A P2P data channel or a
direct WebSocket may carry a session past the relay.

### Components, their state, and what makes them right

| Component | State | Operations | Hard behaviour, and what must hold |
|---|---|---|---|
| **Replay buffer** (`egg/server.go` 115-290) | the buffer, the offset trimmed away, a cursor per stream, two wakeup channels | Write (blocks, trims), Register, Unregister, Snapshot, ReadAfter | writer and readers wait for each other; trims are cut at safe places and put a preamble back. Each stream gets the output once, in order; no wakeup is lost |
| **Egg session** (`egg/server.go`, `vterm.go`) | the process, PTY, VTerm and its channel, streams, `done` | start, readPTY, VTerm loop, Session stream with fence, resize, exit, GracefulStop | a fence through a lossy queue; the exit races the last output and the handshake of a stream. Snapshots agree with their offset; the exit code comes last; the egg always goes away |
| **Wing session** (`cmd/wt/wing.go` 2650-3640) | the controller's key, the active stream, viewers, input queue, output goroutines | start, reclaim, attach, spectate, input, kill, exit | a reattach swaps key and stream under a goroutine that still holds the old ones. Each browser gets its replay, then every chunk, under its own key; the session ends |
| **PTY relay** (`relay/pty_relay.go`) | session -> entry (wing, controller, viewers) | start, attach, spectate, input, detach, kill, close; output and exit from the wing | looked-up entries are used after the lock is gone. The controller is displaced by nobody but who may; closed connections are forgotten; exits reach everyone |
| **Wing WebSocket client** (`ws/client.go`) | the connection, the table of sessions and their input channels | dial, backoff, register, start, attach, reclaim, reconnect | sessions outlive connections; channels are deleted by name. A session has one handler, and gets its messages after a reconnect |
| **Wing daemon** (`cmd/wt/wing.go`) | eggs and the files they leave, the table of handlers, idle times | start-up and reclaim, reaping, spawning, orphan kill, idle kill | eggs outlive the wing and are known by their files alone; reclaims overlap. A serving egg is found again and never swept |
| **Registry and cluster** (`relay/workers.go`, `wing_map.go`, `internal_api.go`) | wings per node, subscribers, login's map of wings, edges and their expiry | connect, disconnect, events, 5-second sync, reconcile, lookup | events and syncs overtake each other; wings move between edges. The map converges to where wings really are |
| **Bandwidth** (`relay/bandwidth.go`) | counters per user, tiers, exceeded users, month | meter, drain, requeue, add, write to the database, invalidate | a lost answer, a month's end between two reads. Usage is counted once and limits follow tiers |
| **Session and entitlement caches** (`session_cache.go`, `entitlement_cache.go`) | token -> user and orgs, with expiry | validate, refresh, update by event, forget | a late answer overwrites a newer event. A revoked right ends within the expiry |
| **Orgs and entitlements** (`org.go`, `store.go`, `app_handlers.go`) | orgs, members, invites, seats, subscriptions, tiers | create, invite, revoke, consume, remove, delete, upgrade, cancel, downgrade | handlers of several statements without a transaction. An invite works once; tiers, entitlements and seats agree |
| **Device and web login** (`handler.go`, `auth_web.go`, `jwt.go`, `passkey.go`) | device codes, magic links, sessions, challenges | request, claim, poll, expire, log in | two users or two pollers and one code. A code gives one token to one device for the one who claimed it |
| **Passkeys and keys of a wing** (`config/wing.go`, `cmd/wt/wing.go`) | `wing.yaml`, the daemon's copy, the allowed users, folders and members | allow, revoke, lock, config set, SIGHUP, tunnel requests, sweep | the file and two copies of it, changed by commands and by requests. Changes are not lost; who lost a folder loses the terminal in it |
| **Peer-to-peer transport** (`webrtc/`, `web/src/webrtc.js`) | the writer a session uses now, the page's buffer, two ways | migrate, fall back, both sides' cleanup | relay and channel do not wait for each other. Output is shown once, in order |
| **Direct mode** (`direct/server.go`) | a WebSocket server on the wing | as the relay's path | same handlers, other ordering |
| **Relay server** (`relay/server.go`, `cmd/wt/serve.go`) | routes and roles | start as single, login, edge | a request at the wrong node |
| **Tool socket** (`egg/tool_socket.go`) | semaphore per tool | call, close (reload, in tests) | calls race for the last place; a tool never runs more than its limit |
| **Egg configuration** (`egg/config.go`) | the files a chain of bases names | resolve, mask, merge | bases and section masks with depth and cycles. What a file denies stays denied below it |
| **Sandbox** (`sandbox/`, `egg/snapshot.go`) | the mounts of a session, its copy-on-write layer, the settings' snapshot | mount step by step, end, copy back, restore | a mount may fail, two sessions share a home. Writes land where the rules say, and are there afterwards |
| **Egg command and client** (`cmd/wt/egg.go`, `egg/client.go`) | files of an egg | spawn, dial, audit | the wing polls for a socket that may never come |
| **Session recording** (`egg/server.go`, `wing.go`) | the recording's frames, flushed now and then | output, resize, close, playback | a file read while it is written, or cut by a death. Playback shows what was recorded |
| **Chat history** (`egg/chat_capture.go`, `chat_restore.go`, `cmd/wt/session.go`) | the agent's files, the egg's copy, `chat.meta` | capture by ticker and at the end, list, sync, resume | two captures share a temporary name. A history is whole and the agent's own |
| **Web client** (`web/src/pty.js`, ...) | key, terminal, pending output, transport | start, attach, reconnect, decrypt, migrate | messages of an earlier attach arrive after a later one |
| **Local store and cron** (`store/`, `cron/`) | tasks, schedules | ready tasks, next time | boundaries of a schedule |
| **Sync** (`sync/`) | manifests, conflicts | diff, apply, import threads | two machines' changes are both kept |
| **Command line** (`wing.go`, `roost.go`, `main.go`, `update.go`) | pid, args, status and token files | start, stop, restart, login, logout, update | commands of two daemons clear each other's files. There is one daemon, and stop finds it |
| **Prompt building; agents, embeddings, notifications** | none or files | sequential | |

`PROJECT.json` lists each with its status, and under `hazards` the places where
these components can go wrong in ways a test hardly reaches, with the
properties that cover them.

### How they interact

* readPTY writes the replay buffer and posts to the VTerm; `Session()` takes
  its snapshot from one of the two and then reads the buffer through a cursor.
  The buffer blocks readPTY when a registered stream lags.
* the wing opens one `Session` stream of the egg per attach (a new one each
  time a browser takes the session over, another for each spectator), encrypts
  what it receives and writes it to its WebSocket. Cancelling a stream is how
  the wing ends an old browser's output.
* the relay forwards by the session's entry: from a browser to the wing of the
  entry, from the wing to the controller and the viewers.
* on an edge node, wing events and usage go to the login node; sessions, orgs
  and tiers come back, and what comes back may be older than what came before.
* eggs are tied to a wing by three files only (socket, token, pid): a wing that
  starts or reconnects reads them and makes a handler for each.
* `wing.yaml` is the meeting point of the commands and the daemon; SIGHUP tells
  the daemon to read it again, and the daemon writes it too.
* a session's browser and its wing may move its traffic from the relay to a data
  channel and back while both are in use.

## The modules

Every definition that translates code is listed in `PROJECT.json` under `map`
with its lines. Operators named `Mutant...` are wrong variants of the
definition they precede, one per property: with the variant in its place TLC
finds the property violated.

| Module | Models | Composes or is composed in |
|---|---|---|
| `OutputStream` | what an egg promises its clients | implemented by ReplayBuffer |
| `ReplayBuffer` | the buffer of an egg | refines OutputStream; an offset in EggSession |
| `EggSession` | the rest of an egg | streams are what WingSession reads |
| `WingSession` | one session's handler on the wing | a handler of WingDaemon |
| `WingDaemon` | the wing's connection, all its handlers, the eggs' lives | |
| `PTYRelay` | the relay's entry for a session | |
| `WingCluster` | where wings are, over all nodes | |
| `Bandwidth` | a user's meter, over all nodes | |
| `OrgEntitlements` | one organisation in login's database | |
| `Logins` | accounts and sessions in login's database, and at an edge | |
| `WingConfig`, `PeerLink`, `WingCommand`, `ToolListener`, `EggSandbox`, `EggConfig`, `AuditRecord`, `ChatHistory` | what stands beside a session on the wing's machine | instances in `Parts` or `MCParts` |

`MCWingSession`, `MCOrgEntitlements`, `MCLogins` and `MCParts` only give values,
views and symmetries for TLC.

### ReplayBuffer

The writer (readPTY) and the output goroutines of any number of streams, over
one `replayBuffer`. Bytes are numbered and the buffer is a sequence of those
numbers, with 0 for a byte of the mode preamble that a trim puts back; so loss,
repetition and order are visible, and content is not. Each critical section of
the mutex is one action; a channel captured under the lock and waited on
afterwards is the state `"wait"`, and closing it wakes those who captured it.

| Code | TLA+ |
|---|---|
| `Write`: append, choose a cut, trim and inject the preamble, or wait | `WriteUnderLimit`, `WriteTrim`, `WriteBlocked` |
| `findSafeCut`, `buildTrimPreamble` | `SafeCuts` (any place it may return), `Preamble` (any length up to `MaxPreamble`) |
| `Session`: snapshot, send, register, read loop, end | `TakeSnapshot`, `SnapshotSendFails`, `Register`, `Unregister`, `StopOutput` |
| `ReadAfter` | `ReadAfterData`, `ReadAfterEmpty` |

`trimmed` can become negative: a trim adds the bytes it cut less the preamble
it put back. The model keeps that, and the counter `written` that a blocked
Write adds to on every try.

`OutputStream` says the same without a buffer: a log that grows, streams that
ask, open, are served up to the log's end and close. A stream may miss only what
its opening found gone, and the log may not leave an open stream that missed
nothing more than `Limit` bytes behind. `ReplayBuffer!Stream` maps the end of the
buffer to the log's end, a cursor to what its stream was served, and the cells
handed out, less preamble bytes, to what it saw; `ImplementsStream` is the
refinement. The goroutine of a stream that is gone still reads once: in the
abstraction that is a stutter.

### EggSession

The rest of an egg: the agent's process, readPTY, the lossy channel to the
VTerm loop, streams with the fence handshake of a VTE attach, and the chain
exit code, `done`, close of the PTY, GracefulStop. Output is counted in PTY
reads; a snapshot is the set of chunks it shows, so a chunk that was dropped
before the VTerm is a hole in it. The buffer is a count here: its trimming is
ReplayBuffer's subject.

| Code | TLA+ |
|---|---|
| `readPTY` | `ReadPTY`, `PostToVTerm` (drops when full), `ReaderStops` |
| `runVTermLoop` | `Render`, `VTermStops` |
| the goroutine after `cmd.Wait` | `CloseDone`, `ClosePTY`, `GracefulStop`, `Stopped` |
| `Session`: fence, its two timeouts, first message, register | `Attach`, `Start`, `EnqueueFence`, `FenceAnswers`, `FallBack`, `Open`, `Leave` |
| its output goroutine | `ReadAfter`, `Notified`, `DrainAfterExit`, `SendSucceeds`, `OutputBreaks`, `SendExitCode` |

### WingSession

`handlePTYSession`, and with `Reclaimed` `handleReclaimedPTY`: the goroutine
that handles what browsers send, one output goroutine per egg stream, and the
egg as far as the streams see it. Client `g` owns key `g` and stream `g`. The
seven steps the code numbers in a reattach are `TakeAttach` (1, 2),
`Announce` (3), `Connect` (4), `GetReplay` (5), `SendReplay` (6) and
`Activate` (7). The output goroutine receives, looks up the key and sends in
three steps (`Recv`, `TakeKey`, `Send`), since the key's lock is not held
across them. `limit` is how far a cancelled stream can still be read: what
gRPC had delivered by then.

### PTYRelay

One session's routing entry, any number of browser connections, and the wing as
the relay sees it. An entry is an object: goroutines keep the one they looked
up while the table may hold another or none. Per connection: a request
(`Start`, `Attach`, `Kill`, `AskDetach`), the change of the entry
(`TakeControl`, `AddViewer`, `Detach`), the write to the wing (`Forward`) and
the end (`Close`, ClearBrowser) are separate steps. The wing's reader is
`Fetch` (look up), `Pick` (addressees, under the entry's lock), `Tell` (the
writes), then the limit (`Exceed`, `DetachExceeded`) or the removal
(`RemoveEntry`). The wing answers requests in order and its messages come in
order; it takes the last controller it heard of.

`Init` is a session about to be started, or a live one that a restarted relay
has no entry for: attaching makes one then. As in `web/src/pty.js` a browser
opens a connection for each start or attach, so a connection asks for a once.

### WingCluster

Every node's registry of connected wings and the login node's `WingMap`.
A connection `k` is a `ConnectedWing`; its handler runs from `Connect`
(`Wings.Add`) through the event it dispatches (`Online`, and on an edge the
report to login, `LoginRegisters`, which may come after the edge stopped
waiting, `Reported`) to `Disconnect` (`Wings.Remove`) and what login does then
(`CheckOffline`, `DeregisterOffline`: two critical sections). `edgeSync` takes
its time and then the registry (`Snapshot`, `Collect`); `handleWingSync`
registers wing by wing and reconciles (`Absorb`, `Reconcile`). When an event
asks for the edges, every machine expires that login has not heard of for 30 s,
with its wings (`Broadcast`, `EdgeIDs`): an edge that is dead, one that lives
but whose syncs are lost or late, and login itself, which is on the list for its
own wings and never syncs. That a live edge is silent so long is one of the
faults below; its next sync brings its wings back.

`ReconcileFull` is the only place that compares times, so a sync carries the
answer instead of a clock: `newer` are the wings whose `RegisteredAt` will be
after its `snapshot_at`. That includes wings registered earlier in the same
second (`young`), because the time is sent in seconds. The clocks of the nodes
are assumed to agree; with an edge that is ahead `RegisteredStays` would fail.

Restarts, lost requests, syncs that outlive their timeout and edges that are
silent for 30 s share the bound `MaxFaults`. The wing's old connection may live
on after it has a new one (`cur` is the one its client uses); a node notices in
time (`Disconnect` is fair then).

### WingDaemon

Sessions, eggs and handlers over several lives of the wing. An egg is a process
(`proc`) and the files by which it is found (`files`); a handler is the
goroutine of one session, whose inside is WingSession; `table` is the client's
map from session to the handler with its input channel (`inbox`, of `InputCap`).

| Code | TLA+ |
|---|---|
| the egg process: boot, files, end | `Listens`, `Serves`, `BootFails`, `AgentEnds`, `Leaves`, `EggDies` |
| `reapDeadEggs`, the idle reaper, `killOrphanEgg` | `Sweeps`, `Reaps`, `Lists`, `ReapsIdle`, `OrphanTold`, `KillsOrphan` |
| `handlePTYSession`, `handleReclaimedPTY`, `spawnEgg` | `New`, `Authenticates`, `Spawns`, `Polls`, `Attaches`, `SeesExit`, `TakesInput`, `TakesPasskey`, `Returns` |
| `ws.Client`: dial, drop, dispatch of messages | `Dials`, `Registered`, `Drops`, `Receives` (with `Push`, which drops when the channel is full) |
| the reclaim after a registration | `ScanBegins`, `ScanChecks`, `ScanRegisters`, `ScanEnds` |
| the wing's end and start | `WingDies`, `WingStarts` |

A scan asks whether a session is tracked and registers it afterwards, in two
steps, as the code does; two reconnects in a row may have two scans at work
(`overlap`), and then an egg may get two handlers. `OneHandler` says that there
is no other way to that.

### OrgEntitlements

One organisation. A request is a sequence of store calls, each of them one
statement or transaction of the database and one step here: `Ask...` starts a
request, `Pick` operators choose the rows a loop goes through, and the other
steps are the calls (`CreateInvite`, `ConsumeInvite`, `AddMember`, `GrantSub`,
`Entitle`, `SetPro`, `CancelSub`, `Retier`, ...). `Fail` makes a call return an
error, with what the handler does then (`AfterError`: some return, some go on);
`Restart` cuts requests short and runs the backfill of the start-up. `clean`
remembers that neither happened and that requests came one at a time.

### Bandwidth

One user's meter on login and on the edges. A message arrives (`Arrive`), the
tier is looked up outside the lock (`Lookup`, `Store`), the cap is checked
(`UnderCap`), and the counter that was found is added to (`Add`): it may be last
month's by then. An edge drains its counter into a sync (`Drain`), login absorbs
it and answers (`Absorb`, `Answered`), and a sync that fails is counted again
(`SyncFails`), which doubles it if only the answer was lost. Login writes the
month's total in two steps (`Snapshot`, `WriteTotal`), the month turns
(`NewMonth`, noticed by each node at its next message), nodes restart.

### Logins

Accounts, mail links, sessions and device codes in login's database, and what
one edge believes of them. As in OrgEntitlements a request is a sequence of
store calls and any may fail (`CallFails`): `MagicLink`, `MagicVerify` and
`ConsumeMagicLink`, `OAuth`, `FindUser` and `UpsertUser`, `CreateSession`,
`Logout`; `AuthDevice`, `ReadCode` and `ClaimDeviceCode`, `AuthToken`. The edge
validates a session with login (`Validate`, `InternalSession`, `SessionOrgs`,
`Learn`: asked, answered and believed at three times), refreshes a user's
organisations on an event (`RefreshStreams`, `InternalUserOrgs`, `RefreshCache`)
and all of them every five minutes (`SyncBegins`, `UserOrgsBulk`,
`SyncApplies`), and lists the event streams of dashboards (`Subscribe`,
`Unsubscribe`). `Tick` is a part of the five minutes after which an entry is
asked for again.

### WingConfig

`disk` is `wing.yaml` (empty for the moment in which `os.WriteFile` has
truncated it), `conf` the daemon's copy and `allowed` its list of users, which
it keeps apart. A list has any number of entries for a user, without a passkey
or with one, in their order: what looks for a user takes the first (`OneLess`),
what enrols a key looks for the first without one (`Keyed`). A command loads,
changes, saves in two steps and signals (`Command`, `CliTruncates`, `CliWrites`,
`CliSignals`; `CliKilled` anywhere); the daemon reloads in three (`ReloadReads`,
`ReloadKeys`, `ReloadPaths`); a request changes the copy and saves it
(`Arrives`, `AllowAdd`, `AllowRemove`, `PasskeyAuth`, `SetMembers`,
`ReqTruncates`, `ReqWrites`), and a relay message registers a passkey
(`PasskeyRegistered`). `PasskeyAuth` has both ways in which an authentication
lists a user unasked: one that fails leaves an entry, and one with another key
than the stored one adds a second. A removal of members lists the sessions and
kills them (`SweepLists`, `SweepKills`) while others start (`Starts`, `Runs`).
One folder; one change per request; the paths themselves (`paths.set`) do not
change.

### PeerLink

The page and the wing, with the relay's way and the channel's way as two queues
in each direction that nothing orders with each other. `MigrateToDC` is the
wing's handling of `pty.migrate`, which polls for the channel (`Looks`);
`CompleteMigration` is the page's handling of `pty.migrated`, which shows what
it had buffered of the channel. Either side may give up or lose the channel at
any time (`TimesOut`, `Fails`, `PageCloses`, `WingCloses`, `Cut`).

### WingCommand

The commands that start, stop, replace and look at the daemon of a wing or of a
roost (`WingStart`, `RoostStart`, `Stop`, `WingStop`, `RoostStop`, `Logout`,
`Login`, `Update`, `WingStatus`, `RoostStatus`), one at a time, against the
daemons they spawn. Those that wait are two steps (`StartEnds`, `LogoutEnds`,
`LoginEnds`), so that a daemon boots, connects, loses its connection, quits or
is killed meanwhile (`Boot`, `Connects`, `Loses`, `Quits`, `Exits`, `Killed`). A
pid file that names no process is tidied, as in the code, by whoever reads it.

### ToolListener

A call is read, looked up (`LooksUp`, under the lock, which yields the tool and
the semaphore), admitted or refused (`Admits`, a try on the semaphore, which may
be `Full`) and finished; `Close` waits. `Reload` replaces the map of semaphores
but keeps those whose limit did not change (`Keeps`). Only the repository's tests
call it; it is modelled because it is an operation of the listener. `ToolLimit` says
the same without it.

### EggSandbox

What a write to a path reaches: the disk, the session's copy-on-write layer, a
read-only mount or nothing. The wrapper mounts step by step (`SetupJail`,
`MountsOverlay` or `BindsThrough`, `ReadonlyHome`, `Denies`, `DeniesWrite`), any
mount may fail with what the code does then, and the end copies back or discards
(`Exits`, `Restores`). There are eight paths: two directories the rules list, one
of them with a write-protected file in it, the agent's own with its settings, the
file beside it, a denied path, and something else. Each but the last may be
missing at the start, the protected one too: then it is not protected (`bare`).

For its layer the wrapper binds the home a second time, under its temporary
directory (`saved`). That mount is as writable as the home was, stays when the
layer is taken down, and the agent reaches it; what it changes there is `around`.

`perUser` says whether the home is the host's or one the wing keeps for a user of
an organisation. The wing writes the settings of such a home anew at each start,
on top of some of what was there (`Rebuilt`), and nothing puts them back
afterwards: the egg's snapshot is of the host's home whichever the session has
(`Starts`, `Restored`).

### EggConfig, AuditRecord

Two computations with a machine around them that feeds all inputs within the
bounds. EggConfig resolves a chain of files with bases and section masks
(`ResolveEggConfig`) and is compared with a definition that takes each section
by itself (`SectionOf`). AuditRecord encodes frames with varints of one bit per
byte into a file that is flushed now and then, may be cut by a death, and is
played back from whatever length it has (`StreamAuditData`). A recording of the
old format has no header and may begin at any time, so that its first bytes may
be those of the new header; it is then read as a new one (`Misread`).

### ChatHistory

Two captures (the ticker's, and the final one) that write the same temporary
file and rename it; the agent's own file, which it may be writing; the wing's
list, `wt session sync` on another machine, and a later session that puts the
copy back. A file is two halves, each of some conversation at some length, so a
torn copy can be seen. The egg's end looks for a history (`Cleanup`), removes the
directory if there was none (`Removes`) and is gone later (`Leaves`); captures go
on meanwhile, since a shutdown waits for none, and one may put its file in place
after the look. The synced copy is written in place: `SyncStarts` empties it,
`SyncEnds` has written all of it, and `SyncBreaks` is a kill or an error between.
`Resumes` may be cut short as well.

## The runs

Eleven runs check what holds:

| Run | Shows | Bounds |
|---|---|---|
| `replay` | what a registered reader still needs is never trimmed (`UnreadKept`); a stream gets each byte once and in order (`ExactDelivery`); a blocked Write returns and output arrives (`NoLostWakeup`); the buffer implements OutputStream (`ImplementsStream`) | 2 streams, 4 bytes through a buffer of 3 with chunks of up to 2, cuts that vary by 1 and a preamble of up to 1: every write but the first can trim, block or inject, while streams come and go |
| `egg` | a snapshot shows nothing past its offset and misses only what was dropped before the VTerm (`SnapshotAccounted`); the exit code comes after everything logged when `done` was closed (`ExitAfterLogged`); open streams learn of the exit and the egg always stops (`EggEnds`) | one stream slot used twice, a VTerm channel of 1, 2 chunks and a resize: the channel is full, the fence times out before and after it was queued, the exit comes at any point of the handshake |
| `wing_safety` | a client's first readable output is its replay, its own stream brings every chunk once, and the exit code comes last (`StreamsExact`) | 2 clients after the first, as controller or spectator, 2 chunks, an input queue of 1 (which drops) |
| `wing_ends` | a kill ends the session; so does the agent's exit when no reattach is under way; no output goroutine outlives the egg (`AllEnds`) | the reclaimed handler, one client, an egg that may crash |
| `relay` | a controller is displaced only by an attach, its own detach or close, or the limit; closed connections are forgotten and entries stay until the exit (`RouteSound`); who attaches is served and who stays is told of the end (`ClientsTold`) | 2 connections, metered, both kinds of start |
| `cluster` | no late sync or report, and no expiry of another machine, takes a registered wing off the map while login hears of its edge every 30 s (`RegisteredStays`); when wings and nodes are quiet every node finds a connected wing where it is, and a wing that left is on no map (`MapSettles`) | one wing (entries of the map do not influence each other) that connects twice, to either of two edges or to login, with old connections that linger, and one fault of any kind |
| `daemon` | a session's messages go to a handler that lives, there is one, and it is the one listed (`HandlersHold`); nothing sweeps the files of a serving egg, and a kill for a session nobody handles ends its egg (`EggsKept`); a registration finds every serving egg again (`Reclaims`) | one session (sessions share only the scans), three handlers, two registrations, three messages, an input channel of 1, a death of the wing or the egg |
| `orgs` | invites work once and membership is by invitation, whatever overlaps, fails or is cut short (`ByInvitation`); without overlaps and failures tiers, entitlements and seats agree (`QuietConsistent`) | an owner and two users, two subscriptions, two invites, three requests of which two overlap, a failure or a restart |
| `bandwidth` | every message is in a counter or on its way, but for losses and doublings the model names; login's tier is fresh (`MeterSound`); who stays over the cap is refused by every edge in the end (`OverCapStops`) | an edge, two messages against a cap of 1, a month's turn, a payment or cancellation, a failure or restart |
| `logins` | one account per identity, a link opens one session, a device code has one claimer, a deleted session ends within the cache's time, event streams are listed once (`LoginsHold`); the edge's view of memberships becomes right (`CacheCatchesUp`) | five scenarios (`MCLogins`), each with the budget of what it is about: three first logins, two people and one code, a session that ends, memberships that change twice, with a cache and with a stream |
| `parts` | the eight parts below | two or three of everything that repeats; the bounds are in `MCParts.cfg` and `MCParts` |

`parts` checks, of PeerLink, that a terminal shows its output once and in order
while it moves between relay and channel (`OnePicture`); of WingCommand, that
there is one daemon and a pid file that names it (`OneDaemon`); of ToolListener,
that a tool runs no more calls than its limit (`ToolLimit`); of EggSandbox, that
writes through the home stay within the rules (`WritesWithin`), that they
survive, and that the host's settings are put back (`WorkKept`); of EggConfig,
that a chain resolves to what its files say (`RulesResolve`); of WingConfig,
that changes made one after the other land and that who was taken off a folder
has no terminal in it (`ChangesLand`, `AclEnforced`); of AuditRecord, that any
part of a file plays back as the events in it (`PlaybackTrue`); of ChatHistory,
that a history is whole and is not lost (`HistoryKept`). The parts do not
interact, so the initial state chooses one: the state graph is the disjoint
union of the eight, not a product. `Parts` has the six that are free of
recursion, with constants that the proofs leave open, and `MCParts` gives these
values and adds EggConfig and AuditRecord. `PartsTypeOK` joins the types of the
six; `RulesResolve` and `PlaybackTrue` include those of the other two. For
EggSandbox `SmallHomes` ties paths together at the start that no rule relates:
the file beside the agent's directory is there when its settings are, the denied
path when the protected one is, and of the two writable directories the first is
missing only with the second. The proofs need none of this. ChatHistory's copy
is synced again only when it is no good.

Several of these properties are conjunctions of those their modules state one by
one: `NoLostWakeup` of `WriteReturns` and `OutputArrives`; `EggEnds` of
`ExitIsTold` and `EggStops`; `StreamsExact` of `ReplayFirst`, `OwnStreamExact`
and `EndIsComplete`; `AllEnds` of `KillEnds`, `ExitEnds` and `StreamsEnd`;
`RouteSound` of `ClosedForgotten`, `ControllerKept` and `EntryKept`;
`ClientsTold` of `ExitTold` and `AttachServed`; `MapSettles` of `Converges` and
`GoneForgotten`; `HandlersHold` of `EntryServed`, `OneHandler` and
`HandlerListed`; `EggsKept` of `FilesKept` and `OrphanDies`; `MeterSound` of
`Accounted` and `TierFresh`; `ByInvitation` of `InviteOnce` and
`MembershipSound`; `LoginsHold` of `OneAccount`, `ClaimOnce`, `LogoutBites` and
`ListedOnce`.

`wing_hang` ends with a counterexample, which is
[below](#where-code-and-words-disagree).

Why the bounds are enough: in ReplayBuffer, EggSession, WingSession, PTYRelay,
WingCluster, WingDaemon, Bandwidth, OrgEntitlements, Logins, WingCommand,
ToolListener, EggSandbox, WingConfig, ChatHistory and PeerLink the safety
properties are proved for every value of the constants, and the small instances
only have to make sure that what is proved is not empty: mutants of each
definition fail at these bounds. What follows is about their liveness, and about
the rest. For WingSession two later clients are needed for a reattach during a
reattach's consequences (old goroutine, new one, and the next), and two chunks
to tell a repeated from a missing one. For PTYRelay two connections are an owner
and a contender; a third adds another contender of the same kind, and would only
matter to properties that count viewers. For WingDaemon two registrations let
two scans overlap, and a third handler is one that comes after both. For
Bandwidth one edge suffices since edges meet only in login's counter, which
login's own messages also change. In every case each property has a mutant of
the modelled code that the same run rejects.

### Fairness, and why the code justifies it

* A goroutine that can take a step takes it (the Go scheduler). A goroutine
  blocked on a channel is fair only while the channel is ready.
* A send to a client returns, as a success or a failure. gRPC streams break
  when the peer is gone, and the relay writes with a five-second timeout.
* A client leaves an egg's stream once it has the exit code or its output has
  stopped (`EggSession`): the wing cancels the stream's context then.
* SIGTERM ends the agent (`KillEnds`). The process may choose when.
* Nothing makes an agent write or exit, or a browser come, attach, detach or
  close by itself.
* Streams that were asked for before the agent's exit are taken by the egg
  within the half second before GracefulStop (`Stops`): a local socket.
* Edges sync, and login handles what has arrived, for ever; a second ends. A
  node notices that a connection is dead which its wing has left
  (`WingCluster`). That silent edges expire is not assumed: it takes an event.
* An edge's sync goroutine runs for ever and its requests end, as answers or as
  errors (`Bandwidth`): the ticker and the HTTP client's timeout.
* An egg that was told to end ends, goroutines of the wing that can step do, and
  a scan after a registration goes through its list (`WingDaemon`). An agent
  does not end by itself, and nothing makes the wing reconnect.
* Requests between an edge and login end within their timeouts, and the
  five-minute sync comes round (`Logins`).

Nothing else is fair. OrgEntitlements and the modules in `parts` state safety
only and have no fairness.

Deadlock is checked where the system has a final state (`Finished`, or a
stuttering end: `replay`, `egg`, `cluster`, the WingSession runs). It is not in
PTYRelay, WingDaemon, Bandwidth, Logins, OrgEntitlements and `parts`: there the
environment may simply stop asking, at the end of a bound or before.

## The proofs

Eight modules hold the theorems: `ReplayBuffer_proofs`, `EggSession_proofs`,
`WingSession_proofs`, `PTYRelay_proofs`, `WingCluster_proofs`,
`WingDaemon_proofs`, `Accounts_proofs` (Bandwidth, OrgEntitlements and Logins)
and `Parts_proofs`. They hold for any number of streams, browsers, connections,
wings, nodes, users, requests, sessions, processes or calls and any sizes; the
bounds `MaxBytes`, `MaxAttach`, `MaxFaults` and the like only cap counters, and
may be any number. The assumptions on the constants are named in the modules
that declare them.

**ReplayBuffer.** Assumption: `SizesAssumption`, the search window and one
chunk fit the buffer (64 KiB and 4 KiB in 2 MiB). The properties are not
inductive alone. `IInv` joins the type, `ReplayIsSuffix`, `BufferBounded` and,
per reader, `ReaderInv`: its offsets are in order, `start` before `cursor`
before the end of the buffer, and it was handed nothing past its cursor; its
history begins when it is registered; and what `UnreadKept`, `NoReorder` and
`ExactDelivery` say holds of it. `OffsetsOf` is what the last two need: a read
appends cells past the cursor to cells up to it. The argument for a trim: it
cuts at most at the slowest registered cursor, and the preamble takes the
offsets of bytes before the cut. From `IInv` follow
`TypeCorrect`, `ReplaysAreSuffixes`, `BufferIsBounded`, `UnreadIsKept`,
`OutputInOrder` and `StreamIsExact`.

`StreamImplemented` proves the refinement: `Spec => ImplementsStream`, for any
sizes and any number of streams. `WriteImplements` uses `BufferBounded` and
`UnreadOf` for the bound on how far a stream may be behind: what it has yet to
read is all in the buffer, so it is no longer than the buffer. `ReadImplements`
uses `UnreadOf` again, for what a read may leave out, and `SliceBytes`, that the
output bytes of a slice are those of the buffer after the cursor.

**EggSession.** `IInv` is `Types`, `StreamTypes`, `Queue`, `Pictures` and
`Ends`. `Queue` says that data messages in the channel are in increasing order,
that each chunk up to the last one posted is rendered, queued or dropped, and
that the VTerm's offset is behind what is queued; so a fence, wherever it is in
the queue, gets a picture in which only dropped chunks are missing
(`Pictures`, about the VTerm, about a result that waits in a fence's channel
and about a stream that has taken it). `Ends` follows a stream's output
goroutine from `done` to the exit code: between the last read and the code the
cursor is at what was logged at `done` or later. From it follow `TypeCorrect`,
`SnapshotIsAccounted` and `ExitFollowsOutput`.

**WingSession.** Assumption: `WingAssumption`, an input channel of at least one.
`StreamsExact` speaks of what a browser got; that follows from how the stream it
comes from, the goroutine that copies it and the key it is encrypted with are
related, and those are the parts of `IInv`. `Asked`, `Fresh`: a browser asks
once, and until it is handled nothing has been done for it. `Handling` and
`Progress` follow the attach under way from one stage to the next. `Apart`:
apart from spectators only the active stream is not cancelled. `Past` is the
argument for a reattach: the stream that was replaced brings nothing newer than
the snapshot of the one that replaced it. `Given` and `Lent` are about the old
goroutine, which may pick up the new browser's key (`cmd/wt/wing.go:3518`): a
key that is in use belongs to a browser whose replay was sent, and what another
stream sends with it that replay covers. `InStep`: at each stage of its output
goroutine a browser has all that its own stream brought so far. `OwnStreamExact`
is stated with `Reaches`, which looks for a message that goes on where the ones
before it ended; `ReachesPrefix` and its like say that a later message does not
disturb this. The results are `TypeCorrect` and `StreamsAreExact`.

**PTYRelay.** Assumption: `RelayAssumption`, finitely many connections.
`ClosedForgotten` needs that entries are numbered in the order they are made and
that no connection makes two (`Counted`: there are at most as many entries as
connections that have started, so the number of the next one is in range), that
nobody is in an entry to come (`Unmade`), and that a message that removes an
entry is the session's last (`Ended`). `RoutingIsSound` states all of
`RouteSound`: from the invariant each action is shown to displace a controller
only by an attach, its own leaving or the limit (`ControllerKept`), and to remove
an entry only with the exit (`EntryKept`).

**WingCluster.** Assumption: `ClusterAssumption`; wings, edges and faults may be
any. `RegisteredStays` holds since a sync takes off the map only what it does not
list and what did not come after it. `Covered` says so of every sync under way:
a wing that login knows and that has only been with one edge is listed in it or
newer than it. It needs that a sync lists only wings that have been with its
edge (`Listed`) and that connections end with their node (`Placed`). An expiry
takes the wings of silent machines off the map, and with them what login knows of
their connections, so it leaves the claim about the others as it is. The results
are `TypeCorrect` and `RegisteredStay`.

**WingDaemon.** Assumption: `DaemonAssumption`. Of `HandlersHold`, `EntryServed`
and `HandlerListed` are inductive with `OneScan` (reclaims overlap only when
`overlap` says so), `ScansFree` (what a reclaim is about to register is still
nobody's), `Started` and `Fresh` (a handler that has yet to start its egg is its
session's first); `OneHandler` follows from them. `Swept` says in which state an
egg is whose directory a sweep has chosen, from which `FilesStay` proves
`FilesKept`, the safety half of `EggsKept`. The other results are `TypeCorrect`
and `HandlersAreSound`.

**Bandwidth.** Assumption: `BandwidthAssumption`, finitely many edges. `Accounted`
is an equation between sums over nodes: what was relayed is what the counters
hold and what is on its way, plus `lost`, minus `doubled`. The community modules'
`SumFunction` is a fold, about which the library has no theorems that the
installed provers can use; the first part of the module proves the ones needed
(the sum of zeros; the sum after a change at one node). There the induction over
finite sets is done by hand: a set for which the claim fails has a smallest such
subset, and taking an element off it gives the contradiction. `Asked` is what
`TierFresh` needs: a tier that was looked up is still the right one unless the
meter was told of a change. The results are `TypeCorrect` and `MeterIsSound`.

**OrgEntitlements.** Assumption: `OrgAssumption`, finitely many users, room for an
invite for each of them and for one subscription. (`OrgInit`, `OrgSpec`,
`OrgTypeOK` have names of their own because this module is proved about beside
Bandwidth.) `OrgInv` has two halves. `InvitesInv` holds whatever overlaps and
fails: `Carries` and `HasRead` say what a request has read by each of its steps,
so that what it writes has the right type, and `Accepts` that a request about to
add a member is the one that used the invite. Since nothing is rewritten once an
invite is claimed, `MembershipSound` is inductive with that. The other half,
`OneByOne`, is claimed while `clean`: at most one request is under way, and
`Sound` says of it what already agrees and what it has still to do. `TiersRight`
exempts the users whose tier the request is about to write (`Unsettled`),
`Follow` those whose list of organisations it is about to refresh (`Unlisted`),
and `Bought`, `SeatsKept` and `OneSub` follow a purchase from the check that
there is none to the last seat given. When the request is over nobody is
exempt, which is `QuietConsistent`. The results are `OrgTypesHold`,
`MembersWereInvited` and `OneAtATimeIsConsistent`.

**Logins.** Assumption: `LoginsAssumption`, finitely many people and an id for
each of them (the code takes a UUID), a cache's time and a request's flight of at
least a tick. `LoginsInv` has a part for each part of `LoginsHold`. `Identified`:
a request carries what it has read (`Carried`), an account that is there, or
none while it has yet to find one; accounts are never deleted. That a free id
is left for the account of a new identity is counted: the accounts' ids would
otherwise map all ids one to one to the other people (`AccountIs`, by the pigeon
hole theorem of the library). `LinksOnce`: who goes on with a link has used it up,
has not opened a session with it yet, and is the only one. `CodesOnce`: from the
claim on one person is told, and the requests that issue a token carry that
person. `Aging` is why updates of a cached entry are harmless: the time since a
session's end is at most the age of the question that found it alive, or the
age of the entry plus a flight, and no update makes an entry younger.
`ListedOnce` is inductive. The results are `LoginsTypesHold` and `LoginsAreSound`.

**The parts.** Assumption: `PartsAssumption`, finitely many calls, limits and
bounds that are natural numbers (and a line at least for a conversation), and 0
not a session, since it marks a file that is not there. `PartsHold` joins the
invariants of the parts, each of which its own steps keep while the others stay
idle. `PartsTypesHold` is its plainest consequence, and not quite plain: that the
semaphores of ToolListener are numbered within the reloads there were, and that
no file of ChatHistory is longer than a conversation can be.

Of WingCommand, `CommandInv` says that at most one daemon runs and that it is
`Named`: by `wing.pid`, or by `roost.pid` while `wing.pid` names nobody who is
alive, which is the order in which `readPid` looks. A command that waits needs
what it began with: `wt start` that waits for its daemon knows its pid file, and
`wt logout` and `wt login` wait while none runs. `Signalled` and `NoneRuns` say
what a stop leaves, `OneRuns` what a spawn makes of it. The result is
`OneDaemonRuns`.

Of ToolListener, `ToolInv` adds to `ToolLimit` that a tool has a semaphore exactly
if it has a limit, and `SinceHolds`: the calls that found the limit a tool has
hold the semaphore it has. So those of them that run are among the holders of
that semaphore, and the one that is admitted finds fewer than the limit
(`AdmitsInv`). A reload keeps both or empties the history (`ReloadInv`). The
result is `ToolLimitHolds`.

Of EggSandbox, `SandboxInv` says for each session what is mounted at each step
(`Mounted`), that the layer which is copied back has nothing of what is bound
through it (`Bound`), that nobody has written who has not run (`Untouched`),
that without faults a listed directory goes straight to the disk (`Direct`),
that a session which runs alone took its snapshot when nobody else ran (`Alone`)
and that what it changed against its rules it changed by the second mount, or
was not protected when it started (`Within`). Both halves of `WorkKept` follow,
for any home: the one about settings says nothing of a per-user one. `Spares` is
what a step of one session leaves of the others, so that a lemma about an action
need only look at its own. The results are `WritesStayWithin` and `WorkIsKept`.

Of WingConfig, `SettingsInv` says of changes that come one after the other
(`clean`) that one thing happens at a time, `OneAtATime`: nothing, or a terminal
starts (`AtRest`); a command is between its steps (`Commanded`); the daemon was
told of it and reloads (`Reloads`); it handles one request (`Serves`); or it ends
terminals (`Sweeps`). Each says how far the change has come, in terms of what
was asked: the file has it (`Filed`), the daemon's copy and its allowed list have
it (`Known`), or both (`Settled`). Each includes `Single`: a user no authentication
has listed unasked (`tried`) has one entry at most, so that taking the first takes
the user off the list. `KeptOut` is about users who were taken off the
folder, and is claimed of the members that were asked for as well as of those
the daemon knows, since a removal is saved before its sweep begins. The results
are `ChangesAreMade` and `AclIsEnforced`.

Of ChatHistory, `HistoryInv` says that each capture uses one file at most, so
that there is one left for the next (`Spare`), and which files the names stand
for (`Names`). While captures have not overlapped, `Whole`: one of them writes,
the temporary file is the one it writes (`TempFile`), unless the end has taken
both names away, in which case its rename fails; the file that has the name chat
is a whole copy, and so is what a sync writes of it. `Names` also says that a
history which was there before the end looked keeps its name. If nothing failed
and no other session is in the directory (`Undisturbed`), `Latest`: the last
capture copies a file that no longer grows, and if the ticker's comes after it,
that copies the same. The result is `HistoryIsKept`.

Of PeerLink, `LinkInv` tells two times apart. While the channel stands, `Stands`:
the chunks shown, those on the relay, those the page has buffered and those on the
channel are, in this order, all there are, without gap or repetition
(`Complete`); and the sign of the move is the last that came over the relay, so
that who reads the relay to the sign has the buffer next. Once the channel broke,
`Broken`: the wing falls back to the relay, where chunks now come after the sign
as well, and what the channel carried is lost. What is left is order
(`Ordered`): what is on the relay is newer than what is shown and in order, and
what the page buffered lies between what comes before the sign and what comes
after it. `LinkBreaks` is the passage from one to the other. Both need that the
page asks for one move and the wing makes one (`Once`): a second sign would have
no place for the buffer. The result is `OnePictureShown`.

Each proof is three facts, that `Init` implies `IInv`, that a step keeps it
(one lemma per action) and that it implies the properties.

Only model-checked: every liveness property, since the temporal prover does not
handle fairness and `ENABLED`; and of the parts EggConfig and AuditRecord
(`RulesResolve`, `PlaybackTrue`). EggConfig resolves and AuditRecord decodes with
recursive operators, which the provers do not take, so their claims for every
input stay with TLC.

## Where code and words disagree

`wing_hang` is a run that TLC ends with a counterexample, and a finding in
`PROJECT.json`: a reattach cancels the stream that would bring the exit code
(`cmd/wt/wing.go:3469`) and then asks for another. If the agent exits in
between, that fails and nothing ends the handler, which waits "for session to
end" (3623): the session stays listed.

Seen while modelling; the models do what the code does, and the properties are
stated so that they hold, which is why some have exceptions:

* `egg/server.go:1196`: an attach takes its snapshot, sends it, and registers its
  cursor afterwards. With no other reader nothing holds Write back meanwhile, so
  a trim may pass the end of the snapshot. The comments at 1159 and 1199 promise
  "every byte"; `ExactDelivery` and `OutputStream!Open` say which may be missing.
* `egg/server.go:1029`: a chunk dropped at the full VTerm channel is missing from
  the next snapshot, although the offset of a later chunk covers it
  (`SnapshotAccounted` allows just that).
* `cmd/wt/wing.go:3433`: the old output goroutine may hold a chunk while the
  reattach replaces the key, look the key up afterwards (3518), and send the new
  browser a chunk again after its replay (`OwnStreamExact` is about what a
  client's own stream brings).
* `cmd/wt/wing.go:2790`: the handler of a reclaimed session does not look at
  `spectate`, so that a spectator becomes its controller.
* `relay/pty_relay.go:427`: after a relay restart there is no entry until the
  controller attaches; who comes first as a spectator is not known as one.
* `relay/bandwidth.go:38` and 180: a month's turn starts the counters again but
  leaves the set of exceeded users as it is until the next message or sync. A
  tier that is looked up outside the lock may be stored after it was
  invalidated: that is what `raced` in `TierFresh` stands for.
* `cmd/wt/wing.go:2362` says of an organisation that is set that it "will take
  effect next restart"; a reload (1487) does not copy it, and a later save of
  the daemon's copy writes the old one back before that restart.
* `ws/client.go:118`: every error whose text contains 401 counts as a rejected
  token, a port for example, and the daemon leaves (`Loses`).
* `cmd/wt/update.go:119`: an update of a roost starts it again while the old one
  may still hold its port; the new one then leaves (`Boot`). `OneDaemon` does not
  promise that there is one.
* `egg/chat_capture.go:30` calls the write of a capture atomic. The temporary
  name is shared by the ticker's capture and the final one, so two that overlap
  rename each other's file (`overlap` in `CaptureWhole`). `wt session sync`
  copies no `chat.meta`, and resuming overwrites a newer file of the agent.
* `docs/p2p_design.md:83` promises "zero races, zero duplicates, zero reordering"
  of a migration. `OnePicture` confirms it for messages that are handled one
  after the other; the page decrypts asynchronously (`web/src/webrtc.js:274`).
  Line 110 lets a session whose channel died go on "normally"; output that was
  under way on the channel is gone, so the second part of `OnePicture` ends there.
* `relay/wing_map.go:79`: asking for the edges removes every machine that was
  silent for 30 s and its wings, also a live one and wings that registered
  meanwhile. `RegisteredStays` asks that login hears of the edge.
* `cmd/wt/wing.go:3742`: a user who has an entry with a key and signs with another
  key the relay attests gets a second entry, which is saved (3757-3770).
  `allow.remove` takes the first only (4228-4247), so the user stays allowed.
  `tried` in `ChangesLand` are those users.
* `sandbox/deny_linux.go:197`: a path to be write-protected that is not there is
  skipped, and the agent may make it (`bare` in `WritesWithin`).
* `sandbox/deny_linux.go:295` binds the home a second time for the layer's lower
  half, writable, where the agent can reach it: 311 says "real HOME is untouched",
  which holds of what is written to the layer (`around`).
* `egg/server.go:515`: the settings' snapshot is of the host's home even when the
  session has a home of its own, so those settings are never put back
  (`perUser` in `SettingsRestored`).
* `egg/server.go:939`: the end looks for a history and removes the directory
  afterwards; a capture that is renamed into place in between goes with it.
  `CaptureWhole` speaks of what was there before the look.
* `cmd/wt/session.go:116` writes the synced copy in place; a kill or a full disk
  leaves a part of it (`cut`).
* `cmd/wt/wing.go:4518` tells the formats of recordings apart by their first four
  bytes, which an old recording may have by chance (`Misread`).
* `relay/org.go:521` and its neighbours go on when a statement of theirs fails;
  `QuietConsistent` therefore asks for requests without failures.

## What is not modelled

* In the modules there are: content (bytes, escape sequences, encryption),
  attention, previews, the idle watchdog of an egg (it is one of the causes of
  `ProcessExits`), chunking of replays into 128 KiB messages. In PTYRelay the
  routing between nodes, tunnel requests and push notifications; in WingCluster
  the events that browsers and other edges are sent and the check of a wing's
  org; in Logins the providers' protocols; in EggSandbox seccomp, cgroups, the
  domain proxy and macOS; in PeerLink the asynchronous decryption of a page,
  which may let an output on the channel overtake one on the relay that is still
  being decrypted (`web/src/webrtc.js:274`), and the reconnection of the page.
* `done` is closed when the agent's process is reaped, not when its PTY is
  empty, so a client may get the exit code without the last words. EggSession
  does this (`told[r]` while `unread` is not 0) and no property forbids it.
* `sessions.history` filters a page after it was cut (`cmd/wt/wing.go:4014`), and
  resuming a codex session does not use its id (`egg/server.go:1309`): sequential
  details which no model here shows.
* Components marked `not_modelled` in `PROJECT.json`, with the reason: direct
  mode, the relay's routes, the page's terminal, the local store and scheduler,
  sync, prompt building, adapters. Cryptography, system calls, rendering and
  adapters for agents are left out for good.

## The plan

1. Theorems: the refinements of item 4.
2. `BrowserPTY`: a terminal's key, replay and pending output across reconnects
   and migrations (`web/src/pty.js`), and its composition with PTYRelay.
3. The events of WingCluster: what dashboards and PTY browsers are told when
   wings come and go, in the order it reaches them.
4. A *stream* with an exit that EggSession implements and WingSession assumes of
   its egg, as OutputStream is for the buffer; a *roster* (where each wing is)
   that WingCluster's map follows.
5. Pure algorithms against reference definitions: cron, ready tasks, sync's
   manifests.
