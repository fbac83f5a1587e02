# Physics Data Viewer: verification project

TLA+ models of the Physics Data Viewer (PDV), with TLC configurations that
check them on small instances and TLAPS proofs about them. Paths such as
`transport/attach.ts` are below `src/electron/main/` of the repository.

Contents: [the system](#1-the-system), [the modules](#2-the-modules),
[what the runs check](#3-what-the-runs-check),
[bounds](#4-bounds-and-why-they-are-enough),
[fairness](#5-fairness), [what is proved](#6-what-is-proved),
[where code and comments disagree](#7-where-code-and-comments-disagree),
[what is not modelled](#8-what-is-not-modelled),
[the plan](#9-the-plan), [how to run it](#10-how-to-run-it).

## 1. The system

PDV is an Electron application around a language kernel that holds a tree of
data. Since sessions can be remote, its main process is split in two: a *shell*
(windows, and a handle on a server) and a *server* (kernel manager, project
manager, handlers). A remote server is a daemon on a login node; the shell
reaches it through an ssh process that runs `pdv-server attach`, which bridges
a stream pair to the daemon's socket. The daemon outlives its connections, and
it is there, in rejoining a session that kept running, that much of the hard
behaviour of the program lies. The rest lies in what the server does for a
session (starting, stopping and restarting its kernel; saving its project while
the kernel works), and in the shell, when the window moves between a local and
a remote server.

    renderer --IPC--> shell: SessionRouter
                        |-> LocalServerSupervisor -> pdv-server (child process)
                        |-> RemoteServerHandle  (RemoteConnectionManager: ssh)
                        | one RpcClient per channel
                        |  ssh + "pdv-server attach"  (may break at any time)
                        v
    daemon: SessionHost - RpcServer per connection - PushJournal, ResponseStore
              |  onClientsGone / onClientAttached
              v
            SessionIdlePolicy <- execution events - KernelManager -> kernel
              |
              v autosave, then shutdown

    server (daemon or child): kernels.start/stop/restart - KernelManager
              |                            CommRouter, QueryRouter -> kernel
              v
            ProjectManager (save lock) -> project directory, .autosave

### Components modelled

**Push journal** (`transport/push-journal.ts`). State: the ring of retained
frames, the next number, the retained bytes. Operations: `append` (number,
encode, retain, evict by count and by bytes, never the newest frame),
`canReplayFrom`, `framesSince`. Hard: two bounds at once, a frame larger than
the whole ring, and an append that throws after it took a number. Correct when
a cursor that is served gets exactly what it missed, and one that cannot be
served is told so, for good.

**Response store** (`transport/response-store.ts`). State: settlements of
recent requests, by id, with a ceiling and a time to live. Operations: record,
look up, evict. Correct when a retained answer is given to the request it
answers, and an evicted one makes the request *unknown*, never wrong.

**Session host** (`server/session-host.ts`, `transport/rpc-server.ts`,
`transport/attach.ts`). State: the connections with their gates, which one
holds the session, drop timers of superseded ones, handlers that run. Operations:
accept, attach (with its verdict on every request id the client waits for),
supersede, dispatch, settle, push, drop. Interacts with the handle by messages,
with the idle policy by callbacks. Hard: what an attach schedules for a later
turn (`setImmediate`: the retained settlements, then the replay and the opening
of the gate), handlers that outlive the connection they were dispatched on, two
clients that attach at once.

**Remote server handle** (`shell/remote-server.ts`, `transport/rpc-client.ts`).
State: connection state, the owned invokes with their wire ids, the push
cursor, the session's epoch, the reconnect loop, and per channel a disposable
client with its pending requests and its own cursor. Operations: `start`,
`retryNow`, `invoke`, `disconnect`, the backoff loop, attach and `reconcile`,
the expiry sweep, receipt of each kind of message, ping failure. Hard: every
`await` in `connectInner` (openChannel, hello, attach result) may be overtaken
by a close, another attempt, a disconnect, or messages decoded in the same
chunk. Correct when every promise settles as the contract of `invoke` allows, a
mutation runs at most once, no push is lost silently, and the reported state is
true.

**Spawn lock and attach process** (`server/session-lock.ts`,
`server/attach-cli.ts`, `server/session-meta.ts`, `server/daemonize.ts`).
State: files only: the lockfile with its record, the socket, `session.json`,
the heartbeat. Operations: probe the socket, open the lock with `O_EXCL`, write
its record, judge a lock that is there, clear it, remove the socket, spawn,
wait, release. Hard: every file operation interleaves with those of other
processes, which may be killed anywhere, on a home that several nodes share.
Correct when one session gets one daemon, and a stale lock does not keep it
from one.

**Idle policy** (`server/session-idle.ts`, wired in `server/server-main.ts`).
State: one timer, `clientsGone`, `graceDone`, `stopped`. Operations: the events
of the host and of the kernel manager, the timer, and `finish`, which awaits an
autosave. Hard: everything may change during that autosave, and requests for the
kernel outlive the client that made them, so that one boots or is stopped, without
an event, under a countdown or when none is left. Correct when a
session is not stopped under somebody or under running work, nor without a
snapshot, and yet a deserted one ends.

**Kernel manager and routers** (`kernel-manager.ts`, `comm-router.ts`,
`query-router.ts`). State: the kernels in the manager's map and which of them
are shutting down, executions with their crash listeners, per kernel a query
socket behind a queue; the kernel each router is attached to, and the comm
router's pending requests with their timers. Operations: spawn, connecting
its sockets, readiness, exit, interrupt, stop, execute, the query request and the recovery of its socket; attach, detach,
request, answer, progress, timeout. Hard: an answer, a timeout and a detach race
for one promise; a crash may precede the idle status an execution waits for; one
query that times out leaves a socket that refuses the next; a process lives before
it is in the map, and may outlive it. Correct when each
request and execution settles once, by its own answer, and one failure does not
wedge a channel.

**Kernel lifecycle handlers** (`ipc-register-kernels.ts`, `kernel-session.ts`,
parts of `server/wire.ts`, `mcp/generation-guard.ts`). State: the active kernel,
the kernels whose crash handler is registered, the generation MCP agents
compare, a lock. Operations: start (with the sweep of what an earlier client
left), stop, restart, the crash handler, the session reset. Hard: each of them
has many awaits, at each of which a kernel may die and another call arrive; the
code has a comment for a dozen of these cases. Correct when one kernel lives,
and the session is served by a living one that is listened to, or by none.

**Project save** (`project-manager.ts`, `ipc-register-project.ts`,
`ipc-register-autosave.ts`, `autosave-sidecars.ts`, `project-file-sync.ts`, and
the kernel's side, `pdv-python/pdv/handlers/project.py` and `serialization.py`).
State: the project directory (data files, `tree-index.json`, code cells,
modules, environment, `project.json`), its `.autosave`, the kernel's cache of
where each node was last written, the results a save from a cell left behind.
Operations: project:save in all its steps, autosave:run, autosave:clear,
`pdv.save_project()`, opening with or without restoring, restarting the kernel.
Hard: autosaves refer to files of the project, which explicit saves move and
purge; values that nothing can serialize are skipped, and keep what an earlier
index says of them; requests are given up while the kernel goes on; removals are not awaited;
everything may end between two files. Correct when the index and
cells beside a `project.json` are of its save, a snapshot can be restored, a save
that reports success is on disk, and a node it skipped keeps its last copy.

**Window and servers** (`shell/session-router.ts`, `shell/server-bridge.ts`,
`shell/server-supervisor.ts`, `server/shell-confirm.ts`,
`ipc-register-remote.ts`, `remote/remote-connection.ts`, `remote/ssh-mux.ts`,
`remote/ssh-pty.ts`). State: the active server of the window, a supervisor per
local server with its phase and child, the handles, the ssh connection's status,
control and held process, confirm dialogs. Operations: start a session there,
disconnect, shut down, connect, cancel; spawn with one retry, exit, crash
dialog, shutdown chain. Hard: these calls overlap, and each acts after its awaits
on what it read before them. Correct when the window always has a server and no
server and no ssh process is left behind.

**Host install** (`remote/bootstrap.ts`, `prepareHost` of
`remote/remote-connection.ts`, `server/self-check.ts`). State: on the host, the
directory of this version with its markers, staging directories, directories
moved aside; per connect, how far it is, and the command it issued. Operations:
probe, upload, verify, the command that unpacks and renames, self-check, record.
Hard: shells that share a home install at the same time; the command goes on
when its ssh is given up; self-check and record find the directory by its path,
whoever put it there. Correct when what the markers say of the directory is true
of it, and an install is replaced and never lost.

### Components not modelled

| component | state and operations | why not |
|---|---|---|
| ssh configuration, setup scripts, launchers | parsing and building of command lines | no concurrent state |
| modules (`module-manager.ts`, `module-runtime.ts`) | import and manifests of modules | transformations of data with file I/O; what a save writes of them is a step of `ProjectSave` |
| environments and package runners | subprocesses, parsing of what they print | no concurrent state; a start has it as one step that may fail |
| MCP tools, transcript | tools on top of the session | reach it as other callers do |
| windows, menus, updater; renderer | user interface | reaches this system only through invokes and pushes |
| tree, lazy loading, formats in the Python and Julia packages | values of nodes | pure algorithms on data; what the save pipeline sees of them is modelled |

The hazards of the system, at their lines, are in `PROJECT.json`.

## 2. The modules

| module | models | state variables |
|---|---|---|
| `PushJournal` | the push journal | `ring nextSeq retainedBytes`, history `journalled` |
| `ResponseStore` | the response store | `retained` |
| `Wires` | the channels (external: streams and sockets) | `link toClient toServer` |
| `SessionHost` | the daemon; extends the three above | `epoch conn active doomed due running`, history `ran done` |
| `RemoteHandle` | the shell's handle and its clients; extends `Wires` | the record `h`, history `got accounted repeated promised blind dropped` |
| `RemoteSession` | the two composed, with their properties | |
| `CallContract` | abstract: what `invoke` promises its callers | `owned ran done` |
| `MCRemoteSession` | TLC instance, with the faults of a run | |
| `SessionSpawn` | attach processes, lock, daemons' birth and death | `pc tries bootAt seen served boot recycled lock daemon sock meta beat`, history `raced` |
| `MCSessionSpawn` | TLC instance | |
| `SessionIdle` | the policy, with the host, kernel and autosave that drive it | `p attached gated kernel queued handler active killed save closed`, history and counters |
| `MCPushJournal` | TLC instance of the journal alone | |
| `KernelManager` | kernels, executions, query channels | `proc hosted stopping signalled exec query queryQueue socket` |
| `CommRouter` | both routers and the way of a request; extends `KernelManager` | `router queryRouter promise timer message`, history `taken` |
| `KernelSession` | the lifecycle handlers over the two, with their properties and the refinement of `CallContract` | `call active handlers generation mcp`, history `excused` |
| `MCKernelSession` | TLC instance | |
| `ProjectSave` | saving, autosaving and reopening one project, with the kernel's side | `tree backed cache jobs doing calls results dirty clearing opening active canon auto work removing`, history `unsettled stranded swept` |
| `MCProjectSave` | TLC instance | |
| `RemoteConnection` | the ssh connection manager | `status control master attempt ssh connecting leaving`, history `displaced` |
| `LocalSupervisor` | supervisors of local servers, as functions on the record `local` | `local` |
| `ShellSessions` | the window's calls over the two above, handles, daemon and confirm dialogs | `router handle daemon call dialogs left`, history `past` |
| `MCShellSessions` | TLC instance | |
| `HostInstall` | the install of the server on a host, by several shells | `call command dir`, history `past` |
| `MCHostInstall` | TLC instance | |
| `SessionSpawn_proofs`, `SessionIdle_proofs`, `HostInstall_proofs`, `KernelSession_proofs`, `ProjectSave_proofs`, `ShellSessions_proofs`, `RemoteTypes_proofs`, `RemoteSession_proofs` | the theorems of a module (section 6); those of `PushJournal` are in `RemoteTypes_proofs` | |

`PROJECT.json`'s "map" gives the source lines of every definition.

### Conventions

*Steps.* In the daemon and in the shell an action is one turn of a
single-threaded event loop with its microtasks: code between two `await`s
whose promises settle in different turns. Everything a turn does to the state
is in its action; a method that the code calls from several places is a
function from record to record (`TeardownChannel`, `OnConnectionLost`,
`ExpireOwned` and so on take the handle's fields and return them). In
`SessionSpawn`, where processes share only files, an action is one file
operation.

*One place where a turn had to be cut.* The code decodes all the messages of a
chunk in one go, and the continuation of `await client.attach()` runs only
afterwards. So receiving the attach result (`ReceiveAttached`) and going on from
it (`Continue`) are two actions, and between them only messages of the same
channel may be received (`ChunkOf`), and nothing else happens in the shell
(`ShellIdle`). `OwedIsKept` of section 7 fails in that gap.

*Later turns.* What an attach puts off with `setImmediate` is kept in `due` and
written by `RunImmediates`; in between the connection is `"attached"`, not
`"open"`, its gate still down.

*Data.* A push is its number, its kind (`"reserved"` for those the handle
consumes itself) and its size. An invoke's result is the invoke. A wire id is
the connection it was made on and a number that starts again on each. A
daemon's incarnation, its epoch, is a number.

*History variables* are written and read by no guard. `accounted` is what a
client received or was told to resync for; `promised` what a replay announced;
`blind` what a client without a cursor stepped over; `dropped` the
responses nobody waited for; `raced` that two processes were about to clear one
lock at the same time; `displaced` that the retry of a failed autosave replaced
a grace countdown; `muted` that a stop took away, without an event, the kernel the
policy waited for; `excuse` why an autosave that succeeded saved less than the
work there was; `excused` that the session was left out of step by a failed
restart, a window reset, a stop of another kernel or a kernel that died before
its promotion; `unsettled`, `stranded` and `swept` why a snapshot may not be
restorable; `past` names the mishaps of the window's calls, and in
`HostInstall` that rivals shipped different bundles (`rivals`), that a command
`outlived` its call, or was `cut` between its renames. From `raced` on, they
mark the events after which a property is known to fail (section 7): the
property is stated for every behaviour in which they have not happened.

### How state and actions correspond to the code

`RemoteHandle`. `h.attempt[a].pc` is where an execution of `connect` is:
`"opening"` (awaiting `openChannel`), `"hello"`, `"attaching"`, `"reconciling"`,
and for the loop `"waiting"` (its backoff). `h.client` is `this.client`,
`h.rpc[c]` one `RpcClient` with its `pending` map, cursor and ping timer,
`h.owned` and `h.wire` the `owned` map, `h.sweep` the expiry timer. The owners
of an attempt differ in what they do with its failure (`CallerFails`): `start`
throws, `retryNow` sets `auth-required`, the loop goes on or ends.

`SessionHost`. `conn[c]` is the life of a connection, `active` is
`this.active`, `doomed` the superseded connections whose 250 ms timer runs.
`ServerReceive` is `dispatchChannel`; `Finish` is the settlement of a handler
with `deliverSettlement`; `SessionPush` and `HandlerPush` differ in whose push
method is called, as in the code. `Foreign` is the connection of another
client, whose own traffic is not modelled. `DaemonCrash` loses all memory and
starts the next incarnation.

`SessionSpawn`. `pc` names the file operation a process is about to do; `"write"`
to `"release"` is the critical section. A process stands for its pid, so a pid
handed to a stranger is the process name in `recycled`.

`SessionIdle`. The record `p` has the policy's fields; `save` is the autosave
`finish` awaits; `kernel = "saving"` is the kernel busy with the snapshot,
which it reports with a busy and an idle status like any other request. `queued`
counts the lifecycle requests behind the start lock and `handler` is what the one
that has it does: neither needs a client once asked. `"booting"` is the kernel from
its listing to its first status, which counts as busy although no event said so.

`KernelManager`, `CommRouter`, `KernelSession`. Kernels are numbered in the
order of their spawning. A process is `"fresh"` until its sockets are connected
and it is put into `hosted`, the manager's map; one that exits before is `"lost"`:
listed, and never heard of. `stopping` are the kernels
whose `shuttingDown` is set: their iopub loop has ended (`Heard`). `signalled` are
those whose `process.killed` an interrupt has set. A call of a
handler is a record whose `at` names the await it stands still at; `"waiting"`
is `withStartLock`. `HasLock` is the chain of promises: calls go on in the order
they came. `excused` is set where the handlers leave the session as section 7
says, and cleared by the next activation of a living kernel. A message of the
comm router is `"queue"` (the kernel's shell queue), `"kernel"`, `"iopub"`,
`"over"`.

`ProjectSave`. `canon` is the project directory, `auto` its `.autosave`, `work`
the kernel's working directory after a load. A data file is the node, the
version of its value and the serialization that minted its UUID. `calls` is the
queue of `runWithSaveLock`, its head holding the lock; `jobs` the kernel's shell
queue. The kernel serializes in two steps (data files, then index), the server
writes in four (cells, modules, `project.json`, environment); `removing` is a
running `fs.rm`. `BackingFileChanges` makes a file-backed node lose its file,
which is what `missing_files` reports. A serialization chooses which of the values
it would have to write it cannot (`failed`, among `Refusable`): those keep the
descriptor that `Prior`, the directory's own index, has for them.

`RemoteConnection`, `LocalSupervisor`, `ShellSessions`. `status` is what the
renderer was last told; a connect call is a record with its step and the pty it
waits for. `LocalSupervisor` has no actions: `start()` and `shutdown()` overlap
and one event runs several pieces of them in a row, so each piece is a function
from the state of all supervisors and processes to the next, and the actions of
`ShellSessions` apply them. The supervisor a call makes goes by the call's
number. `daemon` is a process without a supervisor.

`HostInstall`. A directory goes by the call that unpacked it, wherever it is
moved: `"staging"`, `"target"` (the path of the version), `"parked"` (moved aside,
to be deleted) or `"inside"` (moved into a target that was there again).
`command` is the shell command on the host, which goes on from `"unpack"` when its
call is given up (`GiveUp`), while `Remove` deletes what is under it. `Passes` is
the self-check: it loads zeromq and writes a scratch file, which a damaged
directory may pass. `RemoteConnection` has all of this as one step that may
fail.

## 3. What the runs check

| run | module | checks | states |
|---|---|---|---|
| `MCPushJournal` | `MCPushJournal` | types; replay is exact; the newest frame is kept; a gap is final | 1 thousand |
| `MCPushes` | `MCRemoteSession` | types; `LossIsLoud` | 0.9 million |
| `MCInvokes` | `MCRemoteSession` | `MutationAtMostOnce`, `WaitIsAnswerable`, the refinement `KeepsContract` | 0.7 million |
| `MCTakeover` | `MCRemoteSession` | `OneHolder`, `ConnectedIsAlive` | 1.3 million |
| `MCReconnect` | `MCRemoteSession` | liveness: `ChaseEnds`, `OwedExpires` | 27 thousand |
| `MCSpawnLock` | `MCSessionSpawn` | `LockIsExclusive`, liveness: `StaleLockYields` | 0.14 million |
| `MCIdle` | `SessionIdle` | `CountdownIsDeserted`, `NeverForgotten`, `StopsNobody`, `StopsWithSnapshot`, liveness: `DesertedEnds` | 0.55 million |
| `MCKernel` | `MCKernelSession` | types; `SessionIsServed`, `OneKernelLives`, `CrashIsHeard`, `AgentStaysPut`, `ChannelIsFree`, the refinement `KeepsContract`, liveness: `RequestsSettle`, `CallsReturn` | 0.35 million |
| `MCSave` | `MCProjectSave` | `CommitIsLast`, `SnapshotRestores`, `RestoreIsFaithful`, action properties: `SavedIsPersisted`, `LastCopyIsKept` | 7.9 million |
| `MCShell` | `MCShellSessions` | `NoServerIsAbandoned`, `WindowIsServed`, `AnswerIsOwn`, `MastersAreHeld` | 1.6 million |
| `MCInstall` | `MCHostInstall` | `IdIsProof`, `InstallIsKept` | 0.12 million |
| `VAutosavedIsPersisted` | `MCProjectSave` | a disagreement (section 7): `AutosavedIsPersisted` fails | |

The types of `SessionIdle` and `ProjectSave` are proved (section 6), and not checked
by a run as well. What the less obvious ones say:

* `LossIsLoud`: through cuts, reattaches, evictions, failed encodings and a
  daemon that restarts, a push the client counts as past was received, or made
  up for by a resync, or belongs to one of exactly two classes of silent loss:
  a replay that was announced and then cut short, and what a client that had no
  cursor stepped over. There is no third.
* `KeepsContract`: the refinement of `CallContract`. The promise of an invoke
  goes from owned to one settlement, `ok` only if that invoke's own handler
  finished, `lost` only if it is a mutation; a mutation's handler starts once.
  Ids that start again on every connection, verdicts, adoption and redelivery
  are all implementation.
* `WaitIsAnswerable`: whoever waits on a connected handle waits for something
  that can still come, except where the response was discarded (section 7).
* `ConnectedIsAlive`, `ChaseEnds`: the reported states are true: "connected"
  has a live client, "reconnecting" a loop that will end one way or the other, so
  that nobody waits behind a state that nothing will change. The first holds with
  one foreground caller at a time and fails with two (section 7).
* `LockIsExclusive`: two processes are in the critical section together only if
  two of them were once about to clear one stale lock at the same time: kills,
  reboots, expired waits and dying daemons alone do not break it.
* `StaleLockYields`: a process alone with a stale lock, also one from before a
  reboot that gave the recorded pid to a stranger, gets into the section.
* `NeverForgotten`, `DesertedEnds`: a session its last client left has
  something under way that will end it, and ends, is joined again, or works. There
  are exactly two ways to be forgotten: a retry displaced the grace countdown, or a
  request that its client left behind stopped the kernel that was waited for
  (section 7).
* `StopsNobody`, `StopsWithSnapshot`: whatever clients, work and kernels come and go
  during the autosave, the session is not stopped under them, nor without a
  snapshot; excepted from the second are exactly the kernels no snapshot is asked
  of (not active, or once interrupted) and the answers that pass for one (section 7).
* `OneKernelLives`: a sweep, a stop and a restart leave no kernel process beside the
  one that is started, but for two kinds of strays (section 7): one whose stop was
  preceded by an interrupt, and one whose sockets failed before it was listed.
* `SessionIsServed`: whenever no lifecycle handler is at work, both routers lead
  to the active kernel, which lives and whose crash will be heard of, or there is
  none and they lead nowhere; through any sequence of overlapping calls, failures
  at any await and deaths at any time, but where a known gap left it otherwise.
* `KeepsContract` of `KernelSession`: the comm router's requests keep the same
  contract as invokes: one settlement, `ok` only after the kernel handled the
  request, and it is handled once at most, whatever keep-alives, timeouts and
  detachments race. (Their outcome may be `failed` although the kernel did the
  work: the contract allows it, as the code does.)
* `AgentStaysPut`: an MCP agent whose generation is still the current one works
  on the kernel it connected under, or on none.
* `CallsReturn`: a lifecycle call gets the lock and returns, even when a kernel
  is alive and silent for ever.
* `CommitIsLast`: wherever a save is cut off, the index and the code cells beside
  `project.json` are of the save it stands for or of a later one. Modules and
  environment are not (section 7).
* `SnapshotRestores`: each file the snapshot's index names is where a restore
  looks for it, although unchanged nodes point into the project, whose files are
  moved and purged by explicit saves; excepted are snapshots an explicit save or
  a removal has touched since (the code deletes those right after), those written
  while an explicit save that ended without its index has left files behind, and
  those that re-use, for a node they skip, what an excepted snapshot said.
* `RestoreIsFaithful`: what is loaded is what was chosen, node by node.
* `SavedIsPersisted`: success of project:save means the tree of the moment the
  user asked, or a newer one, is on disk, but for the nodes its answer lists as
  failed; excepted are results a cell left before, which the code takes on purpose.
* `LastCopyIsKept`: whichever saves skip a node, and wherever they end, the project's
  index goes on naming a copy of it that is there, as long as the node is in the tree.
* `NoServerIsAbandoned`: however starts, disconnects, shutdowns, crashes and
  restarts overlap, a local server that runs is one the window is on, one that is
  being started or stopped, or belongs to one of exactly two known ways to forget
  one (section 7).
* `AnswerIsOwn`: no confirm question is settled by the answer to another one,
  although their ids start again with every server, unless the server that asked
  died under its dialog (section 7).
* `MastersAreHeld`: an ssh process that is up is one somebody will stop, unless
  one connect call displaced the process of another.
* `IdIsProof`: what the next connect takes on trust is true: a recorded bundle id
  stands on a directory that is whole, is of that bundle, and runs, however
  installs of several shells interleave; excepted are rivals that ship different
  bundles of one version, and commands that outlived their call (section 7).
* `InstallIsKept`: between the test, the two renames and the removals of several
  commands the version is never left without an install, but for the moment
  between the renames of one.

Every property is broken by a mutant of the code, listed in `PROJECT.json`: the
definitions marked *Mutant* in the modules, each the change a plausible mistake
would make (a dropped gate, ids without prefix, a cursor compared with another
epoch's ring, `O_EXCL` forgotten).

The runs say `CHECK_DEADLOCK FALSE`, because all of these systems stop when
their bounds are used up, and some for good: a handle after `disconnect`, a
session after its shutdown, a set of processes that have all exited.

## 4. Bounds, and why they are enough

| bound | runs | why |
|---|---|---|
| `MaxSeq` 6, `MaxMessages` 3, `MaxBytes` 5, sizes 1, 2, 7 | journal | either bound may bite first, and a frame may exceed the ring |
| `MaxChannels` 3 | `MCPushes`, `MCTakeover` | a connection, the one that replaces it, and one after it: what one reattach leaves wrong the next one meets |
| `MaxChannels` 2 | `MCInvokes`, `MCReconnect` | one reattach per incarnation or attempt; two invokes take the states |
| `MaxSeq` 2, `MaxMessages` 1 | `MCPushes` | a push retained and one evicted, so a replay and a gap both occur, in each incarnation |
| `NInvokes` 2, one a mutation | `MCInvokes` | two ids collide as soon as two invokes exist; both reconcile rules apply |
| `MaxResponses` 2 | all | both settlements of an attach and an invoke fit, a third evicts; ageing out removes any |
| `MaxEpoch` 2 | `MCPushes`, `MCInvokes`, `MCReconnect` | a daemon and its successor |
| `MaxTries` 1 or 2 (the code: 5) | all; 2 in `MCReconnect` | with 2 an attempt fails and another follows, and the loop runs out |
| two attachers, 2 boots | `MCSpawnLock` | a holder and a process of the same or the next boot; that the lock excludes any number of them is proved |
| 3 visits, 2 lifecycle requests, 3 pieces of work, 2 failures | `MCIdle` | a visit and work before, during and after a failing autosave; a request for a kernel and one that stops or replaces it, each of which may outlive its client |
| 3 calls, 3 kernels | `MCKernel` | a call that holds the lock, one that waits for it and one that comes after; each may spawn a kernel. Each kernel may be interrupted, may exit before it is listed, and may fail to connect |
| 1 execution, 2 requests (one kept alive), 2 queries, with at most 2 calls (`CallsBesideWork`) | `MCKernel` | a request that is answered while another times out, a query behind one that failed; the kinds of work do not touch each other's state, so that a behaviour has one of them |
| 2 nodes, 1 edit or change of a backing file, 2 save calls, 1 script or clear, 1 restart or crash | `MCSave` | a node that changed beside one that did not; a save and an autosave in either order, each of which meets what a script, a removal and a crash left. Any set of the nodes it would have to write may be refused by each serialization: two saves suffice for a preserved descriptor of an outdated index |
| `MCBudgets`: calls, deaths, drops, confirms and connects of a behaviour | `MCShell` | three overlapping calls with a death and a drop; two with two deaths; two with two dialogs; one beside two connects to two hosts. One budget for all of it would multiply the states tenfold |
| three installs of two bundles, one of which does not run | `MCInstall` | two of one bundle beside a rival: one that finds an install moves it aside while another does, and a third finds what the two left |

`Faults` and `Traffic` in `MCRemoteSession` name which faults and pushes a run
has, so that each run spends its states on one question; between them the runs
have all: cuts, daemon crashes, failed encodings, settlements that age out,
channels that fail to open, expiry of attach deadlines and pings, user retries
and disconnects, another client. `SYMMETRY` is used in `MCSave`, where nodes
are interchangeable and no liveness is checked.

## 5. Fairness

*Remote session* (`TurnsAreTaken`, `BreaksAreNoticed`). An event loop takes its
turn: a message that arrived is read, a continuation that is ready runs, armed
timers (backoff, expiry sweep, the age of an invoke) fire, and `openChannel`
ends one way or the other (ssh has its own timeouts). A broken channel is
reported by its stream. None is assumed for handlers, users, cuts, crashes, or
pings. `MCSilentSpec` replaces `BreaksAreNoticed` by `PingsAreCounted`: a
channel that breaks without a word is then noticed only while pings are sent.

*Spawning* (`AttachersRun`). A process that can take its next step does; no wait
has to expire and no daemon has to start.

*Idle policy* (`Fairness`). Armed timers fire, the autosave's promise settles, a
kernel that was asked for a snapshot takes it up and answers it (work it does
before may last for ever), and connections that do not attach are dropped at
their deadline. `stop()` ends (`StopEnds`): each of its waits has a deadline. No
boot and no handshake has to end. One strong fairness: the kernel's idle status is not later than
the last file of its snapshot *every* time. It travels by another socket than
the reply, but it is sent right after it, and the files are written in between.
Without it the policy would find the kernel still busy after every autosave and
start its twelve-hour cap again each time.

*Kernel session* (`HandlersGoOn`, `TimersFire`). The awaits of a handler end:
processes can be killed, environments are built or fail, sockets connect or fail
to, and the wait for a
kernel has a deadline (`waitForKernelReady`, the race in
`initializeKernelSession`). That a kernel becomes ready or answers is not
assumed, nor that anybody calls. The timers of requests fire.

The runs of `ProjectSave`, `ShellSessions` and `HostInstall` check safety only:
their waits are for users, the kernel's work or ssh, none of which has to end.

## 6. What is proved

With TLAPS, for every value of the constants:

* `RemoteTypes_proofs`, of `PushJournal`: `JournalTypeCorrect`, `ReplayExact`,
  `NewestIsRetained`, `GapsAreFinal`, from `JournalAssumption` (the bounds are
  naturals, sizes positive). The inductive invariant `RingInv` says that the
  ring is the end of what was journalled: in increasing order, all below
  `nextSeq`, and with every number journalled above the first one it retains.
  Exactness of a replay alone is not inductive: it says nothing of *which*
  frames an eviction leaves. The lemmas on `EvictCount` (it exists, it keeps
  the newest, what is left is a suffix) carry the step.
* `SessionSpawn_proofs`: `SpawnLockExcludes`, for any number of processes, from
  `SpawnAssumption` and `OneNodeOnly` (all on one node; section 7 shows
  why). `LockInv` says whose the lock is: who is in the section owns it; who is
  about to clear it is the only one, and its holder is dead. The key lemma,
  `DeadIsDead`, is that `isHolderDead` is sound on one node: a boot id that
  differs, or a pid that is not there, means a process that ended, and a
  process never runs again.
  `SpawnTypeCorrect` proves `TypeOK`, on any nodes, from `SpawnAssumption`.
* `SessionIdle_proofs`: `CountdownsAreDeserted`, `NobodyIsStopped`,
  `NobodyIsForgotten` and `SnapshotsBeforeStops`, with no assumption on the
  bounds. `PolicyInv` adds to the first that a client that holds the session has
  cleared `clientsGone` and that a stopped policy has no timer; `MemoryInv` adds
  to the third that until a grace countdown is over it is the timer, unless
  displaced. Neither needs to know who asked for what a kernel does: a boot, a first
  status or a stop is no step of a client. The last rests on `SavedInv`: an autosave
  that succeeded has saved all the work, but for what came after it was asked for
  or what `excuse` names, and a kernel that is gone holds nothing to save.
  `TypeCorrectness` proves `TypeOK`.
* `HostInstall_proofs`: `IdProves`, `InstallKept`, `HostTypeCorrect`, for any
  number of shells and any bundles, from `InstallAssumption` (each call ships one
  bundle). `TrackedInv` says where a call's directory is while no command outlived
  its call: whole in staging while its command runs, and at the version only once
  its command succeeded. `IdInv` says that, while no rivals install, all calls
  under way ship one bundle, and that from the rename on what such a call finds
  installed is of that bundle, although the self-check and the record go by path
  and may be about a directory another call put there. Neither property is
  inductive without them: the id is written by a call that did not check whose
  directory it writes to.

* `KernelSession_proofs`: `TypeCorrectness`, `OneKernel`, `Service`, `Crash`,
  `Channel`, `Agent` and `Refinement`, for any number of kernels, calls,
  executions, queries and requests, from `SessionAssumption`. The invariant `Inv`
  has nine parts. `LockInv` says that of the calls of the lifecycle handlers only
  the first unfinished one is past the lock; `KernelsInv` that what lives is in
  the manager's map, of which it is the only entry, or is not listed yet or never
  will be, or was interrupted before its stop, so that at `"spawn"` nothing but
  strays lives: `OneKernelLives` alone does not say that a sweep found what it had
  to kill. `StageInv` says what each await of a handler leaves
  true for the next (which kernel it holds, where the routers lead, whether that
  kernel was promoted), and `ServeInv` concludes from it what holds when no
  handler is at work. `ExecInv` and `QueueInv` say that an execution that waits
  has its crash listener or a kernel that was stopped, and that only the head of
  a queue has the socket; `AgentInv` bounds the generation; `MessageInv` says that
  a message on its way belongs to a request that was made once, which is what the
  refinement of `CallContract` needs step by step.
* `ShellSessions_proofs`: `Masters`, `Window`, `Used` and `OwnAnswers`, for any
  number of calls, children, servers and dialogs, from `SupervisorAssumption` and
  `ShellAssumption`. `MastersInv` is about the connect calls alone: an ssh process
  that is up is held, or in the hands of one call. `ShellInv` says, of every
  supervisor, what its phase implies about its child (`Sound`), of every call
  which server it made or swapped away and still has to close, and of the window
  that its server is none of those. `AsksInv` is about confirm dialogs: ids start
  again with each server, so that a dialog's id says nothing alone; what makes an
  answer its own is that the server that asked still runs and counts up. Proving
  this showed that `AnswerIsOwn` was false beyond the bounds of its run: a dialog
  may outlive a remote server and not only a local one. `past` now records that
  (`Outlived`), as it did for local servers.
* `ProjectSave_proofs`: `Commit`, `Snapshot`, `Restore`, `Saved` and
  `LastCopy` (action properties) and `TypeCorrectness`, for any nodes and any number of saves, edits,
  restarts and crashes, from `SaveBounds` and `NoneAssumption` (that the value
  for an absent file is none). `SaveInv` says which jobs the kernel's queue may
  hold and for which calls (`JobsInv`, `CallsInv`), that a file is never newer
  than the tree nor written by a serialization that has not begun
  (`VersionsInv`), where the file of a cache entry is (`CacheInv`, which is what
  a snapshot that refers to files of the project rests on, `SnapshotInv`), what
  an opening has read (`OpeningInv`), and that what a node the user saw before
  asking for a save has become is in the tree and in what a serialization that came
  after has collected, unless it was skipped (`SeenInv`). `StoredInv` takes this to
  the disk: from the index on, the project's index holds those nodes in that version
  or a newer one, but for the nodes that very serialization skipped. It has to
  speak of every call and of every result left behind, since another call's save may
  write the index in between: what that one skips keeps the descriptor that is there,
  which is why skipping never takes a version back. `CopiesInv` says the same of
  files: an index names none the project lacks, and what an explicit save under way
  has collected is there or is still named by the index it will replace, so that its
  purge (`LastCopy`) spares it.

* `RemoteTypes_proofs` (`TypeCorrectness`, `OneHolderServed`) and, over it,
  `RemoteSession_proofs`: `CallsInvariant`, `MutationOnce`, `ContractKept` (the refinement of `CallContract`),
  `ConnectedStaysAlive`, `GateInvariant`, `NobodyWaitsForNothing`,
  `CursorInvariant` and `NoSilentLoss`, for any number of invokes, callers,
  channels, retries and incarnations of the daemon, from `SessionAssumption` and
  `JournalAssumption`.
  The handle's synchronous methods are proved quiet one by one (`Quiet`: they
  settle promises that are owed, close clients, give up attempts, and no more), so
  that a step of the shell is a quiet one, a message read, or a dispatch
  (`Calls`). `Types` is the inductive type invariant: `TypeOK` says too little of
  what is in the channels, in the retained settlements and in an attach result.
  `CallsInv` is what `MutationAtMostOnce` needs: an id is of one invoke
  (`TagInv`), a response is of a handler that finished (`CallInv`), and a mutation
  whose request is in a channel was never dispatched, is in no other, and is
  remembered by its wire id (`MutationInv`), so that no reattach sends it again.
  A step of the daemon keeps these because it makes no response up (`Flows`) and
  only takes requests out of queues (`Drains`). `AttemptInv` is what
  `ConnectedIsAlive` needs: one attempt at a time, over the handle's only open
  client. `WaitIsAnswerable` rests on two more. `GateInv`: an attach request
  waits only for a gated connection, there is one per connection, and a client
  that attached is served for as long as its channel is up, so that a settlement
  which passes a client by finds it before its attach. `WaitInv`: an invoke owed
  through the open client can be answered there (`Good`), or its id is of an
  earlier connection and no attach result that is in the channel or in the
  handle's hands accounts for it (`Stale`), so that the reattach will not adopt it.
  `LossIsLoud` rests on `CursorsInv`, in three parts. `EpochInv`: the pushes and
  the attach result on one channel are stamped by one incarnation of the daemon,
  which is the running one while the channel is up, and the one the cursor counts
  from once the handle has adopted it; nothing is counted that is not journalled
  yet. `CursorInv`: a replay is only granted to a cursor of the incarnation that
  grants it. `LossInv`: what a client's cursor is past is accounted for, was in a
  replay that was cut short, or was stepped over by a client with no cursor; the
  handle's cursor, which jumps ahead of a replay when the attach result is read,
  may also be past what its open client was promised. When that client closes the
  promise turns into a replay cut short, and the next client, which starts from
  the handle's cursor, inherits that loss and no other.
  `ConnectedStaysAlive`, `GateInvariant`, `NobodyWaitsForNothing`,
  `CursorInvariant` and `NoSilentLoss` assume `OneCaller`, that one caller uses `start()` and `retryNow()`: with two,
  `ConnectedIsAlive` is false (section 7, `VConnectedIsAlive`), and the runs
  have one as well.

Only model-checked: all liveness (`ChaseEnds`, `OwedExpires`, `StaleLockYields`,
`DesertedEnds`, `RequestsSettle`, `CallsReturn`), which is out of this prover's
reach. A theorem of this section says nothing of behaviours after
the events that a history variable excepts; section 7 says what goes wrong there.

## 7. Where code and comments disagree

Formulas that state what a comment says, which the code does not keep. The
first one is listed as a run and a finding in `PROJECT.json`. Each is stated, with
the comment it comes from, at the end of its module; the third column names the
configuration that refutes it. `V*.cfg` check the property themselves, and
`VOwedIsKept.cfg` also `LostIsUnaccounted` when it takes the property's place; in
the `MC*.cfg` named, INVARIANTS and PROPERTIES have to be replaced by the
property.

| property | what the code does | configuration |
|---|---|---|
| `AutosavedIsPersisted` | `ProjectManager.autosave` looks at neither `missing_files` nor `aborted` (`project-manager.ts:901`): an autosave the kernel broke off before its index is reported as saved, and the idle policy may stop the session over it | `VAutosavedIsPersisted` |
| `CommitHasModules` | "every other persistent artifact of the save is already on disk" (`ipc-register-project.ts:506-508`): module files and manifests that cannot be written are only warned about (`:174`, `:289`), and `project.json` is committed over those of an older save | `VCommitHasModules` |
| `SnapshotPreserves` | a skipped node keeps "the last good copy of the data" (`pdv-python/pdv/handlers/project.py:260-264`): an autosave looks for it in the index of `.autosave` only (`:942-950`); a node that only the project holds is in no snapshot, and a restore, which reads one index, comes back without it | `MCSave` |
| `IdIsAlwaysProof` | "proof that this exact bundle ... works on this host" (`remote/bootstrap.ts:456-458`): two shells whose builds of one version differ both find nothing installed; the second `mv` then moves its staging *into* the directory the first one made, its self-check passes on the first one's bundle, and its id is recorded there | `MCInstall` |
| `NoneIsPartial` | "a concurrent probe can never observe a partial install" (`remote/bootstrap.ts:402-404`): when the ssh of the command is given up after three minutes, staging is removed while the command, still running on the host, may rename it into place | `MCInstall` |
| `ReadyIsOwn` | "PDV's remote components are ready" (`remote/bootstrap.ts:468`): by then the version may be another shell's bundle | `MCInstall` |
| `IndexNeverDangles` | "`tree-index.json` never references a missing file" (`docs/developer/save-pipeline.md` §5): after an explicit save that ended without its index, an autosave that hits its cache names files a restore does not look for | `MCSave` |
| `CommitIsComplete` | the environment's files are copied after `project.json` (`ipc-register-project.ts:504-518`), which is called the last file of a save | `MCSave` |
| `ResultsDieWithTheirKernel` | what `pdv.save_project()` left is dropped on some paths but not by kernels.restart (`project-manager.ts:375`) | `MCSave` |
| `RestoreIsUndisturbed` | between `setActiveProjectDir` and the request to load (`ipc-register-project.ts:657`, `:679`) an autosave or a clear works on the snapshot that is being restored; removals of it are not awaited (`server/wire.ts:820`) | `MCSave` |
| `NoneIsStacked` | "without this sweep every reconnect that starts fresh stacks another ipykernel on the host" (`ipc-register-kernels.ts:638-644`), and with it some do: `stop()` neither waits for nor kills a process whose `killed` an earlier interrupt's SIGINT has set (`kernel-manager.ts:710`, `:721`, `:1035`), and a `start()` that rejects between the spawn and the map (`:531-551`) leaves a process no list shows | `MCKernel` |
| `EveryExitIsHeard` | "resolve with an error instead of hanging forever" (`kernel-manager.ts:797-798`): a process that exits before its exit is listened to (`:607`) stays listed as alive, and executions on it hang | `MCKernel` |
| `DeadIsNotPromoted` | after the wait for packages, and between the handshake and `setActiveKernelId` of a restart, nobody looks whether the kernel still lives (`ipc-register-kernels.ts:872`, `:905`) | `MCKernel` |
| `FailedStartIsUndone` | a kernel whose `kernelManager.start` rejects has an id the handler never learns (`ipc-register-kernels.ts:851`), and restart undoes nothing | `MCKernel` |
| `AgentIsNeverMisled` | the session reset sets the active kernel without a bump (`server/wire.ts:859`) | `MCKernel` |
| `StoppedIsClosed` | the recovery of a query socket that ends after `stop()` closed it opens it again (`kernel-manager.ts:1264`) | `MCKernel` |
| `NoneIsForgotten` | disconnects coalesce with each other but not with endSession (`ipc-register-remote.ts:214-220`): the second swap forgets the first local server | `MCShell` |
| `NoneIsRestartedUnused` | Restart in the crash dialog starts the old supervisor again after the window moved to a remote session (`shell/server-supervisor.ts:514`) | `MCShell` |
| `EndIsDelivered` | the channel is looked at before the wait for a local server (`ipc-register-remote.ts:634`), and the daemon is told after it, silently not if the channel is gone | `MCShell` |
| `IntendedExitIsQuiet` | a hello that arrives during `shutdown()` sets the phase to running (`shell/server-supervisor.ts:324`), and the exit that was asked for is a crash | `MCShell` |
| `RestartFailsOnlyHere` | a shutdown during the restart of a crashed server rejects its `start()`, whose dialog quits the application (`shell/server-supervisor.ts:516-525`) | `MCShell` |
| `LateAnswerIsIgnored` | ids of confirm requests start at 1 in every server (`server/shell-confirm.ts:70`): the answer to a dead server's dialog settles a question of its successor | `MCShell` |
| `AnswerReaches` | a disconnect while a dialog is open drops its answer (`shell/remote-server.ts:517`) | `MCShell` |
| `NothingIsLeft` | two connect calls pass the busy guard (`remote/remote-connection.ts:365`), the second overwrites the first one's master (`:476`) | `MCShell` |
| `ConnectedHasControl` | a disconnect during `prepareHost` is followed by the status connected (`remote/remote-connection.ts:192`) | `MCShell` |
| `CursorWasReceived` | `connectInner` adopts the attach result's `lastSeq` before the replay it announces has come (`shell/remote-server.ts:444`); a cut in between loses the replay silently | `VCursorWasReceived` |
| `PushReachesHolder` | a handler pushes through the connection it was dispatched on (`transport/rpc-server.ts:396`); after a reattach its output reaches nobody until the next one | `VPushReachesHolder` |
| `OneDaemon` | the socket is probed before the lock is taken and not after (`server/attach-cli.ts:137`, `:175`); a slow process starts a second daemon | `VOneDaemon` |
| `AllReArm` | `retryAutosave` replaces whatever timer there is (`server/session-idle.ts:222`), also the grace countdown of a visitor who came and left during the autosave; then nothing stops the session | `MCIdle` |
| `NoneIsMissed` | "a missed one would let the cap fire mid-run or never re-arm" (`server/server-main.ts:319-321`): `stop()` emits no event, so a handler that outlived its client (`ipc-register-kernels.ts:855-868`) takes away the busy kernel whose going idle the policy waited for | `MCIdle` |
| `NoCapOverBoot` | "The cap starts when execution ends" (`armCap`): a kernel that a request left behind is listed as busy without an event (`kernel-manager.ts:581-584`), under a countdown that is running | `MCIdle` |
| `InterruptedIsSaved` | "True when everything preservable has been preserved" (`ipc-register-autosave.ts:127-128`): a kernel that was ever interrupted has `process.killed` and is taken for dead (`:240-249`); no snapshot is asked for | `MCIdle` |
| `InactiveIsSaved` | the same: a kernel that is not the active one, after a window reset or a start that failed, is not saved (`ipc-register-autosave.ts:290-293`) | `MCIdle` |
| `IncompleteIsNone` | the same: the kernel's answer is not looked at (`project-manager.ts:901`), be it aborted or without the nodes it could not serialize | `MCIdle` |
| `NextPushIsContiguous` | the replay is computed when the attach is handled and the gate opens in a later turn (`transport/rpc-server.ts:371-391`); a push in between is in neither | `VNextPushIsContiguous` |
| `DeliveredOnce` | reserved pushes do not move the handle's cursor (`shell/remote-server.ts:372`) and are replayed: a confirm dialog opens twice | `VDeliveredOnce` |
| `OwedIsKept` | a retained settlement decoded in one chunk with the attach result is dropped before its id is adopted (`transport/rpc-client.ts:484`); its caller waits for ever | `VOwedIsKept` |
| `LostIsUnaccounted` | an invoke made while an attach is in flight is in no verdict (`shell/remote-server.ts:486`); a mutation is reported lost while it runs | `VOwedIsKept` |
| `StoppedIsNotConnected` | `stopped` is not looked at after `openChannel` (`shell/remote-server.ts:355`); `disconnect()` is undone | `VStoppedIsNotConnected` |
| `ResponsesFollowReplay` | the retained responses are scheduled before the replay (`server/session-host.ts:310`), not after it | `VResponsesFollowReplay` |
| `ConnectedIsAlive` with two callers | `retryNow` is not guarded against another attempt (`shell/remote-server.ts:559`) | `VConnectedIsAlive` |
| `AttachEnds` | a channel that breaks silently during the attach is not noticed: pings start after it (`shell/remote-server.ts:428`, `:449`) | `VAttachEnds` |
| `OwedSettles` | the expiry sweep disarms itself when nothing is owed (`shell/remote-server.ts:618`); an invoke made later in `auth-required` never settles | `VOwedSettles` |
| `OnlyStaleIsCleared` | a stale lock is removed by path after it was judged (`server/session-lock.ts:193`); the slower of two processes removes the faster one's lock | `VStaleLockRace` |
| `OnlyStaleIsCleared` | a boot id of another node differs (`server/session-lock.ts:123`), which passes for a dead holder | `VLockAcrossNodes` |
| `UnwatchedEnds` | a daemon nobody ever connects to arms no countdown (`server/server-main.ts:456`) | `MCIdle` |
| `RetryIsKept` | the idle status of the failed snapshot itself replaces the five-minute retry by the twelve-hour cap (`server/session-idle.ts:148`) | `MCIdle` |

Met while modelling, without a comment that says otherwise: an execution whose
kernel is stopped or restarted never settles (`CrashIsHeard` excepts stopped
kernels); kernels.stop of a kernel that is not the active one detaches the
routers from the active one; a restart that fails leaves the dead kernel active; a
client that finds a session whose policy is stopping it, while a start it asked for
spawns, may leave a process behind that `shutdownAll` did not list.

## 8. What is not modelled

Of the components modelled: bridge handlers and progress messages of the
handle; ping and `listen`/`close` of the host (the latter in `SessionSpawn`);
framing, chunking and backpressure of the line codec, but for the effect of a
chunk described in section 2; formats of `session.json` and of lock records; the
resolution of paths; idle settings other than the daemon's defaults. Of kernels:
whether an interrupt ends what runs, stdin, completion and inspection, the decoding of outputs, what
`shutdownAll` does beyond stopping each. Of saving: Save As and new projects,
sessions that were never saved and their recovery, manifests of older versions,
the content of the environment; a file is replaced atomically (`atomic-write.ts`),
and disks do not reorder writes across a crash of the machine. Of the install: a
record written by a command that outlived its ssh, and disks that fail under it.
Of the window: more than one session daemon at a time, and closing the window or
the application. A channel carries messages unharmed and in order or
not at all: it is a TCP stream below ssh. Clocks are abstract: a timer that is
armed may fire at any later point, so that no property depends on durations.

Whole components: section 1, the table. Most of the repository is of that kind:
the renderer, the parsing of configurations and of what subprocesses print,
forms and file formats. The modules map the code that keeps state across events;
the share of the whole repository's lines they cover is small for that reason,
and covering the rest would need models of data transformations whose every line
is tested as well as modelled. Liveness of a session whose daemon is never
restarted is not claimed.

## 9. The plan

Done: journal, store, wires, host, handle, their composition and contract; spawn
lock; idle policy; kernels, routers and lifecycle handlers, with the contract of
their requests; the save pipeline; the window's sessions with supervisors, ssh
connection and confirm dialogs; the install on a host; the theorems of section 6.

Next, in this order:

1. `SessionIdle` over `KernelManager` instead of its abstract kernel; sessions
   that were never saved, in `ProjectSave`.

Runs are few on purpose: as components are added, runs that share a module are
merged, and disagreements move from runs to section 7.

## 10. How to run it

    tlc -workers 2 -config MCIdle.cfg SessionIdle
    tlc -workers 2 -config MCTakeover.cfg MCRemoteSession
    tlc -workers 2 -config MCKernel.cfg MCKernelSession
    tlc -workers 2 -config MCSave.cfg MCProjectSave
    tlc -workers 2 -config MCShell.cfg MCShellSessions
    tlc -workers 2 -config MCInstall.cfg MCHostInstall
    tlapm SessionSpawn_proofs.tla       # and the other *_proofs

`MC*.cfg` pass; `V*.cfg` end in a counterexample, on purpose. The module of each
configuration listed in `PROJECT.json` is there; of the others, those about the
lock (`VStaleLockRace`, `VLockAcrossNodes`) belong to `MCSessionSpawn`,
`VCommitHasModules` to `MCProjectSave`, and the rest to `MCRemoteSession`. The
longest proof, `RemoteSession_proofs`, takes about seven minutes.
