--------------------------- MODULE KernelSession ---------------------------
(***************************************************************************)
(* The kernel of a session: the start, stop and restart handlers behind    *)
(* their lock, the crash handler, the active kernel and the generation the *)
(* MCP server compares, over KernelManager and CommRouter.                 *)
(*                                                                         *)
(* A handler is a record of what was asked and how far it came; it stands  *)
(* still at each await, and anything may happen there.  Calls are numbered *)
(* in the order they arrive, which is the order of the lock.               *)
(***************************************************************************)
EXTENDS CommRouter, FiniteSets

CONSTANT MaxCalls  \* bound: lifecycle calls a client makes

ASSUME SessionAssumption ==
  MaxKernels \in Nat \ {0} /\ MaxCalls \in Nat /\ KeepAlives \subseteq Requests

Calls == 1 .. MaxCalls

VARIABLES
  call,        \* per call: its kind, its target, the kernel it spawned, its step
  active,      \* activeKernelId
  handlers,    \* the kernels whose crash handler is registered
  generation,  \* the MCP generation counter
  mcp,         \* an MCP session: the generation and kernel it connected under
  excused      \* history: a known flaw left the session out of step

lifeVars == <<call, active, handlers, generation, mcp, excused>>
sessionVars == <<managerVars, routerVars, lifeVars>>

Idle == [kind |-> "none", old |-> NoKernel, fresh |-> NoKernel, at |-> "new"]
NoAgent == [generation |-> 0, kernel |-> NoKernel, connected |-> FALSE, outdated |-> FALSE]

Init ==
  /\ InitManager /\ InitRouter
  /\ call = [c \in Calls |-> Idle]
  /\ active = NoKernel
  /\ handlers = {}
  /\ generation = 0
  /\ mcp = NoAgent
  /\ excused = FALSE

Over == {"done", "failed"}
At(c, kind, at) == call[c].kind = kind /\ call[c].at = at
GoesTo(c, at) == call' = [call EXCEPT ![c].at = at]
Underway == {c \in Calls : call[c].at \notin Over \cup {"new", "waiting"}}

(* setActiveKernelId, and when it bumps the generation.                    *)
(* Mutant: going from a kernel to none is no switch.                       *)
ShouldBumpToKernel(from, to) == from # NoKernel /\ to # NoKernel /\ from # to

ShouldBumpOnSwap(from, to) == from # NoKernel /\ from # to

SetActive(k) ==
  /\ active' = k
  /\ generation' = IF ShouldBumpOnSwap(active, k) THEN generation + 1 ELSE generation

KeepActive == UNCHANGED <<active, generation>>

----------------------------------------------------------------------------
(* A client calls one of the handlers, and waits for the lock.             *)
IsCalled(c, kind, k) ==
  /\ call[c].at = "new" /\ \A b \in Calls : b < c => call[b].at # "new"
  /\ IF kind = "start" THEN k = NoKernel ELSE k \in Kernels /\ Known(k)
  /\ call' = [call EXCEPT ![c] = [Idle EXCEPT !.kind = kind, !.old = k, !.at = "waiting"]]
  /\ UNCHANGED <<managerVars, routerVars, active, handlers, generation, mcp, excused>>

(* withStartLock: the promise of the call before is swapped in at once.    *)
(* Mutant: it was awaited first, and all who came together went on.        *)
HasLockTogether(c) == TRUE

HasLock(c) == \A b \in Calls : b < c => call[b].at \in Over

Begins(c, kind) == HasLock(c) /\ At(c, kind, "waiting")

----------------------------------------------------------------------------
(* kernels.start: whatever an earlier client left is stopped first.        *)
(* Mutant: only what became a session is.                                  *)
SurvivorsServing == hosted \cap handlers

Survivors == hosted

Swept(c) == GoesTo(c, "spawn") /\ SetActive(NoKernel)

StartBegins(c) ==
  /\ Begins(c, "start")
  /\ IF Survivors = {} THEN Swept(c) ELSE GoesTo(c, "sweep") /\ KeepActive
  /\ UNCHANGED <<managerVars, routerVars, handlers, mcp, excused>>

SweepBegins(c, k) ==
  /\ At(c, "start", "sweep") /\ k \in Survivors /\ Survivors \cap stopping = {}
  /\ handlers' = handlers \ {k}
  /\ BeginStop(k)
  /\ UNCHANGED <<routerVars, call, active, generation, mcp, excused>>

SweepEnds(c, k) ==
  /\ At(c, "start", "sweep") /\ EndStop(k)
  /\ UNCHANGED <<messageVars, handlers, mcp, excused>>
  /\ IF Survivors' = {} THEN Detach /\ Swept(c)
     ELSE UNCHANGED <<router, queryRouter, promiseVars, call>> /\ KeepActive

----------------------------------------------------------------------------
(* What start and restart share: the environment, the process, the wait    *)
(* for it, and the handshake.                                              *)
Fails(c) == GoesTo(c, "failed")
Restarts(c) == call[c].kind = "restart"

EnvironmentFails(c) ==
  /\ call[c].at = "spawn"
  /\ Fails(c)
  /\ excused' = (excused \/ Restarts(c))
  /\ UNCHANGED <<managerVars, routerVars, active, handlers, generation, mcp>>

Spawns(c, k) ==
  /\ call[c].at = "spawn" /\ Spawn(k)
  /\ call' = [call EXCEPT ![c].at = "connect", ![c].fresh = k]
  /\ UNCHANGED <<routerVars, active, handlers, generation, mcp, excused>>

Connects(c) ==
  /\ call[c].at = "connect" /\ Lists(call[c].fresh)
  /\ GoesTo(c, "boot")
  /\ UNCHANGED <<routerVars, active, handlers, generation, mcp, excused>>

(* No socket library, or no socket: the process is in no map, and goes on. *)
ConnectFails(c) ==
  /\ call[c].at = "connect"
  /\ Fails(c)
  /\ excused' = (excused \/ Restarts(c))
  /\ UNCHANGED <<managerVars, routerVars, active, handlers, generation, mcp>>

(* The process exits while it boots, or is silent for too long.  Neither   *)
(* handler knows the kernel's id yet: it stays.                            *)
BootFails(c) ==
  /\ call[c].at = "boot"
  /\ Fails(c)
  /\ excused' = (excused \/ Restarts(c))
  /\ UNCHANGED <<managerVars, routerVars, active, handlers, generation, mcp>>

Boots(c) ==
  /\ call[c].at = "boot" /\ BecomesReady(call[c].fresh)
  /\ GoesTo(c, "handshake")
  /\ RouteTo(call[c].fresh) /\ queryRouter' = NoKernel
  /\ UNCHANGED <<messageVars, active, handlers, generation, mcp, excused>>

(* initializeKernelSession throws; start() takes the kernel down again.    *)
(* Mutant: the bootstrap has no deadline; only a crash ends it.            *)
MayGiveUpDead(k) == proc[k] = "gone"

MayGiveUp(k) == TRUE

HandshakeFails(c) ==
  /\ call[c].at = "handshake" /\ MayGiveUp(call[c].fresh)
  /\ IF Restarts(c)
     THEN Fails(c) /\ excused' = TRUE /\ UNCHANGED managerVars
     ELSE GoesTo(c, "unwind") /\ BeginStop(call[c].fresh) /\ UNCHANGED excused
  /\ UNCHANGED <<routerVars, active, handlers, generation, mcp>>

Activate(c) ==
  /\ SetActive(call[c].fresh)
  /\ excused' = ~(proc[call[c].fresh] = "up" /\ call[c].fresh \in handlers')

(* It succeeds: the listeners are attached.  A Julia start then waits for  *)
(* its packages, every other one is done.                                  *)
HandshakeEnds(c, waits) ==
  /\ call[c].at = "handshake" /\ proc[call[c].fresh] = "up"
  /\ waits => ~Restarts(c)
  /\ queryRouter' = call[c].fresh
  /\ handlers' = handlers \cup {call[c].fresh}
  /\ IF waits THEN GoesTo(c, "packages") /\ KeepActive /\ UNCHANGED excused
     ELSE GoesTo(c, "binding") /\ Activate(c)
  /\ UNCHANGED <<managerVars, router, promiseVars, messageVars, mcp>>

PackagesFail(c) ==
  /\ call[c].at = "packages"
  /\ GoesTo(c, "unwind")
  /\ handlers' = handlers \ {call[c].fresh}
  /\ BeginStop(call[c].fresh)
  /\ UNCHANGED <<routerVars, active, generation, mcp, excused>>

PackagesAreReady(c) ==
  /\ call[c].at = "packages"
  /\ UNCHANGED <<managerVars, routerVars, handlers, mcp>>
  /\ GoesTo(c, "binding") /\ Activate(c)

Unwinds(c) ==
  /\ call[c].at = "unwind" /\ EndStop(call[c].fresh)
  /\ Detach /\ Fails(c)
  /\ UNCHANGED <<messageVars, active, handlers, generation, mcp, excused>>

(* Module namespaces, and after a restart the project or the snapshot.     *)
BindingEnds(c, how) ==
  /\ call[c].at = "binding" /\ how \in Over
  /\ GoesTo(c, how)
  /\ UNCHANGED <<managerVars, routerVars, active, handlers, generation, mcp, excused>>

----------------------------------------------------------------------------
(* kernels.stop detaches the routers whichever kernel it was asked to stop.*)
StopEnds(c) ==
  LET k == call[c].old IN
  /\ GoesTo(c, "done")
  /\ Detach
  /\ IF active = k THEN SetActive(NoKernel) ELSE KeepActive
  /\ excused' = (excused \/ active \notin {k, NoKernel})
  /\ UNCHANGED <<messageVars, mcp>>

StopBegins(c) ==
  LET k == call[c].old IN
  /\ Begins(c, "stop")
  /\ handlers' = handlers \ {k}
  /\ IF k \in hosted
     THEN /\ BeginStop(k) /\ GoesTo(c, "ending")
          /\ UNCHANGED <<routerVars, active, generation, mcp, excused>>
     ELSE StopEnds(c) /\ UNCHANGED managerVars

StopFinishes(c) ==
  /\ At(c, "stop", "ending") /\ EndStop(call[c].old)
  /\ StopEnds(c)
  /\ UNCHANGED handlers

(* kernels.restart: an autosave first, which may take its time.            *)
RestartBegins(c) ==
  /\ Begins(c, "restart")
  /\ GoesTo(c, "snapshot")
  /\ UNCHANGED <<managerVars, routerVars, active, handlers, generation, mcp, excused>>

RestartStops(c) ==
  LET k == call[c].old IN
  /\ At(c, "restart", "snapshot")
  /\ IF k \in hosted
     THEN GoesTo(c, "ending") /\ handlers' = handlers \ {k} /\ BeginStop(k)
     ELSE Fails(c) /\ UNCHANGED <<managerVars, handlers>>
  /\ UNCHANGED <<routerVars, active, generation, mcp, excused>>

RestartFinishesStop(c) ==
  /\ At(c, "restart", "ending") /\ EndStop(call[c].old)
  /\ GoesTo(c, "spawn")
  /\ UNCHANGED <<routerVars, active, handlers, generation, mcp, excused>>

----------------------------------------------------------------------------
(* A kernel process exits, for whatever reason.                            *)
Exits(k) ==
  /\ ProcessExits(k)
  /\ IF Crashes(k) /\ k \in handlers
     THEN /\ Detach
          /\ IF active = k THEN SetActive(NoKernel) ELSE KeepActive
     ELSE UNCHANGED <<router, queryRouter, promiseVars>> /\ KeepActive
  /\ UNCHANGED <<messageVars, call, handlers, mcp, excused>>

(* The window is reloaded: resetSessionState, or with the kernels' own     *)
(* state sessionReset.  The kernel goes on, and the generation stays.      *)
ResetsSession(full) ==
  /\ active' = NoKernel
  /\ handlers' = IF full THEN {} ELSE handlers
  /\ excused' = TRUE
  /\ mcp' = [mcp EXCEPT !.outdated = TRUE]
  /\ UNCHANGED <<managerVars, routerVars, call, generation>>

AgentConnects ==
  /\ ~mcp.connected
  /\ mcp' = [generation |-> generation, kernel |-> active, connected |-> TRUE,
             outdated |-> FALSE]
  /\ UNCHANGED <<managerVars, routerVars, call, active, handlers, generation, excused>>

----------------------------------------------------------------------------
HandlerStep(c) ==
  \/ StartBegins(c) \/ \E k \in Kernels : SweepBegins(c, k) \/ SweepEnds(c, k)
  \/ EnvironmentFails(c) \/ \E k \in Kernels : Spawns(c, k)
  \/ Connects(c) \/ ConnectFails(c) \/ BootFails(c) \/ Boots(c)
  \/ HandshakeFails(c) \/ \E waits \in BOOLEAN : HandshakeEnds(c, waits)
  \/ PackagesFail(c) \/ PackagesAreReady(c) \/ Unwinds(c)
  \/ \E how \in Over : BindingEnds(c, how)
  \/ StopBegins(c) \/ StopFinishes(c)
  \/ RestartBegins(c) \/ RestartStops(c) \/ RestartFinishesStop(c)

QueryStep ==
  \/ \E q \in Queries : queryRouter # NoKernel /\ Ask(q, queryRouter)
  \/ \E q \in Queries, k \in Kernels : QueryTurn(q, k)

Interrupts == \E k \in Kernels : Interrupt(k)

ExecStep == \E x \in Execs : ExecutionEnds(x) \/ \E k \in Kernels : Execute(x, k)

Next ==
  \/ \E c \in Calls :
       \/ \E kind \in {"start", "stop", "restart"}, k \in Kernels \cup {NoKernel} :
            IsCalled(c, kind, k)
       \/ HandlerStep(c)
  \/ \E k \in Kernels : Exits(k)
  \/ \E full \in BOOLEAN : ResetsSession(full)
  \/ AgentConnects
  \/ Interrupts /\ UNCHANGED <<routerVars, lifeVars>>
  \/ ExecStep /\ UNCHANGED <<routerVars, lifeVars>>
  \/ QueryStep /\ UNCHANGED <<routerVars, lifeVars>>
  \/ RouterStep /\ UNCHANGED <<managerVars, lifeVars>>

Spec == Init /\ [][Next]_sessionVars

(* The awaits end: processes can be stopped, environments are built or     *)
(* not, and where a kernel is waited for, a deadline ends the wait.  That  *)
(* a kernel gets ready, or answers, is not assumed.                        *)
HandlersGoOn ==
  \A c \in Calls :
    WF_sessionVars(
      \/ StartBegins(c) \/ \E k \in Kernels : SweepBegins(c, k) \/ SweepEnds(c, k)
      \/ EnvironmentFails(c) \/ Connects(c) \/ ConnectFails(c)
      \/ BootFails(c) \/ HandshakeFails(c)
      \/ PackagesFail(c) \/ Unwinds(c) \/ BindingEnds(c, "done")
      \/ StopBegins(c) \/ StopFinishes(c)
      \/ RestartBegins(c) \/ RestartStops(c) \/ RestartFinishesStop(c))

TimersFire ==
  \A r \in Requests :
    WF_sessionVars(RequestTimesOut(r) /\ UNCHANGED <<managerVars, lifeVars>>)

FairSpec == Spec /\ HandlersGoOn /\ TimersFire

----------------------------------------------------------------------------
(* The types of the variables.                                             *)
TypeOK ==
  /\ proc \in [Kernels -> {"none", "fresh", "booting", "up", "gone", "lost"}]
  /\ hosted \subseteq Kernels /\ stopping \subseteq Kernels /\ handlers \subseteq Kernels
  /\ signalled \subseteq Kernels
  /\ exec \in [Execs -> [kernel : 0 .. MaxKernels, state : {"new", "running", "settled"},
                         armed : BOOLEAN]]
  /\ query \in [Queries -> {"new", "queued", "sent", "recreating", "answered", "failed"}]
  /\ socket \in [Kernels -> {"ready", "awaiting", "closed"}]
  /\ router \in 0 .. MaxKernels /\ queryRouter \in 0 .. MaxKernels
  /\ active \in 0 .. MaxKernels
  /\ \A r \in Requests : promise[r] = "pending" <=> timer[r] \in {"first", "renewed"}

(* Whenever no handler is at work, the session's active kernel is one that *)
(* lives, both routers lead to it and its crash will be heard of; and when *)
(* there is none, they lead nowhere.                                       *)
Serves(k) == Heard(k) /\ proc[k] = "up" /\ k \in handlers
SessionIsServed ==
  Underway = {} /\ ~excused =>
    /\ router = active /\ queryRouter = active
    /\ active # NoKernel => Serves(active)

(* A session hosts one kernel: whatever earlier calls left behind, no two  *)
(* kernel processes live at once.  Two kinds escape: one that a stop spared*)
(* because it had been interrupted, and one whose sockets failed.          *)
Connecting(k) == \E c \in Calls : call[c].at = "connect" /\ call[c].fresh = k
Strays ==
  {k \in Living \ hosted : k \in signalled \/ (proc[k] = "fresh" /\ ~Connecting(k))}
OneKernelLives == Cardinality(Living \ Strays) <= 1

(* An execution that waits can be ended: its kernel has not crashed, or    *)
(* its listener heard of it.  (One whose kernel is stopped waits for ever, *)
(* and so does one whose kernel exited before it was listened to.)         *)
CrashIsHeard ==
  \A x \in Execs : Running(x) /\ exec[x].kernel \notin stopping =>
    exec[x].kernel \in Living \/ proc[exec[x].kernel] = "lost"

(* An MCP session that passes the generation guard works on the kernel it  *)
(* connected under, or on none, unless the window was reloaded since.      *)
AgentStaysPut ==
  mcp.connected /\ ~mcp.outdated /\ mcp.generation = generation /\ mcp.kernel # NoKernel
    => active \in {mcp.kernel, NoKernel}

(* The comm router keeps the contract of calls that must not run twice.    *)
Contract == INSTANCE CallContract WITH
  Calls <- Requests, Unsafe <- Requests,
  owned <- [r \in Requests |-> IF promise[r] = "pending" THEN "owned" ELSE promise[r]],
  ran <- taken,
  done <- {r \in Requests : taken[r] > 0 /\ message[r].at \in {"iopub", "over"}}
KeepsContract == Contract!Spec

(* A request is answered or given up, whatever becomes of its kernel.      *)
RequestsSettle == \A r \in Requests : promise[r] = "pending" ~> promise[r] # "pending"

(* One query that was given up does not wedge the channel: none is refused *)
(* because the socket still awaits the reply of an earlier one.            *)
ChannelIsFree ==
  \A q \in Queries, k \in Kernels :
    AtHead(q, k) /\ query[q] = "queued" /\ k \notin stopping => socket[k] # "awaiting"

(* Every call of a lifecycle handler gets the lock and returns, even when  *)
(* a kernel lives and is silent.                                           *)
CallsReturn == \A c \in Calls : call[c].at = "waiting" ~> call[c].at \in Over

----------------------------------------------------------------------------
(* What the comments promise and the code does not keep, one by one: each  *)
(* is refuted by TLC.                                                      *)

(* Only a living kernel becomes the active one (kernels.start: a death     *)
(* while the packages are awaited must not end in "a dead process promoted *)
(* to active").                                                            *)
DeadIsNotPromoted ==
  [][active' \notin {active, NoKernel} => proc[active'] = "up"]_active

(* No kernels are stacked (kernels.start: "A session hosts one kernel, and *)
(* this handler is the authority on that [...] without this sweep every    *)
(* reconnect that starts fresh stacks another ipykernel on the host").     *)
NoneIsStacked == Cardinality(Living) <= 1

(* Every execution hears of the exit of its kernel (execute: "If the       *)
(* kernel crashes while we're waiting for idle, resolve with an error      *)
(* instead of hanging forever").                                           *)
EveryExitIsHeard ==
  \A x \in Execs : Running(x) /\ exec[x].kernel \notin stopping => exec[x].kernel \in Living

(* A start that failed leaves no process behind (kernels.start: "under a   *)
(* long-lived daemon it would survive as an orphan holding memory").       *)
FailedStartIsUndone ==
  \A c \in Calls :
    call[c].at = "failed" /\ call[c].fresh # NoKernel => call[c].fresh \notin Living

(* The generation tells an agent of every switch (generation-guard.ts: it  *)
(* bumps "when the active project dir or kernel id actually changes from   *)
(* one set value to another or to null").                                  *)
AgentIsNeverMisled ==
  mcp.connected /\ mcp.generation = generation /\ mcp.kernel # NoKernel
    => active \in {mcp.kernel, NoKernel}

(* A kernel that was stopped has no open socket (sendQueryRequest:         *)
(* "nothing else can touch the socket mid-swap").                          *)
StoppedIsClosed == \A k \in stopping \ hosted : socket[k] = "closed"
=============================================================================
