---------------------------- MODULE SessionIdle ----------------------------
(***************************************************************************)
(* When a session daemon that nobody watches stops: the policy's one timer,*)
(* its grace window after the last client left, the cap on an idle kernel, *)
(* and the autosave that must succeed before the session may go.           *)
(*                                                                         *)
(* The policy is driven by the host (connections) and by the kernel        *)
(* manager (execution state), whose events are synchronous calls: each is  *)
(* part of the step that causes it.  The policy's fields are one record,   *)
(* p, and its methods functions from p to p.  Time is abstract: a timer    *)
(* that is armed may fire at any later point.                              *)
(*                                                                         *)
(* One kernel stands for all: kernels.start, kernels.stop and              *)
(* kernels.restart run one at a time, and a start stops what it finds.     *)
(* They are requests that outlive the client that made them.  The daemon   *)
(* leaves idleCapHours and capCountsExecution at their defaults (12 hours, *)
(* idle time only).                                                        *)
(***************************************************************************)
EXTENDS Integers

CONSTANTS
  MaxVisits,   \* bound: connections made
  MaxAsks,     \* bound: kernels asked to start, stop or restart
  MaxWork,     \* bound: pieces of work given to the kernel
  MaxFailures  \* bound: autosaves that fail

ASSUME IdleAssumption ==
  MaxVisits \in Nat /\ MaxAsks \in Nat /\ MaxWork \in Nat /\ MaxFailures \in Nat

VARIABLES
  p,         \* the policy: its timer, clientsGone, graceDone, stopped
  attached,  \* a client holds the session
  gated,     \* a connection is there that has not attached
  kernel,    \* "none", "booting", "starting", "busy", "idle", "saving", "dead"
  queued,    \* requests for the kernel that wait for the start lock
  handler,   \* what the one that holds it does: "none", "stopping",
             \* "replacing", "spawning", "waiting", "handshake", "unwinding"
  active,    \* the kernel is the session's active one
  killed,    \* its process was sent a signal (process.killed)
  save,      \* the autosave under way: "none", "asked", "ok", "failed"
  closed,    \* the daemon is gone
  visits, asks, work, failures,  \* history: how often, for the bounds
  unsaved,   \* history: work was done that no snapshot has
  since,     \* history: work was done since the last autosave was asked for
  excuse,    \* history: why the autosave that succeeded left work out
  displaced, \* history: the retry of an autosave took a grace countdown's place
  muted      \* history: the kernel that was waited for went without an event

hosted == <<kernel, queued, handler, active, killed>>
saved == <<unsaved, since, excuse>>
world == <<attached, gated, hosted, save, closed, saved, displaced, muted>>
counts == <<visits, asks, work, failures>>
idleVars == <<p, world, counts>>

Init ==
  /\ p = [timer |-> "none", clientsGone |-> FALSE, graceDone |-> FALSE, stopped |-> "no"]
  /\ attached = FALSE /\ gated = FALSE
  /\ kernel = "none" /\ queued = 0 /\ handler = "none"
  /\ active = FALSE /\ killed = FALSE
  /\ save = "none"
  /\ closed = FALSE
  /\ visits = 0 /\ asks = 0 /\ work = 0 /\ failures = 0
  /\ unsaved = FALSE /\ since = FALSE /\ excuse = "none"
  /\ displaced = FALSE /\ muted = FALSE

----------------------------------------------------------------------------
(* wireSessionIdle's predicates.  A kernel counts as busy, without an      *)
(* event, from its spawn to the first status it reports.                   *)
HasKernel == kernel # "none"

(* Mutant: a kernel that died at work counts as executing for ever.        *)
IsExecutingDead(k) == k \in {"booting", "busy", "saving", "dead"}

IsExecuting(k) == k \in {"booting", "busy", "saving"}

Stopped(s) == s.stopped # "no"
Arm(s, which) == [s EXCEPT !.timer = which]
Disarm(s) == [s EXCEPT !.timer = "none"]

OnClientsGone(s) ==
  IF Stopped(s) THEN s
  ELSE Arm([s EXCEPT !.clientsGone = TRUE, !.graceDone = FALSE], "grace")

(* Mutant: the countdown goes on.                                          *)
OnClientAttachedRunsOn(s) == [s EXCEPT !.clientsGone = FALSE, !.graceDone = FALSE]

OnClientAttached(s) == Disarm([s EXCEPT !.clientsGone = FALSE, !.graceDone = FALSE])

(* Whether the execution-state events count: past the grace window only.   *)
Counting(s) == ~Stopped(s) /\ s.clientsGone /\ s.graceDone

ArmCap(s, k) == IF IsExecuting(k) THEN Disarm(s) ELSE Arm(s, "cap")

(* Mutant: a kernel that goes idle is not looked at.                       *)
OnExecutionIdleIgnored(s, k) == s

OnExecutionIdle(s, k) == IF Counting(s) THEN ArmCap(s, k) ELSE s

OnExecutionBusy(s) == IF Counting(s) THEN Disarm(s) ELSE s

AfterGrace(s) ==
  LET over == [s EXCEPT !.graceDone = TRUE]
  IN  IF HasKernel THEN ArmCap(over, kernel) ELSE Arm(over, "noKernel")

RetryAutosave(s) == Arm(s, "retry")

----------------------------------------------------------------------------
(* The host: connections come, attach or not, and go.                      *)
Connects ==
  /\ ~closed /\ ~gated /\ visits < MaxVisits
  /\ gated' = TRUE
  /\ visits' = visits + 1
  /\ UNCHANGED <<p, attached, hosted, save, closed, saved, displaced, muted, asks, work, failures>>

(* It attaches, over any client there is.                                  *)
Attaches ==
  /\ ~closed /\ gated
  /\ attached' = TRUE /\ gated' = FALSE
  /\ p' = OnClientAttached(p)
  /\ displaced' = FALSE /\ muted' = FALSE
  /\ UNCHANGED <<hosted, save, closed, saved, counts>>

(* forgetConnection: the last connection to go is the last client gone,    *)
(* whether it ever attached or not.                                        *)
GatedLeaves ==
  /\ ~closed /\ gated
  /\ gated' = FALSE
  /\ p' = IF attached THEN p ELSE OnClientsGone(p)
  /\ UNCHANGED <<attached, hosted, save, closed, saved, displaced, muted, counts>>

ClientLeaves ==
  /\ ~closed /\ attached
  /\ attached' = FALSE
  /\ p' = IF gated THEN p ELSE OnClientsGone(p)
  /\ UNCHANGED <<gated, hosted, save, closed, saved, displaced, muted, counts>>

(* The window is reset: the session forgets its active kernel, which lives. *)
WindowResets ==
  /\ ~closed /\ attached /\ active
  /\ active' = FALSE
  /\ UNCHANGED <<p, attached, gated, kernel, queued, handler, killed, save, closed, saved,
                 displaced, muted, counts>>

----------------------------------------------------------------------------
(* The handlers of kernels.start, stop and restart.  While one stops the   *)
(* kernel nothing of it is heard any more.                                 *)
Stopping == handler \in {"stopping", "replacing", "unwinding"}
Rest == <<attached, gated, closed, displaced>>

ClientAsks ==
  /\ ~closed /\ attached /\ asks < MaxAsks
  /\ queued' = queued + 1 /\ asks' = asks + 1
  /\ UNCHANGED <<p, Rest, kernel, handler, active, killed, save, saved, muted, visits, work, failures>>

(* A request has the start lock, whoever is attached by now: it stops the  *)
(* kernel, for good or to start another, starts one where there is none,   *)
(* or finds nothing to stop.                                               *)
HandlerBegins ==
  /\ ~closed /\ queued > 0 /\ handler = "none"
  /\ queued' = queued - 1
  /\ handler' \in IF HasKernel THEN {"stopping", "replacing"} ELSE {"spawning", "none"}
  /\ UNCHANGED <<p, Rest, kernel, active, killed, save, saved, muted, counts>>

(* What would have told the policy to go on is lost.                       *)
Silences ==
  muted' = (muted \/ (/\ Counting(p) /\ p.timer = "none" /\ save = "none"
                      /\ kernel \notin {"none", "idle", "dead"}))

(* Its process exits in the course of stop(): no crash, and no event.      *)
KernelExits ==
  /\ ~closed /\ Stopping /\ kernel \notin {"none", "dead"}
  /\ kernel' = "dead"
  /\ unsaved' = FALSE
  /\ Silences
  /\ UNCHANGED <<p, Rest, queued, handler, active, killed, save, since, excuse, counts>>

(* stop() ends: the kernel leaves the list, without an event; the handler  *)
(* detaches the routers, which rejects the snapshot that was asked for.    *)
StopEnds ==
  /\ ~closed /\ Stopping
  /\ kernel' = "none" /\ active' = FALSE
  /\ handler' = IF handler = "replacing" THEN "spawning" ELSE "none"
  /\ save' = IF save = "asked" THEN "failed" ELSE save
  /\ unsaved' = FALSE
  /\ Silences
  /\ UNCHANGED <<p, Rest, queued, killed, since, excuse, counts>>

(* The environment is ready and the kernel is listed, or not.              *)
Spawns ==
  /\ ~closed /\ handler = "spawning"
  /\ kernel' = "booting" /\ handler' = "waiting" /\ killed' = FALSE
  /\ UNCHANGED <<p, Rest, queued, active, save, saved, muted, counts>>

SpawnFails ==
  /\ ~closed /\ handler = "spawning"
  /\ handler' = "none"
  /\ UNCHANGED <<p, Rest, kernel, queued, active, killed, save, saved, muted, counts>>

(* It is ready, or start() gives up: the handler never learns its id, and  *)
(* the kernel stays listed.                                                *)
BootEnds ==
  /\ ~closed /\ handler = "waiting"
  /\ handler' \in {"none"} \union (IF kernel = "dead" THEN {} ELSE {"handshake"})
  /\ UNCHANGED <<p, Rest, kernel, queued, active, killed, save, saved, muted, counts>>

(* The handshake and the packages' installation: the kernel becomes the    *)
(* session's, or is stopped again.                                         *)
HandshakeEnds ==
  /\ ~closed /\ handler = "handshake"
  /\ handler' = "none" /\ active' = TRUE
  /\ UNCHANGED <<p, Rest, kernel, queued, killed, save, saved, muted, counts>>

HandshakeFails ==
  /\ ~closed /\ handler = "handshake"
  /\ handler' = "unwinding"
  /\ UNCHANGED <<p, Rest, kernel, queued, active, killed, save, saved, muted, counts>>

----------------------------------------------------------------------------
(* The kernel manager's events.                                            *)
Kept == <<attached, gated, closed, queued, handler, displaced, muted>>

(* A first status of "starting" is neither busy nor idle to the predicate, *)
(* and busy to the hook.                                                   *)
FirstStatus ==
  /\ ~closed /\ ~Stopping /\ kernel = "booting"
  /\ kernel' = "starting"
  /\ p' = OnExecutionBusy(p)
  /\ UNCHANGED <<Kept, active, killed, save, saved, counts>>

(* Work starts, asked for by a client, or left behind by one.              *)
WorkStarts ==
  /\ ~closed /\ ~Stopping /\ kernel \in {"starting", "idle"} /\ work < MaxWork
  /\ kernel' = "busy"
  /\ p' = OnExecutionBusy(p)
  /\ work' = work + 1
  /\ unsaved' = TRUE /\ since' = TRUE
  /\ UNCHANGED <<Kept, active, killed, save, excuse, visits, asks, failures>>

(* It ends, or a kernel that boots has nothing to do.                      *)
WorkEnds ==
  /\ ~closed /\ ~Stopping /\ kernel \in {"booting", "starting", "busy"}
  /\ kernel' = "idle"
  /\ p' = OnExecutionIdle(p, "idle")
  /\ UNCHANGED <<Kept, active, killed, save, saved, counts>>

(* kernel:crashed; what the kernel held is beyond saving.                  *)
KernelCrashes ==
  /\ ~closed /\ ~Stopping /\ kernel \notin {"none", "dead"}
  /\ kernel' = "dead" /\ active' = FALSE
  /\ p' = OnExecutionIdle(p, "dead")
  /\ unsaved' = FALSE
  /\ UNCHANGED <<Kept, killed, save, since, excuse, counts>>

(* A client interrupts it: node notes of a process that it was killed once *)
(* it was sent any signal, and the autosave takes it for dead.             *)
Interrupt ==
  /\ ~closed /\ attached /\ active /\ kernel \in {"idle", "busy", "saving"} /\ ~killed
  /\ killed' = TRUE
  /\ UNCHANGED <<p, Kept, kernel, active, save, saved, counts>>

(* The snapshot is a request like any other to the kernel: it reports busy *)
(* when it takes it up and idle when it has answered.                      *)
KernelTakesSave ==
  /\ ~closed /\ ~Stopping /\ save = "asked" /\ kernel = "idle"
  /\ kernel' = "saving"
  /\ p' = OnExecutionBusy(p)
  /\ UNCHANGED <<Kept, active, killed, save, saved, counts>>

(* Its answer passes for a snapshot also when the kernel gave it up for a  *)
(* missing file, or left out what it cannot serialize.                     *)
KernelAnswers ==
  /\ ~closed /\ ~Stopping /\ save = "asked" /\ kernel = "saving"
  /\ save' = "ok"
  /\ \/ unsaved' = (unsaved /\ since) /\ excuse' = "none"
     \/ unsaved' = unsaved /\ excuse' = "incomplete"
  /\ UNCHANGED <<p, Kept, kernel, active, killed, since, counts>>

KernelHasSaved ==
  /\ ~closed /\ ~Stopping /\ kernel = "saving" /\ save # "asked"
  /\ kernel' = "idle"
  /\ p' = OnExecutionIdle(p, "idle")
  /\ UNCHANGED <<Kept, active, killed, save, saved, counts>>

(* The snapshot fails: the kernel reports an error, or is too slow.        *)
SaveFails ==
  /\ ~closed /\ save = "asked" /\ kernel # "dead"
  /\ failures < MaxFailures
  /\ save' = "failed"
  /\ failures' = failures + 1
  /\ UNCHANGED <<p, Kept, kernel, active, killed, saved, visits, asks, work>>

(* The kernel died with the request: its answer is given up.               *)
SaveIsLost ==
  /\ ~closed /\ save = "asked" /\ kernel = "dead"
  /\ save' = "failed"
  /\ UNCHANGED <<p, Kept, kernel, active, killed, saved, counts>>

----------------------------------------------------------------------------
(* autosaveForShutdown(): without an active kernel, or with one taken for  *)
(* dead, there is nothing to save.                                         *)
Excuse == IF ~active THEN "inactive" ELSE IF killed THEN "killed" ELSE "none"
NothingToSave == kernel = "dead" \/ Excuse # "none"

(* finish(): autosave, unless the kernel is executing.  An autosave is     *)
(* over before another countdown is.                                       *)
Finish ==
  /\ save = "none"
  /\ p' = Disarm(p)
  /\ IF IsExecuting(kernel) THEN UNCHANGED <<save, since, excuse>>
     ELSE /\ save' = IF NothingToSave THEN "ok" ELSE "asked"
          /\ excuse' = Excuse
          /\ since' = FALSE
  /\ UNCHANGED <<Kept, kernel, active, killed, unsaved, counts>>

TimerFires ==
  /\ ~closed
  /\ \/ /\ p.timer = "grace"
        /\ p' = AfterGrace(Disarm(p))
        /\ UNCHANGED <<world, counts>>
     \/ p.timer \in {"noKernel", "cap", "retry"} /\ Finish

(* Mutants: the world is not looked at again, or the outcome is not.       *)
MayStopUnchecked == save = "ok"
MayStopUnsaved == p.clientsGone /\ p.graceDone /\ ~IsExecuting(kernel)

(* What may have changed while the autosave ran.                           *)
MayStop ==
  save = "ok" /\ p.clientsGone /\ p.graceDone /\ ~IsExecuting(kernel)

(* dispose(), because the session was idle or because it was asked to.     *)
Dispose(why) == Disarm([p EXCEPT !.stopped = why])

(* The autosave's promise settles.  shutdown() disposes of the policy.     *)
SaveSettles ==
  /\ ~closed /\ save \in {"ok", "failed"}
  /\ save' = "none"
  /\ p' = IF Stopped(p) THEN p
          ELSE IF MayStop THEN Dispose("idle")
          ELSE IF save = "failed" THEN RetryAutosave(p)
          ELSE p
  /\ displaced' = (displaced \/ (p.timer = "grace" /\ p'.timer = "retry"))
  /\ UNCHANGED <<attached, gated, hosted, closed, saved, muted, counts>>

(* A client asks for the session to be shut down.                          *)
ShutdownRequested ==
  /\ ~closed /\ attached /\ ~Stopped(p)
  /\ p' = Dispose("asked")
  /\ UNCHANGED <<world, counts>>

(* The kernels are shut down, then the socket: the daemon exits.           *)
Close ==
  /\ ~closed /\ Stopped(p)
  /\ closed' = TRUE
  /\ attached' = FALSE /\ gated' = FALSE
  /\ UNCHANGED <<p, hosted, save, saved, displaced, muted, counts>>

Next ==
  \/ Connects \/ Attaches \/ GatedLeaves \/ ClientLeaves \/ WindowResets
  \/ ClientAsks \/ HandlerBegins \/ KernelExits \/ StopEnds
  \/ Spawns \/ SpawnFails \/ BootEnds \/ HandshakeEnds \/ HandshakeFails
  \/ FirstStatus \/ WorkStarts \/ WorkEnds \/ KernelCrashes \/ Interrupt
  \/ KernelTakesSave \/ KernelAnswers \/ KernelHasSaved
  \/ SaveFails \/ SaveIsLost
  \/ TimerFires \/ SaveSettles \/ ShutdownRequested \/ Close

Spec == Init /\ [][Next]_idleVars

(* Timers fire, requests are answered or given up, and connections that do *)
(* not attach are dropped at their deadline; and the kernel's idle status  *)
(* is not for ever later than the last file of its snapshot, each time.    *)
(* stop() has its deadlines.  Work and boots may go on for ever.           *)
Fairness ==
  /\ WF_idleVars(TimerFires) /\ WF_idleVars(SaveSettles) /\ WF_idleVars(Close)
  /\ WF_idleVars(KernelTakesSave) /\ WF_idleVars(KernelAnswers)
  /\ WF_idleVars(KernelHasSaved) /\ WF_idleVars(SaveIsLost)
  /\ WF_idleVars(GatedLeaves) /\ WF_idleVars(StopEnds)
  /\ SF_idleVars(KernelHasSaved /\ save = "ok")

FairSpec == Spec /\ Fairness

----------------------------------------------------------------------------
(* The types of the variables.                                             *)
TypeOK ==
  /\ p \in [timer : {"none", "grace", "noKernel", "cap", "retry"},
            clientsGone : BOOLEAN, graceDone : BOOLEAN, stopped : {"no", "idle", "asked"}]
  /\ attached \in BOOLEAN /\ gated \in BOOLEAN /\ closed \in BOOLEAN
  /\ kernel \in {"none", "booting", "starting", "busy", "idle", "saving", "dead"}
  /\ queued \in Nat
  /\ handler \in {"none", "stopping", "replacing", "spawning", "waiting", "handshake", "unwinding"}
  /\ active \in BOOLEAN /\ killed \in BOOLEAN
  /\ save \in {"none", "asked", "ok", "failed"}
  /\ unsaved \in BOOLEAN /\ since \in BOOLEAN
  /\ excuse \in {"none", "inactive", "killed", "incomplete"}
  /\ displaced \in BOOLEAN /\ muted \in BOOLEAN

(* A countdown runs only while nobody holds the session, the long ones only *)
(* past the grace window and never over work that the kernel announced; a  *)
(* kernel that a request left behind boots may boot under one.  The retry  *)
(* of a failed autosave is none: it runs under a client, too.              *)
CountdownIsDeserted ==
  /\ p.timer \in {"grace", "noKernel", "cap"} => p.clientsGone /\ ~attached
  /\ p.timer = "grace" => ~p.graceDone
  /\ p.timer \in {"noKernel", "cap"} => p.graceDone /\ kernel \notin {"busy", "saving"}

StopsItself == p.stopped = "no" /\ p'.stopped = "idle"

(* The session is not stopped under a client, nor under work that runs or  *)
(* a kernel that boots, whatever attached, left or started while the       *)
(* autosave was under way.                                                 *)
StopsNobody ==
  [][StopsItself => ~attached /\ kernel \notin {"booting", "busy"}]_p

(* A session that stops has a snapshot of all the work there was when its  *)
(* last autosave was asked for: a failed one never lets it go.  Excepted   *)
(* is what passes for a snapshot and is none: of a kernel that is not the  *)
(* active one or was ever interrupted none is asked for, and the kernel's  *)
(* answer is not looked at.                                                *)
StopsWithSnapshot ==
  [][StopsItself /\ unsaved => since \/ excuse # "none"]_<<p, since, unsaved, excuse>>

(* What keeps a session from being forgotten: a countdown or an autosave   *)
(* under way, or a kernel that boots or works, whose going idle will start *)
(* one.                                                                    *)
Remembered ==
  p.timer # "none" \/ save # "none" \/ kernel \notin {"none", "idle", "dead"}

(* A session whose last client is gone is never forgotten, whatever comes, *)
(* goes, fails or dies in whatever order, unless the retry of a failed     *)
(* autosave took the place of the countdown a visitor left behind, or a    *)
(* request stopped the kernel whose going idle it waited for.              *)
NeverForgotten ==
  p.clientsGone /\ ~Stopped(p) /\ ~displaced /\ ~muted => Remembered

(* A session its clients have left ends, or is joined again, or works, or  *)
(* is forgotten in one of these two ways.                                  *)
Deserted == p.clientsGone /\ ~attached /\ ~gated /\ ~closed
DesertedEnds ==
  Deserted ~> \/ ~Deserted
              \/ kernel \in {"booting", "starting", "busy"}
              \/ displaced \/ muted

----------------------------------------------------------------------------
(* What the comments promise and the code does not keep, one by one: each  *)
(* is refuted by TLC.                                                      *)

(* No outcome of an autosave leaves a deserted session without a countdown *)
(* (finish: "All three re-arm through their own events rather than dying   *)
(* here").                                                                 *)
AllReArm == p.clientsGone /\ ~Stopped(p) /\ ~muted => Remembered

(* Whatever ends work re-evaluates the policy (wireSessionIdle: "a spurious *)
(* call is harmless while a missed one would let the cap fire mid-run or   *)
(* never re-arm").                                                         *)
NoneIsMissed == p.clientsGone /\ ~Stopped(p) /\ ~displaced => Remembered

(* No countdown runs over a kernel that counts as busy (armCap: "The cap   *)
(* starts when execution ends").                                           *)
NoCapOverBoot == p.timer \in {"noKernel", "cap"} => ~IsExecuting(kernel)

(* An autosave that lets the session go has preserved the work             *)
(* (autosaveForShutdown: "True when everything preservable has been        *)
(* preserved"), also of a kernel that was once interrupted, or that is not *)
(* the active one, or could not save all.                                  *)
InterruptedIsSaved ==
  [][StopsItself /\ unsaved => since \/ excuse \in {"inactive", "incomplete"}]_<<p, since, unsaved, excuse>>
InactiveIsSaved ==
  [][StopsItself /\ unsaved => since \/ excuse \in {"killed", "incomplete"}]_<<p, since, unsaved, excuse>>
IncompleteIsNone ==
  [][StopsItself /\ unsaved => since \/ excuse \in {"killed", "inactive"}]_<<p, since, unsaved, excuse>>

(* A session nobody watches stops (session-idle.ts: "a daemon that         *)
(* outlives its usefulness is a process quietly holding a login node's     *)
(* memory ... This policy is the difference").                             *)
Unwatched == ~attached /\ ~gated /\ ~closed
UnwatchedEnds == Unwatched ~> ~Unwatched \/ kernel = "busy"

(* A failed autosave is retried after its own delay (autosaveRetryMs: "How *)
(* long to wait before retrying a failed autosave"): unless the user's work *)
(* goes on or the kernel dies, the long countdown never takes its place.   *)
RetryIsKept ==
  [][p.timer = "retry" /\ p'.timer = "cap" =>
       kernel = "busy" \/ kernel' = "dead"]_<<p, kernel>>
=============================================================================
