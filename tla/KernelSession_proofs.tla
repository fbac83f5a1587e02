------------------------ MODULE KernelSession_proofs ------------------------
(***************************************************************************)
(* Proofs about KernelSession, for any number of kernels, lifecycle calls, *)
(* executions, queries and requests: the types, that one kernel lives,     *)
(* that a crash is heard of, that the query channel is free, that the      *)
(* session is served, that an agent stays put, and that the comm router    *)
(* implements CallContract.                                                *)
(***************************************************************************)
EXTENDS KernelSession, FiniteSetTheorems, TLAPS

----------------------------------------------------------------------------
(* The inductive invariant, in parts.                                      *)

Kinds == {"none", "start", "stop", "restart"}
Between ==
  {"sweep", "ending", "spawn", "connect", "boot", "handshake", "packages", "unwind"}
Stages == {"new", "waiting", "snapshot", "binding"} \cup Between \cup Over
Places == {"nowhere", "queue", "kernel", "iopub", "over"}

(* The types, in three groups: those of the manager, of the routers and of *)
(* the handlers.  They say more than TypeOK.                               *)
ExecRecord ==
  [kernel : 0 .. MaxKernels, state : {"new", "running", "settled"}, armed : BOOLEAN]

ManagerTypes ==
  /\ proc \in [Kernels -> {"none", "fresh", "booting", "up", "gone", "lost"}]
  /\ hosted \subseteq Kernels /\ stopping \subseteq Kernels /\ signalled \subseteq Kernels
  /\ exec \in [Execs -> ExecRecord]
  /\ query \in [Queries -> {"new", "queued", "sent", "recreating", "answered", "failed"}]
  /\ queryQueue \in [Kernels -> Seq(Queries)]
  /\ socket \in [Kernels -> {"ready", "awaiting", "closed"}]

MessageRecord == [kernel : 0 .. MaxKernels, at : Places]

RouterTypes ==
  /\ router \in 0 .. MaxKernels /\ queryRouter \in 0 .. MaxKernels
  /\ promise \in [Requests -> {"new", "pending", "ok", "failed"}]
  /\ timer \in [Requests -> {"off", "first", "renewed"}]
  /\ message \in [Requests -> MessageRecord]
  /\ taken \in [Requests -> Nat]
  /\ \A r \in Requests : promise[r] = "pending" <=> timer[r] \in {"first", "renewed"}

CallRecord == [kind : Kinds, old : 0 .. MaxKernels, fresh : 0 .. MaxKernels, at : Stages]

AgentRecord ==
  [generation : Nat, kernel : 0 .. MaxKernels, connected : BOOLEAN, outdated : BOOLEAN]

LifeTypes ==
  /\ call \in [Calls -> CallRecord]
  /\ active \in 0 .. MaxKernels /\ handlers \subseteq Kernels
  /\ generation \in Nat
  /\ mcp \in AgentRecord
  /\ excused \in BOOLEAN

TypeInv == ManagerTypes /\ RouterTypes /\ LifeTypes

(* The lock: whoever is past its wait comes after calls that are over.     *)
LockInv ==
  \A b, c \in Calls : b < c /\ call[c].at \notin {"new", "waiting"} => call[b].at \in Over

(* What lives is in the map, or was signalled when it left it, or never    *)
(* came into it; the map has one kernel at most; and a kernel that never   *)
(* came into it is nowhere else either.                                    *)
KernelsInv ==
  /\ \A k \in Living \ hosted : k \in signalled \/ proc[k] = "fresh"
  /\ \A j, k \in hosted : j = k
  /\ \A k \in Kernels : proc[k] \in {"none", "fresh"} => k \notin hosted
  /\ \A k \in Kernels \ hosted :
       proc[k] \in {"none", "fresh", "lost"} => k \notin stopping \cup handlers

(* What a handler knows at each of its awaits, whatever happens there.     *)
KindFits(c) ==
  /\ call[c].at \in {"sweep", "packages", "unwind"} => call[c].kind = "start"
  /\ call[c].at \in {"spawn", "connect", "boot", "handshake"} => call[c].kind \in {"start", "restart"}

KernelFits(c) ==
  /\ call[c].at \in {"spawn", "connect"} => hosted = {}
  /\ call[c].at = "connect" =>
       call[c].fresh \in Kernels /\ proc[call[c].fresh] \in {"fresh", "lost"}
  /\ call[c].at \in {"boot", "handshake", "packages"} => call[c].fresh \in hosted \ stopping
  /\ call[c].at \in {"boot", "handshake"} => call[c].fresh \notin handlers

RoutersFit(c) ==
  /\ call[c].at = "handshake" => router = call[c].fresh
  /\ call[c].at = "packages" /\ proc[call[c].fresh] = "up" /\ call[c].fresh \in handlers
       => router = call[c].fresh /\ queryRouter = call[c].fresh

StageInv == \A c \in Calls : KindFits(c) /\ KernelFits(c) /\ RoutersFit(c)

(* The session is served where no handler is between two kernels; and a    *)
(* start has left no trace before it has a kernel to show.                 *)
Served ==
  /\ router = active /\ queryRouter = active
  /\ active # NoKernel => Serves(active)

BareStart(c) ==
  /\ call[c].at \in {"spawn", "connect", "boot"} => router = NoKernel /\ queryRouter = NoKernel
  /\ call[c].at \in {"spawn", "connect", "boot", "handshake", "packages", "unwind"}
       => active = NoKernel

ServeInv ==
  ~excused =>
    /\ (\A c \in Calls : call[c].at \notin Between) => Served
    /\ \A c \in Calls : call[c].kind = "start" => BareStart(c)

(* Who waits for a kernel that nobody stops still has its crash listener:  *)
(* no other kernel's crash could have taken it off.                        *)
ExecInv ==
  \A x \in Execs :
    Running(x) /\ exec[x].kernel \notin stopping =>
      /\ exec[x].kernel \in hosted
      /\ proc[exec[x].kernel] = "lost" \/ (exec[x].kernel \in Living /\ exec[x].armed)

(* A query waits in one queue, and a socket awaits the first one's reply.  *)
QueueInv ==
  /\ \A k \in Kernels : \A i \in 1 .. Len(queryQueue[k]) : query[queryQueue[k][i]] # "new"
  /\ \A j, k \in Kernels : j # k =>
       \A i \in 1 .. Len(queryQueue[j]), h \in 1 .. Len(queryQueue[k]) :
         queryQueue[j][i] # queryQueue[k][h]
  /\ \A k \in Kernels : socket[k] = "awaiting" /\ k \notin stopping
       => queryQueue[k] # <<>> /\ query[Head(queryQueue[k])] = "sent"

(* An agent's generation is not ahead, and while it is the current one the *)
(* active kernel has not even been none in between.                        *)
AgentInv ==
  /\ mcp.generation <= generation
  /\ mcp.connected /\ ~mcp.outdated /\ mcp.generation = generation /\ mcp.kernel # NoKernel
       => active = mcp.kernel

(* A message exists from the request on, and is handled where it passes.   *)
MessageInv ==
  \A r \in Requests :
    /\ promise[r] = "new" => message[r].at = "nowhere"
    /\ message[r].at \in {"nowhere", "queue"} => taken[r] = 0
    /\ message[r].at \in {"kernel", "iopub"} => taken[r] > 0

----------------------------------------------------------------------------
(* What a step does to the manager's state: one thing, and a kernel comes  *)
(* into the map only where there is none.                                  *)
ManagerStep ==
  \/ \E k \in Kernels : Spawn(k) \/ (Lists(k) /\ hosted = {})
  \/ \E k \in Kernels : BecomesReady(k) \/ ProcessExits(k)
  \/ \E k \in Kernels : Interrupt(k) \/ BeginStop(k) \/ EndStop(k)
  \/ ExecStep \/ QueryStep \/ UNCHANGED managerVars

(* Every step is one of those for the manager's state.                     *)
LEMMA ManagerSteps ==
  ASSUME TypeInv, StageInv, Next PROVE ManagerStep
  <1>1. ASSUME NEW c \in Calls, NEW kind \in {"start", "stop", "restart"},
               NEW k \in Kernels \cup {NoKernel}, IsCalled(c, kind, k)
        PROVE  ManagerStep
    BY <1>1 DEF IsCalled, ManagerStep
  <1>2. ASSUME NEW c \in Calls, StartBegins(c) PROVE ManagerStep
    BY <1>2 DEF StartBegins, ManagerStep
  <1>3. ASSUME NEW c \in Calls, NEW k \in Kernels, SweepBegins(c, k) PROVE ManagerStep
    BY <1>3 DEF SweepBegins, ManagerStep
  <1>4. ASSUME NEW c \in Calls, NEW k \in Kernels, SweepEnds(c, k) PROVE ManagerStep
    BY <1>4 DEF SweepEnds, ManagerStep
  <1>5. ASSUME NEW c \in Calls, EnvironmentFails(c) PROVE ManagerStep
    BY <1>5 DEF EnvironmentFails, ManagerStep
  <1>6. ASSUME NEW c \in Calls, NEW k \in Kernels, Spawns(c, k) PROVE ManagerStep
    BY <1>6 DEF Spawns, ManagerStep, StageInv, KernelFits
  <1>7. ASSUME NEW c \in Calls, BootFails(c) PROVE ManagerStep
    BY <1>7 DEF BootFails, ManagerStep
  <1>8. ASSUME NEW c \in Calls, Boots(c) PROVE ManagerStep
    BY <1>8 DEF Boots, ManagerStep, StageInv, KernelFits, TypeInv, ManagerTypes
  <1>9. ASSUME NEW c \in Calls, HandshakeFails(c) PROVE ManagerStep
    BY <1>9 DEF HandshakeFails, BeginStop, ManagerStep, TypeInv, ManagerTypes
  <1>10. ASSUME NEW c \in Calls, NEW waits \in BOOLEAN, HandshakeEnds(c, waits)
         PROVE  ManagerStep
    BY <1>10 DEF HandshakeEnds, ManagerStep
  <1>11. ASSUME NEW c \in Calls, PackagesFail(c) PROVE ManagerStep
    BY <1>11 DEF PackagesFail, BeginStop, ManagerStep, TypeInv, ManagerTypes
  <1>12. ASSUME NEW c \in Calls, PackagesAreReady(c) PROVE ManagerStep
    BY <1>12 DEF PackagesAreReady, ManagerStep
  <1>13. ASSUME NEW c \in Calls, Unwinds(c) PROVE ManagerStep
    BY <1>13 DEF Unwinds, EndStop, ManagerStep, TypeInv, ManagerTypes
  <1>14. ASSUME NEW c \in Calls, NEW how \in Over, BindingEnds(c, how) PROVE ManagerStep
    BY <1>14 DEF BindingEnds, ManagerStep
  <1>15. ASSUME NEW c \in Calls, StopBegins(c) PROVE ManagerStep
    BY <1>15 DEF StopBegins, ManagerStep, TypeInv, ManagerTypes
  <1>16. ASSUME NEW c \in Calls, StopFinishes(c) PROVE ManagerStep
    BY <1>16 DEF StopFinishes, EndStop, ManagerStep, TypeInv, ManagerTypes
  <1>17. ASSUME NEW c \in Calls, RestartBegins(c) PROVE ManagerStep
    BY <1>17 DEF RestartBegins, ManagerStep
  <1>18. ASSUME NEW c \in Calls, RestartStops(c) PROVE ManagerStep
    BY <1>18 DEF RestartStops, ManagerStep, TypeInv, ManagerTypes
  <1>19. ASSUME NEW c \in Calls, RestartFinishesStop(c) PROVE ManagerStep
    BY <1>19 DEF RestartFinishesStop, EndStop, ManagerStep, TypeInv, ManagerTypes
  <1>20. ASSUME NEW k \in Kernels, Exits(k) PROVE ManagerStep
    BY <1>20 DEF Exits, ManagerStep
  <1>21. ASSUME NEW full \in BOOLEAN, ResetsSession(full) PROVE ManagerStep
    BY <1>21 DEF ResetsSession, ManagerStep
  <1>22. ASSUME AgentConnects PROVE ManagerStep
    BY <1>22 DEF AgentConnects, ManagerStep
  <1>23. ASSUME ExecStep, UNCHANGED <<routerVars, lifeVars>> PROVE ManagerStep
    BY <1>23 DEF ManagerStep
  <1>24. ASSUME QueryStep, UNCHANGED <<routerVars, lifeVars>> PROVE ManagerStep
    BY <1>24 DEF ManagerStep
  <1>25. ASSUME RouterStep, UNCHANGED <<managerVars, lifeVars>> PROVE ManagerStep
    BY <1>25 DEF ManagerStep
  <1>26. ASSUME NEW c \in Calls, Connects(c) PROVE ManagerStep
    BY <1>26 DEF Connects, ManagerStep, StageInv, KernelFits
  <1>27. ASSUME NEW c \in Calls, ConnectFails(c) PROVE ManagerStep
    BY <1>27 DEF ConnectFails, ManagerStep
  <1>28. ASSUME Interrupts, UNCHANGED <<routerVars, lifeVars>> PROVE ManagerStep
    BY <1>28 DEF Interrupts, ManagerStep
  <1> QED BY <1>1, <1>2, <1>3, <1>4, <1>5, <1>6, <1>7, <1>8, <1>9, <1>10, <1>11, <1>12,
    <1>13, <1>14, <1>15, <1>16, <1>17, <1>18, <1>19, <1>20, <1>21, <1>22, <1>23, <1>24,
    <1>25, <1>26, <1>27, <1>28 DEF Next, HandlerStep

(* What a step does to the requests: one of the router's own steps, or all *)
(* that is pending is rejected, or nothing.                                *)
RoutersStep ==
  \/ RouterStep
  \/ /\ UNCHANGED messageVars /\ (Settle(Pending, "failed") \/ UNCHANGED promiseVars)
     /\ router' \in {router, queryRouter, NoKernel} \cup hosted
     /\ queryRouter' \in {router, queryRouter, NoKernel} \cup hosted

(* Every step is one of those for the two routers.                         *)
LEMMA RoutersSteps ==
  ASSUME StageInv, Next PROVE RoutersStep
  <1>1. ASSUME NEW c \in Calls, NEW kind \in {"start", "stop", "restart"},
               NEW k \in Kernels \cup {NoKernel}, IsCalled(c, kind, k)
        PROVE  RoutersStep
    BY <1>1 DEF IsCalled, RoutersStep, routerVars
  <1>2. ASSUME NEW c \in Calls, StartBegins(c) PROVE RoutersStep
    BY <1>2 DEF StartBegins, RoutersStep, routerVars
  <1>3. ASSUME NEW c \in Calls, NEW k \in Kernels, SweepBegins(c, k) PROVE RoutersStep
    BY <1>3 DEF SweepBegins, RoutersStep, routerVars
  <1>4. ASSUME NEW c \in Calls, NEW k \in Kernels, SweepEnds(c, k) PROVE RoutersStep
    BY <1>4 DEF SweepEnds, Detach, RouteTo, RoutersStep
  <1>5. ASSUME NEW c \in Calls, EnvironmentFails(c) PROVE RoutersStep
    BY <1>5 DEF EnvironmentFails, RoutersStep, routerVars
  <1>6. ASSUME NEW c \in Calls, NEW k \in Kernels, Spawns(c, k) PROVE RoutersStep
    BY <1>6 DEF Spawns, RoutersStep, routerVars
  <1>7. ASSUME NEW c \in Calls, BootFails(c) PROVE RoutersStep
    BY <1>7 DEF BootFails, RoutersStep, routerVars
  <1>8. ASSUME NEW c \in Calls, Boots(c) PROVE RoutersStep
    BY <1>8 DEF Boots, RouteTo, RoutersStep, StageInv, KernelFits
  <1>9. ASSUME NEW c \in Calls, HandshakeFails(c) PROVE RoutersStep
    BY <1>9 DEF HandshakeFails, RoutersStep, routerVars
  <1>10. ASSUME NEW c \in Calls, NEW waits \in BOOLEAN, HandshakeEnds(c, waits)
         PROVE  RoutersStep
    BY <1>10 DEF HandshakeEnds, RoutersStep, StageInv, KernelFits
  <1>11. ASSUME NEW c \in Calls, PackagesFail(c) PROVE RoutersStep
    BY <1>11 DEF PackagesFail, RoutersStep, routerVars
  <1>12. ASSUME NEW c \in Calls, PackagesAreReady(c) PROVE RoutersStep
    BY <1>12 DEF PackagesAreReady, RoutersStep, routerVars
  <1>13. ASSUME NEW c \in Calls, Unwinds(c) PROVE RoutersStep
    BY <1>13 DEF Unwinds, Detach, RouteTo, RoutersStep
  <1>14. ASSUME NEW c \in Calls, NEW how \in Over, BindingEnds(c, how) PROVE RoutersStep
    BY <1>14 DEF BindingEnds, RoutersStep, routerVars
  <1>15. ASSUME NEW c \in Calls, StopBegins(c) PROVE RoutersStep
    BY <1>15 DEF StopBegins, StopEnds, Detach, RouteTo, RoutersStep, routerVars
  <1>16. ASSUME NEW c \in Calls, StopFinishes(c) PROVE RoutersStep
    BY <1>16 DEF StopFinishes, StopEnds, Detach, RouteTo, RoutersStep
  <1>17. ASSUME NEW c \in Calls, RestartBegins(c) PROVE RoutersStep
    BY <1>17 DEF RestartBegins, RoutersStep, routerVars
  <1>18. ASSUME NEW c \in Calls, RestartStops(c) PROVE RoutersStep
    BY <1>18 DEF RestartStops, RoutersStep, routerVars
  <1>19. ASSUME NEW c \in Calls, RestartFinishesStop(c) PROVE RoutersStep
    BY <1>19 DEF RestartFinishesStop, RoutersStep, routerVars
  <1>20. ASSUME NEW k \in Kernels, Exits(k) PROVE RoutersStep
    BY <1>20 DEF Exits, Detach, RouteTo, RoutersStep
  <1>21. ASSUME NEW full \in BOOLEAN, ResetsSession(full) PROVE RoutersStep
    BY <1>21 DEF ResetsSession, RoutersStep, routerVars
  <1>22. ASSUME AgentConnects PROVE RoutersStep
    BY <1>22 DEF AgentConnects, RoutersStep, routerVars
  <1>23. ASSUME ExecStep, UNCHANGED <<routerVars, lifeVars>> PROVE RoutersStep
    BY <1>23 DEF RoutersStep, routerVars
  <1>24. ASSUME QueryStep, UNCHANGED <<routerVars, lifeVars>> PROVE RoutersStep
    BY <1>24 DEF RoutersStep, routerVars
  <1>25. ASSUME RouterStep, UNCHANGED <<managerVars, lifeVars>> PROVE RoutersStep
    BY <1>25 DEF RoutersStep
  <1>26. ASSUME NEW c \in Calls, Connects(c) PROVE RoutersStep
    BY <1>26 DEF Connects, RoutersStep, routerVars
  <1>27. ASSUME NEW c \in Calls, ConnectFails(c) PROVE RoutersStep
    BY <1>27 DEF ConnectFails, RoutersStep, routerVars
  <1>28. ASSUME Interrupts, UNCHANGED <<routerVars, lifeVars>> PROVE RoutersStep
    BY <1>28 DEF RoutersStep, routerVars
  <1> QED BY <1>1, <1>2, <1>3, <1>4, <1>5, <1>6, <1>7, <1>8, <1>9, <1>10, <1>11, <1>12,
    <1>13, <1>14, <1>15, <1>16, <1>17, <1>18, <1>19, <1>20, <1>21, <1>22, <1>23, <1>24,
    <1>25, <1>26, <1>27, <1>28 DEF Next, HandlerStep

(* What a step does to the agent and the active kernel.                    *)
AgentStep ==
  \/ UNCHANGED mcp /\ (KeepActive \/ \E k \in hosted \cup {NoKernel} : SetActive(k))
  \/ \E full \in BOOLEAN : ResetsSession(full)
  \/ AgentConnects

(* Every step is one of those for the agent and the active kernel.         *)
LEMMA AgentSteps ==
  ASSUME StageInv, Next PROVE AgentStep
  <1>1. ASSUME NEW c \in Calls, NEW kind \in {"start", "stop", "restart"},
               NEW k \in Kernels \cup {NoKernel}, IsCalled(c, kind, k)
        PROVE  AgentStep
    BY <1>1 DEF IsCalled, AgentStep, KeepActive
  <1>2. ASSUME NEW c \in Calls, StartBegins(c) PROVE AgentStep
    BY <1>2 DEF StartBegins, Swept, AgentStep
  <1>3. ASSUME NEW c \in Calls, NEW k \in Kernels, SweepBegins(c, k) PROVE AgentStep
    BY <1>3 DEF SweepBegins, AgentStep, KeepActive
  <1>4. ASSUME NEW c \in Calls, NEW k \in Kernels, SweepEnds(c, k) PROVE AgentStep
    BY <1>4 DEF SweepEnds, Swept, AgentStep
  <1>5. ASSUME NEW c \in Calls, EnvironmentFails(c) PROVE AgentStep
    BY <1>5 DEF EnvironmentFails, AgentStep, KeepActive
  <1>6. ASSUME NEW c \in Calls, NEW k \in Kernels, Spawns(c, k) PROVE AgentStep
    BY <1>6 DEF Spawns, AgentStep, KeepActive
  <1>7. ASSUME NEW c \in Calls, BootFails(c) PROVE AgentStep
    BY <1>7 DEF BootFails, AgentStep, KeepActive
  <1>8. ASSUME NEW c \in Calls, Boots(c) PROVE AgentStep
    BY <1>8 DEF Boots, AgentStep, KeepActive
  <1>9. ASSUME NEW c \in Calls, HandshakeFails(c) PROVE AgentStep
    BY <1>9 DEF HandshakeFails, AgentStep, KeepActive
  <1>10. ASSUME NEW c \in Calls, NEW waits \in BOOLEAN, HandshakeEnds(c, waits) PROVE AgentStep
    BY <1>10 DEF HandshakeEnds, Activate, AgentStep, StageInv, KernelFits
  <1>11. ASSUME NEW c \in Calls, PackagesFail(c) PROVE AgentStep
    BY <1>11 DEF PackagesFail, AgentStep, KeepActive
  <1>12. ASSUME NEW c \in Calls, PackagesAreReady(c) PROVE AgentStep
    BY <1>12 DEF PackagesAreReady, Activate, AgentStep, StageInv, KernelFits
  <1>13. ASSUME NEW c \in Calls, Unwinds(c) PROVE AgentStep
    BY <1>13 DEF Unwinds, AgentStep, KeepActive
  <1>14. ASSUME NEW c \in Calls, NEW how \in Over, BindingEnds(c, how) PROVE AgentStep
    BY <1>14 DEF BindingEnds, AgentStep, KeepActive
  <1>15. ASSUME NEW c \in Calls, StopBegins(c) PROVE AgentStep
    BY <1>15 DEF StopBegins, StopEnds, AgentStep, KeepActive
  <1>16. ASSUME NEW c \in Calls, StopFinishes(c) PROVE AgentStep
    BY <1>16 DEF StopFinishes, StopEnds, AgentStep
  <1>17. ASSUME NEW c \in Calls, RestartBegins(c) PROVE AgentStep
    BY <1>17 DEF RestartBegins, AgentStep, KeepActive
  <1>18. ASSUME NEW c \in Calls, RestartStops(c) PROVE AgentStep
    BY <1>18 DEF RestartStops, AgentStep, KeepActive
  <1>19. ASSUME NEW c \in Calls, RestartFinishesStop(c) PROVE AgentStep
    BY <1>19 DEF RestartFinishesStop, AgentStep, KeepActive
  <1>20. ASSUME NEW k \in Kernels, Exits(k) PROVE AgentStep
    BY <1>20 DEF Exits, AgentStep, KeepActive
  <1>21. ASSUME NEW full \in BOOLEAN, ResetsSession(full) PROVE AgentStep
    BY <1>21 DEF ResetsSession, AgentStep
  <1>22. ASSUME AgentConnects PROVE AgentStep
    BY <1>22 DEF AgentConnects, AgentStep
  <1>23. ASSUME ExecStep, UNCHANGED <<routerVars, lifeVars>> PROVE AgentStep
    BY <1>23 DEF AgentStep, KeepActive, lifeVars
  <1>24. ASSUME QueryStep, UNCHANGED <<routerVars, lifeVars>> PROVE AgentStep
    BY <1>24 DEF AgentStep, KeepActive, lifeVars
  <1>25. ASSUME RouterStep, UNCHANGED <<managerVars, lifeVars>> PROVE AgentStep
    BY <1>25 DEF AgentStep, KeepActive, lifeVars
  <1>26. ASSUME NEW c \in Calls, Connects(c) PROVE AgentStep
    BY <1>26 DEF Connects, AgentStep, KeepActive
  <1>27. ASSUME NEW c \in Calls, ConnectFails(c) PROVE AgentStep
    BY <1>27 DEF ConnectFails, AgentStep, KeepActive
  <1>28. ASSUME Interrupts, UNCHANGED <<routerVars, lifeVars>> PROVE AgentStep
    BY <1>28 DEF AgentStep, KeepActive, lifeVars
  <1> QED BY <1>1, <1>2, <1>3, <1>4, <1>5, <1>6, <1>7, <1>8, <1>9, <1>10, <1>11, <1>12,
    <1>13, <1>14, <1>15, <1>16, <1>17, <1>18, <1>19, <1>20, <1>21, <1>22, <1>23, <1>24,
    <1>25, <1>26, <1>27, <1>28 DEF Next, HandlerStep

(* What a step does to the calls: one comes in, one whose turn it is goes  *)
(* on, perhaps with a kernel it spawned, or nothing.                       *)
OnTurn(c) ==
  call[c].at \notin Over \cup {"new"} /\ (call[c].at = "waiting" => HasLock(c))

CallStep ==
  \/ UNCHANGED call
  \/ \E c \in Calls, kind \in {"start", "stop", "restart"}, k \in Kernels \cup {NoKernel} :
       IsCalled(c, kind, k)
  \/ \E c \in Calls, at \in Stages \ {"new", "waiting"} : OnTurn(c) /\ GoesTo(c, at)
  \/ \E c \in Calls, k \in Kernels : OnTurn(c) /\ Spawns(c, k)

(* Every step is one of those for the calls.                               *)
LEMMA CallSteps ==
  ASSUME TypeInv, StageInv, Next PROVE CallStep
  <1>1. ASSUME NEW c \in Calls, NEW kind \in {"start", "stop", "restart"},
               NEW k \in Kernels \cup {NoKernel}, IsCalled(c, kind, k)
        PROVE  CallStep
    BY <1>1 DEF CallStep
  <1>2. ASSUME NEW c \in Calls, StartBegins(c) PROVE CallStep
    BY <1>2 DEF StartBegins, Begins, At, Swept, CallStep, OnTurn, Over, Stages, Between
  <1>3. ASSUME NEW c \in Calls, NEW k \in Kernels, SweepBegins(c, k) PROVE CallStep
    BY <1>3 DEF SweepBegins, CallStep
  <1>4. ASSUME NEW c \in Calls, NEW k \in Kernels, SweepEnds(c, k) PROVE CallStep
    BY <1>4 DEF SweepEnds, At, Swept, CallStep, OnTurn, Over, Stages, Between
  <1>5. ASSUME NEW c \in Calls, EnvironmentFails(c) PROVE CallStep
    BY <1>5 DEF EnvironmentFails, Fails, CallStep, OnTurn, Over, Stages
  <1>6. ASSUME NEW c \in Calls, NEW k \in Kernels, Spawns(c, k) PROVE CallStep
    BY <1>6 DEF Spawns, CallStep, OnTurn, Over
  <1>7. ASSUME NEW c \in Calls, BootFails(c) PROVE CallStep
    BY <1>7 DEF BootFails, Fails, CallStep, OnTurn, Over, Stages
  <1>8. ASSUME NEW c \in Calls, Boots(c) PROVE CallStep
    BY <1>8 DEF Boots, CallStep, OnTurn, Over, Stages, Between
  <1>9. ASSUME NEW c \in Calls, HandshakeFails(c) PROVE CallStep
    BY <1>9 DEF HandshakeFails, Fails, CallStep, OnTurn, Over, Stages, Between
  <1>10. ASSUME NEW c \in Calls, NEW waits \in BOOLEAN, HandshakeEnds(c, waits) PROVE CallStep
    BY <1>10 DEF HandshakeEnds, CallStep, OnTurn, Over, Stages, Between
  <1>11. ASSUME NEW c \in Calls, PackagesFail(c) PROVE CallStep
    BY <1>11 DEF PackagesFail, CallStep, OnTurn, Over, Stages, Between
  <1>12. ASSUME NEW c \in Calls, PackagesAreReady(c) PROVE CallStep
    BY <1>12 DEF PackagesAreReady, CallStep, OnTurn, Over, Stages
  <1>13. ASSUME NEW c \in Calls, Unwinds(c) PROVE CallStep
    BY <1>13 DEF Unwinds, Fails, CallStep, OnTurn, Over, Stages
  <1>14. ASSUME NEW c \in Calls, NEW how \in Over, BindingEnds(c, how) PROVE CallStep
    BY <1>14 DEF BindingEnds, CallStep, OnTurn, Over, Stages
  <1>15. ASSUME NEW c \in Calls, StopBegins(c) PROVE CallStep
    BY <1>15
    DEF StopBegins, Begins, At, StopEnds, CallStep, OnTurn, Over, Stages, Between
  <1>16. ASSUME NEW c \in Calls, StopFinishes(c) PROVE CallStep
    BY <1>16 DEF StopFinishes, At, StopEnds, CallStep, OnTurn, Over, Stages
  <1>17. ASSUME NEW c \in Calls, RestartBegins(c) PROVE CallStep
    BY <1>17 DEF RestartBegins, Begins, At, CallStep, OnTurn, Over, Stages
  <1>18. ASSUME NEW c \in Calls, RestartStops(c) PROVE CallStep
    BY <1>18 DEF RestartStops, At, Fails, CallStep, OnTurn, Over, Stages, Between
  <1>19. ASSUME NEW c \in Calls, RestartFinishesStop(c) PROVE CallStep
    BY <1>19 DEF RestartFinishesStop, At, CallStep, OnTurn, Over, Stages, Between
  <1>20. ASSUME NEW k \in Kernels, Exits(k) PROVE CallStep
    BY <1>20 DEF Exits, CallStep
  <1>21. ASSUME NEW full \in BOOLEAN, ResetsSession(full) PROVE CallStep
    BY <1>21 DEF ResetsSession, CallStep
  <1>22. ASSUME AgentConnects PROVE CallStep
    BY <1>22 DEF AgentConnects, CallStep
  <1>23. ASSUME ExecStep, UNCHANGED <<routerVars, lifeVars>> PROVE CallStep
    BY <1>23 DEF CallStep, lifeVars
  <1>24. ASSUME QueryStep, UNCHANGED <<routerVars, lifeVars>> PROVE CallStep
    BY <1>24 DEF CallStep, lifeVars
  <1>25. ASSUME RouterStep, UNCHANGED <<managerVars, lifeVars>> PROVE CallStep
    BY <1>25 DEF CallStep, lifeVars
  <1>26. ASSUME NEW c \in Calls, Connects(c) PROVE CallStep
    BY <1>26 DEF Connects, CallStep, OnTurn, Over, Stages, Between
  <1>27. ASSUME NEW c \in Calls, ConnectFails(c) PROVE CallStep
    BY <1>27 DEF ConnectFails, Fails, CallStep, OnTurn, Over, Stages
  <1>28. ASSUME Interrupts, UNCHANGED <<routerVars, lifeVars>> PROVE CallStep
    BY <1>28 DEF CallStep, lifeVars
  <1> QED BY <1>1, <1>2, <1>3, <1>4, <1>5, <1>6, <1>7, <1>8, <1>9, <1>10, <1>11, <1>12,
    <1>13, <1>14, <1>15, <1>16, <1>17, <1>18, <1>19, <1>20, <1>21, <1>22, <1>23, <1>24,
    <1>25, <1>26, <1>27, <1>28 DEF Next, HandlerStep

(* A call that goes on keeps all but its step.                             *)
LEMMA Moves ==
  ASSUME TypeInv, NEW c \in Calls, NEW at \in Stages, GoesTo(c, at)
  PROVE  /\ call' \in [Calls -> CallRecord]
         /\ \A d \in Calls :
              /\ call'[d].at = IF d = c THEN at ELSE call[d].at
              /\ call'[d].kind = call[d].kind /\ call'[d].old = call[d].old
              /\ call'[d].fresh = call[d].fresh
  <1>1. [call[c] EXCEPT !.at = at] \in CallRecord
    BY DEF TypeInv, LifeTypes, CallRecord
  <1>2. call' = [call EXCEPT ![c] = [call[c] EXCEPT !.at = at]]
    BY DEF GoesTo
  <1>3. QED BY <1>1, <1>2 DEF TypeInv, LifeTypes, CallRecord

(* A call that comes in waits, for all else it is as good as new.          *)
LEMMA Arrives ==
  ASSUME TypeInv, NEW c \in Calls, NEW kind \in {"start", "stop", "restart"},
         NEW k \in Kernels \cup {NoKernel}, IsCalled(c, kind, k)
  PROVE  /\ call' \in [Calls -> CallRecord]
         /\ \A d \in Calls \ {c} : call'[d] = call[d]
         /\ call[c].at = "new" /\ call'[c].at = "waiting"
  <1> DEFINE r == [Idle EXCEPT !.kind = kind, !.old = k, !.at = "waiting"]
  <1>1. Idle \in CallRecord
    BY SessionAssumption DEF Idle, CallRecord, Kinds, Stages, NoKernel
  <1>2. r \in CallRecord /\ r.at = "waiting"
    <2>1. k \in 0 .. MaxKernels /\ kind \in Kinds /\ "waiting" \in Stages
      BY SessionAssumption DEF Kernels, NoKernel, Kinds, Stages
    <2>2. QED BY <1>1, <2>1 DEF CallRecord
  <1>3. call[c].at = "new"
    BY DEF IsCalled
  <1>4. call' = [call EXCEPT ![c] = r]
    BY DEF IsCalled
  <1>5. QED BY <1>1, <1>2, <1>3, <1>4 DEF TypeInv, LifeTypes

(* A call that spawns a kernel waits for it.                               *)
LEMMA Spawned ==
  ASSUME TypeInv, NEW c \in Calls, NEW k \in Kernels, Spawns(c, k)
  PROVE  /\ call' \in [Calls -> CallRecord]
         /\ \A d \in Calls \ {c} : call'[d] = call[d]
         /\ call[c].at = "spawn" /\ call'[c].at = "connect"
         /\ call'[c].fresh = k /\ call'[c].kind = call[c].kind
  <1> DEFINE r == [call[c] EXCEPT !.at = "connect", !.fresh = k]
  <1>1. call' = [call EXCEPT ![c] = r]
    BY DEF Spawns
  <1>2. r \in CallRecord /\ r.at = "connect" /\ r.fresh = k /\ r.kind = call[c].kind
    <2>1. call[c] \in CallRecord
      BY DEF TypeInv, LifeTypes
    <2>2. k \in 0 .. MaxKernels /\ "connect" \in Stages
      BY SessionAssumption DEF Kernels, Stages, Between
    <2>3. QED BY <2>1, <2>2 DEF CallRecord
  <1>3. call[c].at = "spawn"
    BY DEF Spawns
  <1>4. QED BY <1>1, <1>2, <1>3 DEF TypeInv, LifeTypes

(* A crash handler is registered for a kernel that is up, and excused      *)
(* stays a truth value.                                                    *)
LEMMA HandlersSteps ==
  ASSUME TypeInv, StageInv, Next
  PROVE  /\ handlers' \subseteq handlers \cup {k \in Kernels : proc[k] = "up"}
         /\ excused' \in BOOLEAN
  <1> DEFINE Goal == /\ handlers' \subseteq handlers \cup {k \in Kernels : proc[k] = "up"}
                     /\ excused' \in BOOLEAN
  <1>1. ASSUME NEW c \in Calls, NEW kind \in {"start", "stop", "restart"},
               NEW k \in Kernels \cup {NoKernel}, IsCalled(c, kind, k)
        PROVE Goal
    BY <1>1 DEF IsCalled, TypeInv, LifeTypes
  <1>2. ASSUME NEW c \in Calls, StartBegins(c) PROVE Goal
    BY <1>2 DEF StartBegins, TypeInv, LifeTypes
  <1>3. ASSUME NEW c \in Calls, NEW k \in Kernels, SweepBegins(c, k) PROVE Goal
    BY <1>3 DEF SweepBegins, TypeInv, LifeTypes
  <1>4. ASSUME NEW c \in Calls, NEW k \in Kernels, SweepEnds(c, k) PROVE Goal
    BY <1>4 DEF SweepEnds, TypeInv, LifeTypes
  <1>5. ASSUME NEW c \in Calls, EnvironmentFails(c) PROVE Goal
    BY <1>5 DEF EnvironmentFails
  <1>6. ASSUME NEW c \in Calls, NEW k \in Kernels, Spawns(c, k) PROVE Goal
    BY <1>6 DEF Spawns, TypeInv, LifeTypes
  <1>7. ASSUME NEW c \in Calls, BootFails(c) PROVE Goal
    BY <1>7 DEF BootFails
  <1>8. ASSUME NEW c \in Calls, Boots(c) PROVE Goal
    BY <1>8 DEF Boots, TypeInv, LifeTypes
  <1>9. ASSUME NEW c \in Calls, HandshakeFails(c) PROVE Goal
    BY <1>9 DEF HandshakeFails, TypeInv, LifeTypes
  <1>10. ASSUME NEW c \in Calls, NEW waits \in BOOLEAN, HandshakeEnds(c, waits)
         PROVE Goal
    BY <1>10
    DEF HandshakeEnds, StageInv, KernelFits, TypeInv, ManagerTypes, LifeTypes, Activate
  <1>11. ASSUME NEW c \in Calls, PackagesFail(c) PROVE Goal
    BY <1>11 DEF PackagesFail, TypeInv, LifeTypes
  <1>12. ASSUME NEW c \in Calls, PackagesAreReady(c)
         PROVE Goal
    BY <1>12 DEF PackagesAreReady, Activate
  <1>13. ASSUME NEW c \in Calls, Unwinds(c) PROVE Goal
    BY <1>13 DEF Unwinds, TypeInv, LifeTypes
  <1>14. ASSUME NEW c \in Calls, NEW how \in Over, BindingEnds(c, how) PROVE Goal
    BY <1>14 DEF BindingEnds, TypeInv, LifeTypes
  <1>15. ASSUME NEW c \in Calls, StopBegins(c) PROVE Goal
    BY <1>15 DEF StopBegins, StopEnds, TypeInv, LifeTypes
  <1>16. ASSUME NEW c \in Calls, StopFinishes(c) PROVE Goal
    BY <1>16 DEF StopFinishes, StopEnds
  <1>17. ASSUME NEW c \in Calls, RestartBegins(c) PROVE Goal
    BY <1>17 DEF RestartBegins, TypeInv, LifeTypes
  <1>18. ASSUME NEW c \in Calls, RestartStops(c) PROVE Goal
    BY <1>18 DEF RestartStops, TypeInv, LifeTypes
  <1>19. ASSUME NEW c \in Calls, RestartFinishesStop(c)
         PROVE Goal
    BY <1>19 DEF RestartFinishesStop, TypeInv, LifeTypes
  <1>20. ASSUME NEW k \in Kernels, Exits(k) PROVE Goal
    BY <1>20 DEF Exits, TypeInv, LifeTypes
  <1>21. ASSUME NEW full \in BOOLEAN, ResetsSession(full) PROVE Goal
    BY <1>21 DEF ResetsSession
  <1>22. ASSUME AgentConnects PROVE Goal
    BY <1>22 DEF AgentConnects, TypeInv, LifeTypes
  <1>23. ASSUME ExecStep, UNCHANGED <<routerVars, lifeVars>> PROVE Goal
    BY <1>23 DEF lifeVars, TypeInv, LifeTypes
  <1>24. ASSUME QueryStep, UNCHANGED <<routerVars, lifeVars>> PROVE Goal
    BY <1>24 DEF lifeVars, TypeInv, LifeTypes
  <1>25. ASSUME RouterStep, UNCHANGED <<managerVars, lifeVars>> PROVE Goal
    BY <1>25 DEF lifeVars, TypeInv, LifeTypes
  <1>26. ASSUME NEW c \in Calls, Connects(c) PROVE Goal
    BY <1>26 DEF Connects, TypeInv, LifeTypes
  <1>27. ASSUME NEW c \in Calls, ConnectFails(c) PROVE Goal
    BY <1>27 DEF ConnectFails
  <1>28. ASSUME Interrupts, UNCHANGED <<routerVars, lifeVars>> PROVE Goal
    BY <1>28 DEF lifeVars, TypeInv, LifeTypes
  <1> QED BY <1>1, <1>2, <1>3, <1>4, <1>5, <1>6, <1>7, <1>8, <1>9, <1>10, <1>11, <1>12,
    <1>13, <1>14, <1>15, <1>16, <1>17, <1>18, <1>19, <1>20, <1>21, <1>22, <1>23, <1>24,
    <1>25, <1>26, <1>27, <1>28 DEF Next, HandlerStep

(* A settled execution keeps its kernel.                                   *)
LEMMA Settles ==
  ASSUME TypeInv, NEW x \in Execs
  PROVE  /\ Settled(x) \in ExecRecord /\ Settled(x).state = "settled"
         /\ [exec[x] EXCEPT !.armed = FALSE] \in ExecRecord
  <1>1. exec[x] \in ExecRecord
    BY DEF TypeInv, ManagerTypes
  <1>2. QED BY <1>1 DEF Settled, ExecRecord

(* A queue that lost its head has no query it did not have; one that grew, *)
(* only the new one.                                                       *)
LEMMA QueuePops ==
  ASSUME TypeInv, NEW k \in Kernels, queryQueue[k] # <<>>,
         queryQueue' = [queryQueue EXCEPT ![k] = Tail(@)]
  PROVE  /\ queryQueue' \in [Kernels -> Seq(Queries)]
         /\ \A j \in Kernels \ {k} : queryQueue'[j] = queryQueue[j]
         /\ \A j \in Kernels : \A i \in 1 .. Len(queryQueue'[j]) :
              \E h \in 1 .. Len(queryQueue[j]) : queryQueue'[j][i] = queryQueue[j][h]
  <1> DEFINE s == queryQueue[k]
  <1>1. s \in Seq(Queries) /\ queryQueue'[k] = Tail(s)
    BY DEF TypeInv, ManagerTypes
  <1>2. /\ Tail(s) \in Seq(Queries) /\ Len(Tail(s)) = Len(s) - 1
        /\ \A i \in 1 .. Len(Tail(s)) : Tail(s)[i] = s[i + 1]
    BY <1>1
  <1>3. \A j \in Kernels \ {k} : queryQueue'[j] = queryQueue[j]
    BY DEF TypeInv, ManagerTypes
  <1>4. queryQueue' \in [Kernels -> Seq(Queries)]
    BY <1>2 DEF TypeInv, ManagerTypes
  <1>5. \A i \in 1 .. Len(queryQueue'[k]) :
          \E h \in 1 .. Len(queryQueue[k]) : queryQueue'[k][i] = queryQueue[k][h]
    <2> SUFFICES ASSUME NEW i \in 1 .. Len(Tail(s))
                 PROVE  \E h \in 1 .. Len(s) : Tail(s)[i] = s[h]
      BY <1>1
    <2>1. i + 1 \in 1 .. Len(s) /\ Tail(s)[i] = s[i + 1]
      BY <1>1, <1>2
    <2> QED BY <2>1
  <1>6. QED BY <1>3, <1>4, <1>5

(* A query is put at the end of its kernel's queue.                        *)
LEMMA QueueGrows ==
  ASSUME TypeInv, NEW k \in Kernels, NEW q \in Queries,
         queryQueue' = [queryQueue EXCEPT ![k] = Append(@, q)]
  PROVE  /\ queryQueue' \in [Kernels -> Seq(Queries)]
         /\ \A j \in Kernels \ {k} : queryQueue'[j] = queryQueue[j]
         /\ \A i \in 1 .. Len(queryQueue'[k]) :
              \/ queryQueue'[k][i] = q
              \/ i \in 1 .. Len(queryQueue[k]) /\ queryQueue'[k][i] = queryQueue[k][i]
         /\ queryQueue[k] # <<>> =>
              queryQueue'[k] # <<>> /\ Head(queryQueue'[k]) = Head(queryQueue[k])
  <1> DEFINE s == queryQueue[k]
  <1>1. s \in Seq(Queries) /\ queryQueue'[k] = Append(s, q)
    BY DEF TypeInv, ManagerTypes
  <1>2. /\ Append(s, q) \in Seq(Queries)
        /\ \A i \in 1 .. Len(Append(s, q)) :
             Append(s, q)[i] = q \/ (i \in 1 .. Len(s) /\ Append(s, q)[i] = s[i])
        /\ s # <<>> => Append(s, q) # <<>> /\ Head(Append(s, q)) = Head(s)
    BY <1>1
  <1>3. QED BY <1>1, <1>2 DEF TypeInv, ManagerTypes

(* The manager's variables keep their types.                               *)
LEMMA ManagerTyped ==
  ASSUME TypeInv, StageInv, Next PROVE ManagerTypes'
  <1>1. ASSUME NEW k \in Kernels, Spawn(k) PROVE ManagerTypes'
    BY <1>1 DEF Spawn, queryVars, TypeInv, ManagerTypes
  <1>2. ASSUME NEW k \in Kernels, BecomesReady(k) PROVE ManagerTypes'
    BY <1>2 DEF BecomesReady, queryVars, TypeInv, ManagerTypes
  <1>3. ASSUME NEW k \in Kernels, ProcessExits(k) PROVE ManagerTypes'
    <2>1. exec' \in [Execs -> ExecRecord]
      BY <1>3, Settles DEF ProcessExits, HeardCrash, TypeInv, ManagerTypes
    <2>2. QED BY <1>3, <2>1 DEF ProcessExits, queryVars, TypeInv, ManagerTypes
  <1>4. ASSUME NEW k \in Kernels, BeginStop(k) PROVE ManagerTypes'
    BY <1>4 DEF BeginStop, queryVars, TypeInv, ManagerTypes
  <1>5. ASSUME NEW k \in Kernels, EndStop(k) PROVE ManagerTypes'
    BY <1>5 DEF EndStop, TypeInv, ManagerTypes
  <1>6. ASSUME NEW x \in Execs, NEW k \in Kernels, Execute(x, k) PROVE ManagerTypes'
    <2>1. /\ [kernel |-> k, state |-> "running", armed |-> TRUE] \in ExecRecord
          /\ [kernel |-> k, state |-> "settled", armed |-> FALSE] \in ExecRecord
      BY SessionAssumption DEF ExecRecord, Kernels
    <2>2. exec' \in [Execs -> ExecRecord]
      BY <1>6, <2>1 DEF Execute, TypeInv, ManagerTypes
    <2>3. QED BY <1>6, <2>2 DEF Execute, processVars, queryVars, TypeInv, ManagerTypes
  <1>7. ASSUME NEW x \in Execs, ExecutionEnds(x) PROVE ManagerTypes'
    BY <1>7, Settles DEF ExecutionEnds, processVars, queryVars, TypeInv, ManagerTypes
  <1>8. ASSUME NEW q \in Queries, queryRouter # NoKernel, Ask(q, queryRouter)
        PROVE  ManagerTypes'
    <2>1. queryQueue' \in [Kernels -> Seq(Queries)]
      BY <1>8, QueueGrows DEF Ask, TypeInv, ManagerTypes
    <2>2. QED BY <1>8, <2>1 DEF Ask, processVars, TypeInv, ManagerTypes
  <1>9. ASSUME NEW q \in Queries, NEW k \in Kernels, QuerySends(q, k) PROVE ManagerTypes'
    BY <1>9 DEF QuerySends, processVars, TypeInv, ManagerTypes
  <1>10. ASSUME NEW q \in Queries, NEW k \in Kernels, QueryAnswered(q, k) PROVE ManagerTypes'
    <2>1. queryQueue' \in [Kernels -> Seq(Queries)]
      BY <1>10, QueuePops DEF QueryAnswered, AtHead
    <2>2. QED BY <1>10, <2>1 DEF QueryAnswered, processVars, TypeInv, ManagerTypes
  <1>11. ASSUME NEW q \in Queries, NEW k \in Kernels, QueryBreaks(q, k) PROVE ManagerTypes'
    <2>1. queryQueue' \in [Kernels -> Seq(Queries)]
      BY <1>11, QueuePops DEF QueryBreaks, AtHead, TypeInv, ManagerTypes
    <2>2. QED BY <1>11, <2>1 DEF QueryBreaks, processVars, TypeInv, ManagerTypes
  <1>12. ASSUME NEW q \in Queries, NEW k \in Kernels, QueryRecovers(q, k) PROVE ManagerTypes'
    <2>1. queryQueue' \in [Kernels -> Seq(Queries)]
      BY <1>12, QueuePops DEF QueryRecovers, AtHead
    <2>2. QED BY <1>12, <2>1 DEF QueryRecovers, processVars, TypeInv, ManagerTypes
  <1>13. ASSUME UNCHANGED managerVars PROVE ManagerTypes'
    BY <1>13 DEF managerVars, processVars, execVars, queryVars, TypeInv, ManagerTypes
  <1>14. ASSUME NEW k \in Kernels, Lists(k), hosted = {} PROVE ManagerTypes'
    BY <1>14 DEF Lists, TypeInv, ManagerTypes
  <1>15. ASSUME NEW k \in Kernels, Interrupt(k) PROVE ManagerTypes'
    BY <1>15 DEF Interrupt, queryVars, TypeInv, ManagerTypes
  <1> QED BY ManagerSteps, <1>1, <1>2, <1>3, <1>4, <1>5, <1>6, <1>7, <1>8, <1>9, <1>10,
    <1>11, <1>12, <1>13, <1>14, <1>15 DEF ManagerStep, ExecStep, QueryStep, QueryTurn

(* No execution that waits for a kernel nobody stops loses its listener    *)
(* while that kernel lives.                                                *)
LEMMA ExecKept ==
  ASSUME TypeInv, StageInv, KernelsInv, ExecInv, Next PROVE ExecInv'
  <1>1. ASSUME NEW k \in Kernels, Spawn(k) PROVE ExecInv'
    BY <1>1 DEF Spawn, ExecInv, Running, Living, TypeInv, ManagerTypes
  <1>2. ASSUME NEW k \in Kernels, BecomesReady(k) PROVE ExecInv'
    BY <1>2 DEF BecomesReady, ExecInv, Running, Living
  <1>3. ASSUME NEW k \in Kernels, ProcessExits(k) PROVE ExecInv'
    <2> SUFFICES ASSUME NEW x \in Execs, Running(x)', exec'[x].kernel \notin stopping'
                 PROVE  /\ exec'[x].kernel \in hosted'
                        /\ \/ proc'[exec'[x].kernel] = "lost"
                           \/ exec'[x].kernel \in Living' /\ exec'[x].armed
      BY DEF ExecInv
    <2>1. /\ UNCHANGED <<stopping, hosted>> /\ k \in Kernels
          /\ \A j \in Kernels \ {k} : proc'[j] = proc[j] /\ (j \in Living => j \in Living')
      BY <1>3 DEF ProcessExits, Living, TypeInv, ManagerTypes
    <2>2. CASE Crashes(k)
      <3>1. exec'[x] = IF ~Running(x) \/ ~exec[x].armed THEN exec[x]
                       ELSE IF exec[x].kernel = k THEN Settled(x)
                       ELSE [exec[x] EXCEPT !.armed = FALSE]
        BY <1>3, <2>2 DEF ProcessExits, HeardCrash
      <3>2. exec'[x].kernel = exec[x].kernel /\ Running(x)
        BY <3>1, Settles DEF TypeInv, ManagerTypes, ExecRecord, Running, Settled
      <3>3. exec[x].kernel = k
        BY <2>1, <2>2, <3>2 DEF ExecInv, KernelsInv, Crashes
      <3>4. ~exec[x].armed
        BY <3>1, <3>2, <3>3, Settles DEF Running
      <3>5. proc[k] = "lost"
        BY <2>1, <3>2, <3>3, <3>4 DEF ExecInv
      <3>6. QED BY <1>3, <3>5 DEF ProcessExits, Living
    <2>3. CASE ~Crashes(k)
      <3>1. exec'[x] = exec[x] /\ Running(x)
        BY <1>3, <2>3 DEF ProcessExits, Running
      <3>2. exec[x].kernel \in hosted /\ exec[x].kernel # k
        BY <2>1, <2>3, <3>1 DEF ExecInv, Crashes
      <3>3. QED BY <2>1, <3>1, <3>2 DEF ExecInv, TypeInv, ManagerTypes
    <2>4. QED BY <2>2, <2>3
  <1>4. ASSUME NEW k \in Kernels, BeginStop(k) PROVE ExecInv'
    BY <1>4 DEF BeginStop, ExecInv, Running, Living
  <1>5. ASSUME NEW k \in Kernels, EndStop(k) PROVE ExecInv'
    BY <1>5 DEF EndStop, ExecInv, Running, Living
  <1>6. ASSUME NEW x \in Execs, NEW k \in Kernels, Execute(x, k) PROVE ExecInv'
    <2>1. \A y \in Execs \ {x} : exec'[y] = exec[y]
      BY <1>6 DEF Execute
    <2>2. UNCHANGED <<proc, hosted, stopping>> /\ Living' = Living
      BY <1>6 DEF Execute, processVars, Living
    <2>3. CASE k \in hosted /\ proc[k] # "gone"
      <3>1. exec'[x] = [kernel |-> k, state |-> "running", armed |-> TRUE]
        BY <1>6, <2>3 DEF Execute, TypeInv, ManagerTypes
      <3>2. proc[k] = "lost" \/ k \in Living
        BY <2>3 DEF KernelsInv, Living, TypeInv, ManagerTypes
      <3>3. QED BY <2>1, <2>2, <2>3, <3>1, <3>2 DEF ExecInv, Running
    <2>4. CASE ~(k \in hosted /\ proc[k] # "gone")
      <3>1. exec'[x].state = "settled"
        BY <1>6, <2>4 DEF Execute, TypeInv, ManagerTypes
      <3>2. QED BY <2>1, <2>2, <3>1 DEF ExecInv, Running
    <2>5. QED BY <2>3, <2>4
  <1>7. ASSUME NEW x \in Execs, ExecutionEnds(x) PROVE ExecInv'
    BY <1>7 DEF ExecutionEnds, Settled, Running, processVars, ExecInv, Living
  <1>8. ASSUME NEW q \in Queries, queryRouter # NoKernel, Ask(q, queryRouter) PROVE ExecInv'
    BY <1>8 DEF Ask, processVars, ExecInv, Running, Living
  <1>9. ASSUME NEW q \in Queries, NEW k \in Kernels, QuerySends(q, k) PROVE ExecInv'
    BY <1>9 DEF QuerySends, processVars, ExecInv, Running, Living
  <1>10. ASSUME NEW q \in Queries, NEW k \in Kernels, QueryAnswered(q, k) PROVE ExecInv'
    BY <1>10 DEF QueryAnswered, processVars, ExecInv, Running, Living
  <1>11. ASSUME NEW q \in Queries, NEW k \in Kernels, QueryBreaks(q, k) PROVE ExecInv'
    BY <1>11 DEF QueryBreaks, processVars, ExecInv, Running, Living
  <1>12. ASSUME NEW q \in Queries, NEW k \in Kernels, QueryRecovers(q, k) PROVE ExecInv'
    BY <1>12 DEF QueryRecovers, processVars, ExecInv, Running, Living
  <1>13. ASSUME UNCHANGED managerVars PROVE ExecInv'
    BY <1>13 DEF managerVars, processVars, execVars, ExecInv, Running, Living
  <1>14. ASSUME NEW k \in Kernels, Lists(k), hosted = {} PROVE ExecInv'
    BY <1>14 DEF Lists, ExecInv, Running, Living, TypeInv, ManagerTypes
  <1>15. ASSUME NEW k \in Kernels, Interrupt(k) PROVE ExecInv'
    BY <1>15 DEF Interrupt, ExecInv, Running, Living
  <1> QED BY ManagerSteps, <1>1, <1>2, <1>3, <1>4, <1>5, <1>6, <1>7, <1>8, <1>9, <1>10,
    <1>11, <1>12, <1>13, <1>14, <1>15 DEF ManagerStep, ExecStep, QueryStep, QueryTurn

(* The query channel: a query never enters a second queue, and who awaits  *)
(* a reply is at the head.                                                 *)
LEMMA QueueKept ==
  ASSUME TypeInv, StageInv, KernelsInv, QueueInv, Next PROVE QueueInv'
  <1>1. ASSUME NEW k \in Kernels, Spawn(k) PROVE QueueInv'
    BY <1>1 DEF Spawn, queryVars, QueueInv
  <1>2. ASSUME NEW k \in Kernels, BecomesReady(k) PROVE QueueInv'
    BY <1>2 DEF BecomesReady, queryVars, QueueInv
  <1>3. ASSUME NEW k \in Kernels, ProcessExits(k) PROVE QueueInv'
    BY <1>3 DEF ProcessExits, queryVars, QueueInv
  <1>4. ASSUME NEW k \in Kernels, BeginStop(k) PROVE QueueInv'
    BY <1>4 DEF BeginStop, queryVars, QueueInv
  <1>5. ASSUME NEW k \in Kernels, EndStop(k) PROVE QueueInv'
    BY <1>5 DEF EndStop, QueueInv
  <1>6. ASSUME NEW x \in Execs, NEW k \in Kernels, Execute(x, k) PROVE QueueInv'
    BY <1>6 DEF Execute, processVars, queryVars, QueueInv
  <1>7. ASSUME NEW x \in Execs, ExecutionEnds(x) PROVE QueueInv'
    BY <1>7 DEF ExecutionEnds, processVars, queryVars, QueueInv
  <1>8. ASSUME NEW q \in Queries, queryRouter # NoKernel, Ask(q, queryRouter) PROVE QueueInv'
    <2> DEFINE k == queryRouter
    <2>1. /\ k \in Kernels /\ query[q] = "new" /\ query' = [query EXCEPT ![q] = "queued"]
          /\ UNCHANGED <<stopping, socket>>
      BY <1>8 DEF Ask, processVars, TypeInv, ManagerTypes
    <2>2. /\ \A j \in Kernels \ {k} : queryQueue'[j] = queryQueue[j]
          /\ \A i \in 1 .. Len(queryQueue'[k]) :
               \/ queryQueue'[k][i] = q
               \/ i \in 1 .. Len(queryQueue[k]) /\ queryQueue'[k][i] = queryQueue[k][i]
          /\ queryQueue[k] # <<>> =>
               queryQueue'[k] # <<>> /\ Head(queryQueue'[k]) = Head(queryQueue[k])
      BY <1>8, <2>1, QueueGrows DEF Ask
    <2>3. \A j \in Kernels : \A i \in 1 .. Len(queryQueue[j]) :
            queryQueue[j][i] \in Queries \ {q} /\ query[queryQueue[j][i]] # "new"
      BY <2>1 DEF QueueInv, TypeInv, ManagerTypes
    <2>4. ASSUME NEW j \in Kernels, NEW i \in 1 .. Len(queryQueue'[j])
          PROVE  \/ j = k /\ queryQueue'[j][i] = q
                 \/ i \in 1 .. Len(queryQueue[j]) /\ queryQueue'[j][i] = queryQueue[j][i]
      BY <2>2, <2>4
    <2>5. \A j \in Kernels : \A i \in 1 .. Len(queryQueue'[j]) : query'[queryQueue'[j][i]] # "new"
      <3> SUFFICES ASSUME NEW j \in Kernels, NEW i \in 1 .. Len(queryQueue'[j])
                   PROVE  query'[queryQueue'[j][i]] # "new"
        OBVIOUS
      <3>1. query'[q] = "queued" /\ \A p \in Queries \ {q} : query'[p] = query[p]
        BY <2>1 DEF TypeInv, ManagerTypes
      <3>2. QED BY <2>3, <2>4, <3>1
    <2>6. \A j, m \in Kernels : j # m =>
            \A i \in 1 .. Len(queryQueue'[j]), h \in 1 .. Len(queryQueue'[m]) :
              queryQueue'[j][i] # queryQueue'[m][h]
      <3> SUFFICES ASSUME NEW j \in Kernels, NEW m \in Kernels, j # m,
                          NEW i \in 1 .. Len(queryQueue'[j]),
                          NEW h \in 1 .. Len(queryQueue'[m])
                   PROVE  queryQueue'[j][i] # queryQueue'[m][h]
        OBVIOUS
      <3>1. \/ j = k /\ queryQueue'[j][i] = q
            \/ i \in 1 .. Len(queryQueue[j]) /\ queryQueue'[j][i] = queryQueue[j][i]
        BY <2>4
      <3>2. \/ m = k /\ queryQueue'[m][h] = q
            \/ h \in 1 .. Len(queryQueue[m]) /\ queryQueue'[m][h] = queryQueue[m][h]
        BY <2>4
      <3>3. QED BY <2>3, <3>1, <3>2 DEF QueueInv
    <2>7. ASSUME NEW j \in Kernels, socket'[j] = "awaiting", j \notin stopping'
          PROVE  queryQueue'[j] # <<>> /\ query'[Head(queryQueue'[j])] = "sent"
      <3>1. /\ queryQueue[j] # <<>> /\ query[Head(queryQueue[j])] = "sent"
            /\ Head(queryQueue[j]) \in Queries
        BY <2>1, <2>7 DEF QueueInv, TypeInv, ManagerTypes
      <3>2. queryQueue'[j] # <<>> /\ Head(queryQueue'[j]) = Head(queryQueue[j])
        BY <2>2, <3>1
      <3>3. QED BY <3>1, <3>2, <2>1 DEF TypeInv, ManagerTypes
    <2>8. QED BY <2>5, <2>6, <2>7 DEF QueueInv
  <1>9. ASSUME NEW q \in Queries, NEW k \in Kernels, QuerySends(q, k) PROVE QueueInv'
    BY <1>9 DEF QuerySends, processVars, TypeInv, ManagerTypes, QueueInv, AtHead
  <1>10. ASSUME NEW q \in Queries, NEW k \in Kernels, QueryAnswered(q, k) PROVE QueueInv'
    <2>1. /\ \A j \in Kernels \ {k} : queryQueue'[j] = queryQueue[j]
          /\ \A j \in Kernels : \A i \in 1 .. Len(queryQueue'[j]) :
               \E h \in 1 .. Len(queryQueue[j]) : queryQueue'[j][i] = queryQueue[j][h]
      BY <1>10, QueuePops DEF QueryAnswered, AtHead
    <2>2. /\ k \in Kernels /\ queryQueue[k] # <<>> /\ Head(queryQueue[k]) = q
          /\ q = queryQueue[k][1] /\ 1 \in 1 .. Len(queryQueue[k])
      BY <1>10 DEF QueryAnswered, AtHead
    <2>3. /\ \A p \in Queries : query[p] # "new" => query'[p] # "new"
          /\ \A p \in Queries \ {q} : query'[p] = query[p]
      BY <1>10 DEF QueryAnswered, TypeInv, ManagerTypes
    <2>4. \A j \in Kernels : \A i \in 1 .. Len(queryQueue'[j]) : query'[queryQueue'[j][i]] # "new"
      <3> SUFFICES ASSUME NEW j \in Kernels, NEW i \in 1 .. Len(queryQueue'[j])
                   PROVE  query'[queryQueue'[j][i]] # "new"
        OBVIOUS
      <3>1. PICK h \in 1 .. Len(queryQueue[j]) : queryQueue'[j][i] = queryQueue[j][h]
        BY <2>1
      <3>2. queryQueue[j][h] \in Queries /\ query[queryQueue[j][h]] # "new"
        BY DEF QueueInv, TypeInv, ManagerTypes
      <3>3. QED BY <2>3, <3>1, <3>2
    <2>5. \A j, m \in Kernels : j # m =>
            \A i \in 1 .. Len(queryQueue'[j]), h \in 1 .. Len(queryQueue'[m]) :
              queryQueue'[j][i] # queryQueue'[m][h]
      BY <2>1, <2>2 DEF QueueInv, TypeInv, ManagerTypes
    <2>6. ASSUME NEW j \in Kernels, socket'[j] = "awaiting", j \notin stopping'
          PROVE  queryQueue'[j] # <<>> /\ query'[Head(queryQueue'[j])] = "sent"
      <3>1. j # k /\ socket[j] = "awaiting" /\ j \notin stopping
        BY <1>10, <2>6 DEF QueryAnswered, processVars, TypeInv, ManagerTypes
      <3>2. /\ queryQueue[j] # <<>> /\ query[Head(queryQueue[j])] = "sent"
            /\ Head(queryQueue[j]) = queryQueue[j][1] /\ 1 \in 1 .. Len(queryQueue[j])
            /\ Head(queryQueue[j]) \in Queries
        BY <3>1 DEF QueueInv, TypeInv, ManagerTypes
      <3>3. Head(queryQueue[j]) # q
        BY <3>1, <3>2, <2>2 DEF QueueInv
      <3>4. QED BY <3>1, <3>2, <3>3, <2>1, <2>3
    <2>7. QED BY <2>4, <2>5, <2>6 DEF QueueInv
  <1>11. ASSUME NEW q \in Queries, NEW k \in Kernels, QueryBreaks(q, k) PROVE QueueInv'
    <2>1. /\ \A j \in Kernels \ {k} : queryQueue'[j] = queryQueue[j]
          /\ \A j \in Kernels : \A i \in 1 .. Len(queryQueue'[j]) :
               \E h \in 1 .. Len(queryQueue[j]) : queryQueue'[j][i] = queryQueue[j][h]
      BY <1>11, QueuePops DEF QueryBreaks, AtHead
    <2>2. /\ k \in Kernels /\ queryQueue[k] # <<>> /\ Head(queryQueue[k]) = q
          /\ q = queryQueue[k][1] /\ 1 \in 1 .. Len(queryQueue[k])
      BY <1>11 DEF QueryBreaks, AtHead
    <2>3. /\ \A p \in Queries : query[p] # "new" => query'[p] # "new"
          /\ \A p \in Queries \ {q} : query'[p] = query[p]
      BY <1>11 DEF QueryBreaks, TypeInv, ManagerTypes
    <2>4. \A j \in Kernels : \A i \in 1 .. Len(queryQueue'[j]) : query'[queryQueue'[j][i]] # "new"
      <3> SUFFICES ASSUME NEW j \in Kernels, NEW i \in 1 .. Len(queryQueue'[j])
                   PROVE  query'[queryQueue'[j][i]] # "new"
        OBVIOUS
      <3>1. PICK h \in 1 .. Len(queryQueue[j]) : queryQueue'[j][i] = queryQueue[j][h]
        BY <2>1
      <3>2. queryQueue[j][h] \in Queries /\ query[queryQueue[j][h]] # "new"
        BY DEF QueueInv, TypeInv, ManagerTypes
      <3>3. QED BY <2>3, <3>1, <3>2
    <2>5. \A j, m \in Kernels : j # m =>
            \A i \in 1 .. Len(queryQueue'[j]), h \in 1 .. Len(queryQueue'[m]) :
              queryQueue'[j][i] # queryQueue'[m][h]
      BY <2>1, <2>2 DEF QueueInv, TypeInv, ManagerTypes
    <2>6. ASSUME NEW j \in Kernels, socket'[j] = "awaiting", j \notin stopping'
          PROVE  queryQueue'[j] # <<>> /\ query'[Head(queryQueue'[j])] = "sent"
      <3>1. j # k /\ socket[j] = "awaiting" /\ j \notin stopping
        BY <1>11, <2>6 DEF QueryBreaks, SocketIsKept, processVars, TypeInv, ManagerTypes
      <3>2. /\ queryQueue[j] # <<>> /\ query[Head(queryQueue[j])] = "sent"
            /\ Head(queryQueue[j]) = queryQueue[j][1] /\ 1 \in 1 .. Len(queryQueue[j])
            /\ Head(queryQueue[j]) \in Queries
        BY <3>1 DEF QueueInv, TypeInv, ManagerTypes
      <3>3. Head(queryQueue[j]) # q
        BY <3>1, <3>2, <2>2 DEF QueueInv
      <3>4. QED BY <3>1, <3>2, <3>3, <2>1, <2>3
    <2>7. QED BY <2>4, <2>5, <2>6 DEF QueueInv
  <1>12. ASSUME NEW q \in Queries, NEW k \in Kernels, QueryRecovers(q, k) PROVE QueueInv'
    <2>1. /\ \A j \in Kernels \ {k} : queryQueue'[j] = queryQueue[j]
          /\ \A j \in Kernels : \A i \in 1 .. Len(queryQueue'[j]) :
               \E h \in 1 .. Len(queryQueue[j]) : queryQueue'[j][i] = queryQueue[j][h]
      BY <1>12, QueuePops DEF QueryRecovers, AtHead
    <2>2. /\ k \in Kernels /\ queryQueue[k] # <<>> /\ Head(queryQueue[k]) = q
          /\ q = queryQueue[k][1] /\ 1 \in 1 .. Len(queryQueue[k])
      BY <1>12 DEF QueryRecovers, AtHead
    <2>3. /\ \A p \in Queries : query[p] # "new" => query'[p] # "new"
          /\ \A p \in Queries \ {q} : query'[p] = query[p]
      BY <1>12 DEF QueryRecovers, TypeInv, ManagerTypes
    <2>4. \A j \in Kernels : \A i \in 1 .. Len(queryQueue'[j]) : query'[queryQueue'[j][i]] # "new"
      <3> SUFFICES ASSUME NEW j \in Kernels, NEW i \in 1 .. Len(queryQueue'[j])
                   PROVE  query'[queryQueue'[j][i]] # "new"
        OBVIOUS
      <3>1. PICK h \in 1 .. Len(queryQueue[j]) : queryQueue'[j][i] = queryQueue[j][h]
        BY <2>1
      <3>2. queryQueue[j][h] \in Queries /\ query[queryQueue[j][h]] # "new"
        BY DEF QueueInv, TypeInv, ManagerTypes
      <3>3. QED BY <2>3, <3>1, <3>2
    <2>5. \A j, m \in Kernels : j # m =>
            \A i \in 1 .. Len(queryQueue'[j]), h \in 1 .. Len(queryQueue'[m]) :
              queryQueue'[j][i] # queryQueue'[m][h]
      BY <2>1, <2>2 DEF QueueInv, TypeInv, ManagerTypes
    <2>6. ASSUME NEW j \in Kernels, socket'[j] = "awaiting", j \notin stopping'
          PROVE  queryQueue'[j] # <<>> /\ query'[Head(queryQueue'[j])] = "sent"
      <3>1. j # k /\ socket[j] = "awaiting" /\ j \notin stopping
        BY <1>12, <2>6 DEF QueryRecovers, processVars, TypeInv, ManagerTypes
      <3>2. /\ queryQueue[j] # <<>> /\ query[Head(queryQueue[j])] = "sent"
            /\ Head(queryQueue[j]) = queryQueue[j][1] /\ 1 \in 1 .. Len(queryQueue[j])
            /\ Head(queryQueue[j]) \in Queries
        BY <3>1 DEF QueueInv, TypeInv, ManagerTypes
      <3>3. Head(queryQueue[j]) # q
        BY <3>1, <3>2, <2>2 DEF QueueInv
      <3>4. QED BY <3>1, <3>2, <3>3, <2>1, <2>3
    <2>7. QED BY <2>4, <2>5, <2>6 DEF QueueInv
  <1>13. ASSUME UNCHANGED managerVars PROVE QueueInv'
    BY <1>13 DEF managerVars, processVars, queryVars, QueueInv
  <1>14. ASSUME NEW k \in Kernels, Lists(k), hosted = {} PROVE QueueInv'
    BY <1>14 DEF Lists, QueueInv, TypeInv, ManagerTypes
  <1>15. ASSUME NEW k \in Kernels, Interrupt(k) PROVE QueueInv'
    BY <1>15 DEF Interrupt, queryVars, QueueInv
  <1> QED BY ManagerSteps, <1>1, <1>2, <1>3, <1>4, <1>5, <1>6, <1>7, <1>8, <1>9, <1>10,
    <1>11, <1>12, <1>13, <1>14, <1>15 DEF ManagerStep, ExecStep, QueryStep, QueryTurn

(* A message that moves on keeps its kernel.                               *)
LEMMA MessageMoves ==
  ASSUME TypeInv, NEW r \in Requests, NEW at \in Places, message' = Moved(r, at)
  PROVE  /\ message' \in [Requests -> MessageRecord]
         /\ \A s \in Requests : message'[s].at = IF s = r THEN at ELSE message[s].at
  <1>1. [message[r] EXCEPT !.at = at] \in MessageRecord
    BY DEF TypeInv, RouterTypes, MessageRecord
  <1>2. message' = [message EXCEPT ![r] = [message[r] EXCEPT !.at = at]]
    BY DEF Moved
  <1>3. QED BY <1>1, <1>2 DEF TypeInv, RouterTypes, MessageRecord

(* A request that is made puts its message in the queue of the attached    *)
(* kernel.                                                                 *)
LEMMA MessageQueues ==
  ASSUME TypeInv, NEW r \in Requests,
         message' = [message EXCEPT ![r] = [kernel |-> router, at |-> "queue"]]
  PROVE  /\ message' \in [Requests -> MessageRecord]
         /\ message'[r].at = "queue" /\ \A s \in Requests \ {r} : message'[s] = message[s]
  <1>1. [kernel |-> router, at |-> "queue"] \in MessageRecord
    BY DEF TypeInv, RouterTypes, MessageRecord, Places
  <1>2. QED BY <1>1 DEF TypeInv, RouterTypes

(* What a router or the session can lead to is a kernel number.            *)
LEMMA KernelNumbers ==
  ASSUME TypeInv PROVE {router, queryRouter, active, NoKernel} \cup hosted \subseteq 0 .. MaxKernels
  <1>1. Kernels \subseteq 0 .. MaxKernels /\ NoKernel \in 0 .. MaxKernels
    BY SessionAssumption DEF Kernels, NoKernel
  <1>2. QED BY <1>1 DEF TypeInv, RouterTypes, ManagerTypes, LifeTypes

(* The routers' variables keep their types, and a timer runs while its     *)
(* request is pending.                                                     *)
LEMMA RouterTyped ==
  ASSUME TypeInv, StageInv, Next PROVE RouterTypes'
  <1>1. ASSUME NEW r \in Requests, Request(r) PROVE RouterTypes'
    BY <1>1, SessionAssumption, MessageMoves, MessageQueues
    DEF Request, TypeInv, RouterTypes
  <1>2. ASSUME NEW r \in Requests, KernelTakes(r) PROVE RouterTypes'
    BY <1>2, SessionAssumption, MessageMoves, MessageQueues
    DEF KernelTakes, KeepRouting, promiseVars, TypeInv, RouterTypes, Places
  <1>3. ASSUME NEW r \in Requests, SendFails(r) PROVE RouterTypes'
    BY <1>3, SessionAssumption, MessageMoves, MessageQueues
    DEF SendFails, Settle, TypeInv, RouterTypes, Places
  <1>4. ASSUME NEW r \in Requests, KernelAnswers(r) PROVE RouterTypes'
    BY <1>4, SessionAssumption, MessageMoves, MessageQueues
    DEF KernelAnswers, KeepRouting, promiseVars, TypeInv, RouterTypes, Places
  <1>5. ASSUME NEW r \in Requests, NEW how \in {"ok", "failed"}, RouterHears(r, how)
        PROVE  RouterTypes'
    BY <1>5, SessionAssumption, MessageMoves, MessageQueues
    DEF RouterHears, Settle, promiseVars, TypeInv, RouterTypes, Places
  <1>6. ASSUME NEW r \in Requests, HearsProgress(r) PROVE RouterTypes'
    BY <1>6, SessionAssumption, MessageMoves, MessageQueues
    DEF HearsProgress, AfterProgress, messageVars, TypeInv, RouterTypes
  <1>7. ASSUME NEW r \in Requests, RequestTimesOut(r) PROVE RouterTypes'
    BY <1>7, SessionAssumption, MessageMoves, MessageQueues
    DEF RequestTimesOut, Settle, messageVars, TypeInv, RouterTypes
  <1>8. ASSUME UNCHANGED messageVars, Settle(Pending, "failed"),
               router' \in {router, queryRouter, NoKernel} \cup hosted,
               queryRouter' \in {router, queryRouter, NoKernel} \cup hosted
        PROVE  RouterTypes'
    <2>1. router' \in 0 .. MaxKernels /\ queryRouter' \in 0 .. MaxKernels
      BY <1>8, KernelNumbers
    <2>2. QED BY <1>8, <2>1 DEF Settle, messageVars, TypeInv, RouterTypes
  <1>9. ASSUME UNCHANGED messageVars, UNCHANGED promiseVars,
               router' \in {router, queryRouter, NoKernel} \cup hosted,
               queryRouter' \in {router, queryRouter, NoKernel} \cup hosted
        PROVE  RouterTypes'
    <2>1. router' \in 0 .. MaxKernels /\ queryRouter' \in 0 .. MaxKernels
      BY <1>9, KernelNumbers
    <2>2. QED BY <1>9, <2>1 DEF promiseVars, messageVars, TypeInv, RouterTypes
  <1> QED BY RoutersSteps, <1>1, <1>2, <1>3, <1>4, <1>5, <1>6, <1>7, <1>8, <1>9 DEF
    RoutersStep, RouterStep

(* A message is handled only by a kernel that takes it out of the queue,   *)
(* which it enters once.                                                   *)
LEMMA MessageKept ==
  ASSUME TypeInv, StageInv, MessageInv, Next PROVE MessageInv'
  <1>1. ASSUME NEW r \in Requests, Request(r) PROVE MessageInv'
    BY <1>1, MessageMoves, MessageQueues DEF Request, TypeInv, RouterTypes, MessageInv
  <1>2. ASSUME NEW r \in Requests, KernelTakes(r) PROVE MessageInv'
    BY <1>2, MessageMoves, MessageQueues
    DEF KernelTakes, KeepRouting, promiseVars, TypeInv, RouterTypes, Places, MessageInv
  <1>3. ASSUME NEW r \in Requests, SendFails(r) PROVE MessageInv'
    BY <1>3, MessageMoves, MessageQueues DEF SendFails, Settle, Places, MessageInv
  <1>4. ASSUME NEW r \in Requests, KernelAnswers(r) PROVE MessageInv'
    BY <1>4, MessageMoves, MessageQueues
    DEF KernelAnswers, KeepRouting, promiseVars, Places, MessageInv
  <1>5. ASSUME NEW r \in Requests, NEW how \in {"ok", "failed"}, RouterHears(r, how)
        PROVE  MessageInv'
    BY <1>5, MessageMoves, MessageQueues
    DEF RouterHears, Settle, promiseVars, Places, MessageInv
  <1>6. ASSUME NEW r \in Requests, HearsProgress(r) PROVE MessageInv'
    BY <1>6, MessageMoves, MessageQueues DEF HearsProgress, messageVars, MessageInv
  <1>7. ASSUME NEW r \in Requests, RequestTimesOut(r) PROVE MessageInv'
    BY <1>7, MessageMoves, MessageQueues
    DEF RequestTimesOut, Settle, messageVars, MessageInv
  <1>8. ASSUME UNCHANGED messageVars, Settle(Pending, "failed"),
               router' \in {router, queryRouter, NoKernel} \cup hosted,
               queryRouter' \in {router, queryRouter, NoKernel} \cup hosted
        PROVE  MessageInv'
    BY <1>8, MessageMoves, MessageQueues DEF Settle, messageVars, MessageInv
  <1>9. ASSUME UNCHANGED messageVars, UNCHANGED promiseVars,
               router' \in {router, queryRouter, NoKernel} \cup hosted,
               queryRouter' \in {router, queryRouter, NoKernel} \cup hosted
        PROVE  MessageInv'
    BY <1>9, MessageMoves, MessageQueues DEF promiseVars, messageVars, MessageInv
  <1> QED BY RoutersSteps, <1>1, <1>2, <1>3, <1>4, <1>5, <1>6, <1>7, <1>8, <1>9 DEF
    RoutersStep, RouterStep

(* The generation never falls behind an agent, and while the two are the   *)
(* same the active kernel is the agent's.                                  *)
LEMMA AgentKept ==
  ASSUME TypeInv, StageInv, AgentInv, Next PROVE AgentInv' /\ generation' \in Nat
  <1>1. ASSUME UNCHANGED mcp, KeepActive PROVE AgentInv' /\ generation' \in Nat
    BY <1>1 DEF KeepActive, AgentInv, TypeInv, LifeTypes
  <1>2. ASSUME UNCHANGED mcp, NEW k \in hosted \cup {NoKernel}, SetActive(k)
        PROVE  AgentInv' /\ generation' \in Nat
    <2>1. mcp.generation \in Nat /\ mcp.kernel \in 0 .. MaxKernels
      BY DEF TypeInv, LifeTypes, AgentRecord
    <2>2. CASE active # NoKernel /\ active # k
      BY <1>2, <2>1, <2>2 DEF SetActive, ShouldBumpOnSwap, AgentInv, TypeInv, LifeTypes
    <2>3. CASE active = NoKernel \/ active = k
      BY <1>2, <2>1, <2>3 DEF SetActive, ShouldBumpOnSwap, AgentInv
    <2>4. QED BY <2>2, <2>3
  <1>3. ASSUME NEW full \in BOOLEAN, ResetsSession(full)
        PROVE  AgentInv' /\ generation' \in Nat
    <2>1. mcp' \in AgentRecord /\ mcp'.generation = mcp.generation /\ mcp'.outdated
      BY <1>3 DEF ResetsSession, TypeInv, LifeTypes, AgentRecord
    <2>2. QED BY <1>3, <2>1 DEF ResetsSession, AgentInv, TypeInv, LifeTypes
  <1>4. ASSUME AgentConnects PROVE AgentInv' /\ generation' \in Nat
    BY <1>4 DEF AgentConnects, AgentInv, TypeInv, LifeTypes
  <1> QED BY AgentSteps, <1>1, <1>2, <1>3, <1>4 DEF AgentStep

(* The handlers' variables keep their types.                               *)
LEMMA LifeTyped ==
  ASSUME TypeInv, StageInv, AgentInv, Next PROVE LifeTypes'
  <1>1. call' \in [Calls -> CallRecord]
    <2>1. ASSUME NEW c \in Calls, NEW at \in Stages \ {"new", "waiting"}, GoesTo(c, at)
          PROVE  call' \in [Calls -> CallRecord]
      BY <2>1, Moves
    <2>2. ASSUME NEW c \in Calls, NEW k \in Kernels, Spawns(c, k)
          PROVE  call' \in [Calls -> CallRecord]
      BY <2>2, Spawned
    <2>3. ASSUME NEW c \in Calls, NEW kind \in {"start", "stop", "restart"},
                 NEW k \in Kernels \cup {NoKernel}, IsCalled(c, kind, k)
          PROVE  call' \in [Calls -> CallRecord]
      BY <2>3, Arrives
    <2>4. QED BY CallSteps, <2>1, <2>2, <2>3 DEF CallStep, TypeInv, LifeTypes
  <1>2. active' \in 0 .. MaxKernels
    BY AgentSteps, KernelNumbers
    DEF AgentStep, KeepActive, SetActive, ResetsSession, AgentConnects
  <1>3. mcp' \in AgentRecord
    <2>1. ASSUME NEW full \in BOOLEAN, ResetsSession(full) PROVE mcp' \in AgentRecord
      BY <2>1 DEF ResetsSession, TypeInv, LifeTypes, AgentRecord
    <2>2. ASSUME AgentConnects PROVE mcp' \in AgentRecord
      BY <2>2 DEF AgentConnects, TypeInv, LifeTypes, AgentRecord
    <2>3. QED BY AgentSteps, <2>1, <2>2 DEF AgentStep, TypeInv, LifeTypes
  <1>4. handlers' \subseteq Kernels /\ excused' \in BOOLEAN
    BY HandlersSteps DEF TypeInv, LifeTypes
  <1>5. QED BY <1>1, <1>2, <1>3, <1>4, AgentKept DEF LifeTypes

(* Whoever has the lock is alone between two steps of a handler.           *)
LEMMA Alone ==
  ASSUME TypeInv, LockInv, NEW c \in Calls, OnTurn(c), NEW d \in Calls, d # c
  PROVE  call[d].at \in Over \cup {"new", "waiting"}
  <1>1. CASE d < c
    BY <1>1 DEF OnTurn, HasLock, LockInv
  <1>2. CASE c < d
    BY <1>2 DEF OnTurn, LockInv
  <1>3. QED BY <1>1, <1>2, SessionAssumption DEF Calls

(* The lock is handed on in the order of the calls.                        *)
LEMMA LockKept ==
  ASSUME TypeInv, StageInv, LockInv, Next PROVE LockInv'
  <1>1. CASE UNCHANGED call
    BY <1>1 DEF LockInv
  <1>2. ASSUME NEW c \in Calls, NEW kind \in {"start", "stop", "restart"},
               NEW k \in Kernels \cup {NoKernel}, IsCalled(c, kind, k)
        PROVE  LockInv'
    BY <1>2, Arrives DEF LockInv, Over
  <1>3. ASSUME NEW c \in Calls, NEW at \in Stages \ {"new", "waiting"}, OnTurn(c), GoesTo(c, at)
        PROVE  LockInv'
    <2> SUFFICES ASSUME NEW b \in Calls, NEW d \in Calls, b < d,
                        call'[d].at \notin {"new", "waiting"}
                 PROVE  call'[b].at \in Over
      BY DEF LockInv
    <2>1. b # d /\ \A e \in Calls : e # c => call'[e].at = call[e].at
      BY <1>3, Moves, SessionAssumption DEF Calls
    <2>2. CASE d = c
      BY <1>3, <2>1, <2>2 DEF OnTurn, HasLock, LockInv
    <2>3. CASE d # c
      BY <1>3, <2>1, <2>3 DEF OnTurn, LockInv
    <2>4. QED BY <2>2, <2>3
  <1>4. ASSUME NEW c \in Calls, NEW k \in Kernels, OnTurn(c), Spawns(c, k) PROVE LockInv'
    BY <1>4, Spawned DEF LockInv, Over
  <1>5. QED BY CallSteps, <1>1, <1>2, <1>3, <1>4 DEF CallStep

(* Neither executions nor queries start or end a process.                  *)
LEMMA WorkIsNoProcess ==
  ASSUME ExecStep \/ QueryStep \/ UNCHANGED managerVars PROVE UNCHANGED processVars
  BY
  DEF ExecStep, ExecutionEnds, Execute, QueryStep, Ask, QueryTurn, QuerySends,
      QueryAnswered, QueryBreaks, QueryRecovers, managerVars

(* One kernel at most is hosted, and it alone may live.                    *)
LEMMA KernelsKept ==
  ASSUME TypeInv, StageInv, KernelsInv, Next PROVE KernelsInv'
  <1> USE DEF KernelsInv, Living, TypeInv, ManagerTypes
  <1>1. handlers' \subseteq handlers \cup {k \in Kernels : proc[k] = "up"}
    BY HandlersSteps
  <1>2. ASSUME NEW k \in Kernels, Spawn(k) PROVE KernelsInv'
    BY <1>1, <1>2 DEF Spawn
  <1>3. ASSUME NEW k \in Kernels, BecomesReady(k) PROVE KernelsInv'
    BY <1>1, <1>3 DEF BecomesReady
  <1>4. ASSUME NEW k \in Kernels, ProcessExits(k) PROVE KernelsInv'
    BY <1>1, <1>4 DEF ProcessExits
  <1>5. ASSUME NEW k \in Kernels, BeginStop(k) PROVE KernelsInv'
    BY <1>1, <1>5 DEF BeginStop
  <1>6. ASSUME NEW k \in Kernels, EndStop(k) PROVE KernelsInv'
    BY <1>1, <1>6 DEF EndStop
  <1>7. CASE UNCHANGED processVars
    BY <1>1, <1>7 DEF processVars
  <1>8. ASSUME NEW k \in Kernels, Lists(k), hosted = {} PROVE KernelsInv'
    BY <1>1, <1>8 DEF Lists
  <1>9. ASSUME NEW k \in Kernels, Interrupt(k) PROVE KernelsInv'
    BY <1>1, <1>9 DEF Interrupt
  <1>10. QED
    BY ManagerSteps, WorkIsNoProcess, <1>2, <1>3, <1>4, <1>5, <1>6, <1>7, <1>8, <1>9
    DEF ManagerStep

(* Whoever is not on its turn waits for nothing that could be disturbed.   *)
LEMMA Bystander ==
  ASSUME NEW d \in Calls, call'[d].at \in Over \cup {"new", "waiting"}
  PROVE  KindFits(d)' /\ KernelFits(d)' /\ RoutersFit(d)'
  BY DEF KindFits, KernelFits, RoutersFit, Over

(* A call is on its turn at each step of its handler, and no other call is *)
(* between two steps then.                                                 *)
LEMMA TurnMoves ==
  ASSUME TypeInv, LockInv, NEW c \in Calls, NEW at \in Stages, OnTurn(c), GoesTo(c, at)
  PROVE  /\ call'[c].at = at /\ call'[c].kind = call[c].kind /\ call'[c].fresh = call[c].fresh
         /\ \A d \in Calls \ {c} : call'[d].at \in Over \cup {"new", "waiting"}
  BY Moves, Alone

(* What a handler knows at an await holds whatever happens while it waits. *)
LEMMA StageKept ==
  ASSUME TypeInv, LockInv, KernelsInv, StageInv, Next PROVE StageInv'
  <1> SUFFICES ASSUME NEW d \in Calls PROVE KindFits(d)' /\ KernelFits(d)' /\ RoutersFit(d)'
    BY DEF StageInv
  <1> DEFINE Goal == KindFits(d)' /\ KernelFits(d)' /\ RoutersFit(d)'
  <1>1. ASSUME NEW c \in Calls, NEW kind \in {"start", "stop", "restart"},
               NEW k \in Kernels \cup {NoKernel}, IsCalled(c, kind, k)
        PROVE Goal
    <2>1. /\ \A e \in Calls \ {c} : call'[e] = call[e]
          /\ call'[c].at = "waiting"
      BY <1>1, Arrives
    <2>2. UNCHANGED <<managerVars, routerVars, active, handlers>>
      BY <1>1 DEF IsCalled
    <2>3. CASE d = c
      BY <2>1, <2>3, Bystander
    <2>4. CASE d # c
      <3>1. call'[d] = call[d]
        BY <2>1, <2>4
      <3>2. KindFits(d) /\ KernelFits(d) /\ RoutersFit(d)
        BY DEF StageInv
      <3>3. KindFits(d)'
        BY <2>2, <3>1, <3>2 DEF KindFits, managerVars, processVars
      <3>4. KernelFits(d)'
        BY <2>2, <3>1, <3>2 DEF KernelFits, managerVars, processVars, routerVars
      <3>5. RoutersFit(d)'
        BY <2>2, <3>1, <3>2 DEF RoutersFit, managerVars, processVars, routerVars
      <3>6. QED BY <3>3, <3>4, <3>5
    <2>5. QED BY <2>3, <2>4
  <1>2. ASSUME NEW c \in Calls, StartBegins(c) PROVE Goal
    <2>1. OnTurn(c)
      BY <1>2 DEF StartBegins, Begins, At, OnTurn, Over
    <2>2. CASE d # c
      BY <1>2, <2>1, <2>2, TurnMoves, Moves, Alone, Bystander
      DEF StartBegins, Swept, Stages, Between
    <2>3. CASE d = c
      BY <1>2, <2>1, <2>3, TurnMoves, Moves
      DEF StartBegins, Begins, At, Survivors, Swept, Stages, Between, KindFits,
          KernelFits, RoutersFit, managerVars, processVars
    <2>4. QED BY <2>2, <2>3
  <1>3. ASSUME NEW c \in Calls, NEW k \in Kernels, SweepBegins(c, k) PROVE Goal
    BY <1>3, Alone, Bystander
    DEF SweepBegins, At, OnTurn, Over, KindFits, KernelFits, RoutersFit
  <1>4. ASSUME NEW c \in Calls, NEW k \in Kernels, SweepEnds(c, k) PROVE Goal
    <2>1. OnTurn(c)
      BY <1>4 DEF SweepEnds, At, OnTurn, Over
    <2>2. CASE d # c
      BY <1>4, <2>1, <2>2, TurnMoves, Moves, Alone, Bystander
      DEF SweepEnds, Swept, Stages, Between
    <2>3. CASE d = c
      BY <1>4, <2>1, <2>3, TurnMoves, Moves
      DEF SweepEnds, At, EndStop, Swept, Stages, Between, KindFits, KernelFits,
          RoutersFit, KernelsInv
    <2>4. QED BY <2>2, <2>3
  <1>5. ASSUME NEW c \in Calls, EnvironmentFails(c) PROVE Goal
    <2>1. OnTurn(c)
      BY <1>5 DEF EnvironmentFails, OnTurn, Over
    <2>2. CASE d # c
      BY <1>5, <2>1, <2>2, TurnMoves, Moves, Alone, Bystander
      DEF EnvironmentFails, Fails, GoesTo
    <2>3. CASE d = c
      BY <1>5, <2>1, <2>3, TurnMoves, Moves
      DEF EnvironmentFails, Fails, Stages, Over, KindFits, KernelFits, RoutersFit
    <2>4. QED BY <2>2, <2>3
  <1>6. ASSUME NEW c \in Calls, NEW k \in Kernels, Spawns(c, k) PROVE Goal
    <2>1. OnTurn(c)
      BY <1>6 DEF Spawns, OnTurn, Over
    <2>2. CASE d # c
      BY <1>6, <2>1, <2>2, Spawned, Alone, Bystander
    <2>3. CASE d = c
      <3>1. call[d].at = "spawn" /\ call'[d].at = "connect" /\ call'[d].fresh = k
            /\ call'[d].kind = call[d].kind
        BY <1>6, <2>3, Spawned
      <3>2. hosted' = {} /\ proc'[k] = "fresh"
        BY <1>6, <3>1 DEF Spawns, Spawn, StageInv, KernelFits, TypeInv, ManagerTypes
      <3>3. QED BY <3>1, <3>2 DEF StageInv, KindFits, KernelFits, RoutersFit
    <2>4. QED BY <2>2, <2>3
  <1>7. ASSUME NEW c \in Calls, BootFails(c) PROVE Goal
    <2>1. OnTurn(c)
      BY <1>7 DEF BootFails, OnTurn, Over
    <2>2. CASE d # c
      BY <1>7, <2>1, <2>2, TurnMoves, Moves, Alone, Bystander
      DEF BootFails, Fails, GoesTo
    <2>3. CASE d = c
      BY <1>7, <2>1, <2>3, TurnMoves, Moves
      DEF BootFails, Fails, Stages, Over, KindFits, KernelFits, RoutersFit
    <2>4. QED BY <2>2, <2>3
  <1>8. ASSUME NEW c \in Calls, Boots(c) PROVE Goal
    <2>1. OnTurn(c)
      BY <1>8 DEF Boots, OnTurn, Over
    <2>2. CASE d # c
      BY <1>8, <2>1, <2>2, TurnMoves, Moves, Alone, Bystander DEF Boots, GoesTo
    <2>3. CASE d = c
      BY <1>8, <2>1, <2>3, TurnMoves, Moves
      DEF Boots, BecomesReady, RouteTo, Stages, Between, StageInv, KindFits, KernelFits,
          RoutersFit
    <2>4. QED BY <2>2, <2>3
  <1>9. ASSUME NEW c \in Calls, HandshakeFails(c) PROVE Goal
    <2>1. OnTurn(c)
      BY <1>9 DEF HandshakeFails, OnTurn, Over
    <2>2. CASE d # c
      BY <1>9, <2>1, <2>2, TurnMoves, Moves, Alone, Bystander
      DEF HandshakeFails, Fails, Stages, Between, Over
    <2>3. CASE d = c
      BY <1>9, <2>1, <2>3, TurnMoves, Moves
      DEF HandshakeFails, Fails, Restarts, Stages, Between, Over, StageInv, KindFits,
          KernelFits, RoutersFit
    <2>4. QED BY <2>2, <2>3
  <1>10. ASSUME NEW c \in Calls, NEW waits \in BOOLEAN, HandshakeEnds(c, waits)
         PROVE Goal
    <2>1. OnTurn(c)
      BY <1>10 DEF HandshakeEnds, OnTurn, Over
    <2>2. CASE d # c
      BY <1>10, <2>1, <2>2, TurnMoves, Moves, Alone, Bystander
      DEF HandshakeEnds, Stages, Between
    <2>3. CASE d = c
      BY <1>10, <2>1, <2>3, TurnMoves, Moves
      DEF HandshakeEnds, Restarts, Stages, Between, StageInv, KindFits, KernelFits,
          RoutersFit, managerVars, processVars
    <2>4. QED BY <2>2, <2>3
  <1>11. ASSUME NEW c \in Calls, PackagesFail(c) PROVE Goal
    <2>1. OnTurn(c)
      BY <1>11 DEF PackagesFail, OnTurn, Over
    <2>2. CASE d # c
      BY <1>11, <2>1, <2>2, TurnMoves, Moves, Alone, Bystander DEF PackagesFail, GoesTo
    <2>3. CASE d = c
      BY <1>11, <2>1, <2>3, TurnMoves, Moves
      DEF PackagesFail, Stages, Between, StageInv, KindFits, KernelFits, RoutersFit
    <2>4. QED BY <2>2, <2>3
  <1>12. ASSUME NEW c \in Calls, PackagesAreReady(c) PROVE Goal
    <2>1. OnTurn(c)
      BY <1>12 DEF PackagesAreReady, OnTurn, Over
    <2>2. CASE d # c
      BY <1>12, <2>1, <2>2, TurnMoves, Moves, Alone, Bystander
      DEF PackagesAreReady, GoesTo
    <2>3. CASE d = c
      BY <1>12, <2>1, <2>3, TurnMoves, Moves
      DEF PackagesAreReady, Stages, KindFits, KernelFits, RoutersFit
    <2>4. QED BY <2>2, <2>3
  <1>13. ASSUME NEW c \in Calls, Unwinds(c) PROVE Goal
    <2>1. OnTurn(c)
      BY <1>13 DEF Unwinds, OnTurn, Over
    <2>2. CASE d # c
      BY <1>13, <2>1, <2>2, TurnMoves, Moves, Alone, Bystander
      DEF Unwinds, Fails, GoesTo
    <2>3. CASE d = c
      BY <1>13, <2>1, <2>3, TurnMoves, Moves
      DEF Unwinds, Fails, Stages, Over, KindFits, KernelFits, RoutersFit
    <2>4. QED BY <2>2, <2>3
  <1>14. ASSUME NEW c \in Calls, NEW how \in Over, BindingEnds(c, how) PROVE Goal
    <2>1. OnTurn(c)
      BY <1>14 DEF BindingEnds, OnTurn, Over
    <2>2. CASE d # c
      BY <1>14, <2>1, <2>2, TurnMoves, Moves, Alone, Bystander DEF BindingEnds, GoesTo
    <2>3. CASE d = c
      BY <1>14, <2>1, <2>3, TurnMoves, Moves
      DEF BindingEnds, Stages, Over, KindFits, KernelFits, RoutersFit
    <2>4. QED BY <2>2, <2>3
  <1>15. ASSUME NEW c \in Calls, StopBegins(c) PROVE Goal
    <2>1. OnTurn(c)
      BY <1>15 DEF StopBegins, Begins, At, OnTurn, Over
    <2>2. CASE d # c
      BY <1>15, <2>1, <2>2, TurnMoves, Moves, Alone, Bystander
      DEF StopBegins, StopEnds, Stages, Between, Over
    <2>3. CASE d = c
      BY <1>15, <2>1, <2>3, TurnMoves, Moves
      DEF StopBegins, StopEnds, Stages, Between, Over, KindFits, KernelFits, RoutersFit
    <2>4. QED BY <2>2, <2>3
  <1>16. ASSUME NEW c \in Calls, StopFinishes(c) PROVE Goal
    <2>1. OnTurn(c)
      BY <1>16 DEF StopFinishes, At, OnTurn, Over
    <2>2. CASE d # c
      BY <1>16, <2>1, <2>2, TurnMoves, Moves, Alone, Bystander
      DEF StopFinishes, StopEnds, GoesTo
    <2>3. CASE d = c
      BY <1>16, <2>1, <2>3, TurnMoves, Moves
      DEF StopFinishes, StopEnds, Stages, Over, KindFits, KernelFits, RoutersFit
    <2>4. QED BY <2>2, <2>3
  <1>17. ASSUME NEW c \in Calls, RestartBegins(c) PROVE Goal
    <2>1. OnTurn(c)
      BY <1>17 DEF RestartBegins, Begins, At, OnTurn, Over
    <2>2. CASE d # c
      BY <1>17, <2>1, <2>2, TurnMoves, Moves, Alone, Bystander DEF RestartBegins, GoesTo
    <2>3. CASE d = c
      BY <1>17, <2>1, <2>3, TurnMoves, Moves
      DEF RestartBegins, Stages, KindFits, KernelFits, RoutersFit
    <2>4. QED BY <2>2, <2>3
  <1>18. ASSUME NEW c \in Calls, RestartStops(c) PROVE Goal
    <2>1. OnTurn(c)
      BY <1>18 DEF RestartStops, At, OnTurn, Over
    <2>2. CASE d # c
      BY <1>18, <2>1, <2>2, TurnMoves, Moves, Alone, Bystander
      DEF RestartStops, Fails, Stages, Between, Over
    <2>3. CASE d = c
      BY <1>18, <2>1, <2>3, TurnMoves, Moves
      DEF RestartStops, Fails, Stages, Between, Over, KindFits, KernelFits, RoutersFit
    <2>4. QED BY <2>2, <2>3
  <1>19. ASSUME NEW c \in Calls, RestartFinishesStop(c) PROVE Goal
    <2>1. OnTurn(c)
      BY <1>19 DEF RestartFinishesStop, At, OnTurn, Over
    <2>2. CASE d # c
      BY <1>19, <2>1, <2>2, TurnMoves, Moves, Alone, Bystander
      DEF RestartFinishesStop, GoesTo
    <2>3. CASE d = c
      BY <1>19, <2>1, <2>3, TurnMoves, Moves
      DEF RestartFinishesStop, At, EndStop, Stages, Between, KindFits, KernelFits,
          RoutersFit, KernelsInv
    <2>4. QED BY <2>2, <2>3
  <1>20. ASSUME NEW k \in Kernels, Exits(k) PROVE Goal
    <2>1. KindFits(d) /\ KernelFits(d) /\ RoutersFit(d)
      BY DEF StageInv
    <2>2. /\ UNCHANGED <<call, handlers, hosted, stopping>> /\ k \in Living
          /\ \A j \in Kernels \ {k} : proc'[j] = proc[j]
          /\ proc'[k] = IF proc[k] = "fresh" THEN "lost" ELSE "gone"
      BY <1>20 DEF Exits, ProcessExits, TypeInv, ManagerTypes
    <2>3. KindFits(d)' /\ KernelFits(d)'
      BY <2>1, <2>2 DEF KindFits, KernelFits, Living
    <2>4. RoutersFit(d)'
      <3>1. CASE Crashes(k) /\ k \in handlers
        <4>1. call[d].at \in {"handshake", "packages"} => call[d].fresh = k
          BY <2>1, <3>1 DEF KernelFits, Crashes, KernelsInv
        <4>2. call[d].at # "handshake"
          BY <2>1, <3>1, <4>1 DEF KernelFits
        <4>3. QED BY <2>2, <4>1, <4>2 DEF RoutersFit
      <3>2. CASE ~(Crashes(k) /\ k \in handlers)
        <4>1. UNCHANGED <<router, queryRouter>>
          BY <1>20, <3>2 DEF Exits
        <4>2. ASSUME call[d].at = "packages", proc'[call[d].fresh] = "up"
              PROVE  proc[call[d].fresh] = "up"
          <5>1. call[d].fresh \in Kernels
            BY <2>1, <4>2 DEF KernelFits, TypeInv, ManagerTypes
          <5>2. QED BY <2>2, <4>2, <5>1
        <4>3. QED BY <2>1, <2>2, <4>1, <4>2 DEF RoutersFit
      <3>3. QED BY <3>1, <3>2
    <2>5. QED BY <2>3, <2>4
  <1>21. ASSUME NEW full \in BOOLEAN, ResetsSession(full) PROVE Goal
    BY <1>21
    DEF ResetsSession, managerVars, processVars, routerVars, StageInv, KindFits,
        KernelFits, RoutersFit
  <1>22. ASSUME AgentConnects PROVE Goal
    BY <1>22
    DEF AgentConnects, managerVars, processVars, routerVars, StageInv, KindFits,
        KernelFits, RoutersFit
  <1>23. ASSUME ExecStep, UNCHANGED <<routerVars, lifeVars>> PROVE Goal
    BY <1>23, WorkIsNoProcess
    DEF processVars, routerVars, lifeVars, StageInv, KindFits, KernelFits, RoutersFit
  <1>24. ASSUME QueryStep, UNCHANGED <<routerVars, lifeVars>> PROVE Goal
    BY <1>24, WorkIsNoProcess
    DEF processVars, routerVars, lifeVars, StageInv, KindFits, KernelFits, RoutersFit
  <1>25. ASSUME RouterStep, UNCHANGED <<managerVars, lifeVars>> PROVE Goal
    BY <1>25
    DEF managerVars, processVars, lifeVars, StageInv, KindFits, KernelFits, RoutersFit,
        RouterStep, Request, KernelTakes, KeepRouting, SendFails, KernelAnswers,
        RouterHears, HearsProgress, RequestTimesOut
  <1>26. ASSUME NEW c \in Calls, Connects(c) PROVE Goal
    <2>1. OnTurn(c)
      BY <1>26 DEF Connects, OnTurn, Over
    <2>2. CASE d # c
      BY <1>26, <2>1, <2>2, TurnMoves, Moves, Alone, Bystander
      DEF Connects, Stages, Between
    <2>3. CASE d = c
      <3>1. call[d].at = "connect" /\ call'[d].at = "boot" /\ call'[d].fresh = call[d].fresh
            /\ call'[d].kind = call[d].kind
        BY <1>26, <2>1, <2>3, TurnMoves DEF Connects, Stages, Between
      <3>2. call[d].fresh \in hosted' \ stopping' /\ call[d].fresh \notin handlers'
        BY <1>26, <2>3, <3>1 DEF Connects, Lists, StageInv, KernelFits, KernelsInv
      <3>3. QED BY <3>1, <3>2 DEF StageInv, KindFits, KernelFits, RoutersFit
    <2>4. QED BY <2>2, <2>3
  <1>27. ASSUME NEW c \in Calls, ConnectFails(c) PROVE Goal
    <2>1. OnTurn(c)
      BY <1>27 DEF ConnectFails, OnTurn, Over
    <2>2. CASE d # c
      BY <1>27, <2>1, <2>2, TurnMoves, Moves, Alone, Bystander
      DEF ConnectFails, Fails, GoesTo
    <2>3. CASE d = c
      BY <1>27, <2>1, <2>3, TurnMoves, Moves
      DEF ConnectFails, Fails, Stages, Over, KindFits, KernelFits, RoutersFit
    <2>4. QED BY <2>2, <2>3
  <1>28. ASSUME Interrupts, UNCHANGED <<routerVars, lifeVars>> PROVE Goal
    BY <1>28
    DEF Interrupts, Interrupt, routerVars, lifeVars, StageInv, KindFits, KernelFits,
        RoutersFit
  <1> QED BY <1>1, <1>2, <1>3, <1>4, <1>5, <1>6, <1>7, <1>8, <1>9, <1>10, <1>11, <1>12,
    <1>13, <1>14, <1>15, <1>16, <1>17, <1>18, <1>19, <1>20, <1>21, <1>22, <1>23, <1>24,
    <1>25, <1>26, <1>27, <1>28 DEF Next, HandlerStep

(* Where no handler is between two kernels, whoever was served still is.   *)
LEMMA WasServed ==
  ASSUME ServeInv, ~excused, \A c \in Calls : call[c].at \notin Between
  PROVE  /\ router = active /\ queryRouter = active
         /\ active # NoKernel =>
              /\ active \in hosted /\ active \notin stopping
              /\ proc[active] = "up" /\ active \in handlers
  BY DEF ServeInv, Served, Serves, Heard

(* Wherever a step leaves no handler between two kernels, and no known     *)
(* flaw struck, the session is served.                                     *)
LEMMA ServedKept ==
  ASSUME TypeInv, LockInv, KernelsInv, StageInv, ServeInv, Next,
         ~excused', \A d \in Calls : call'[d].at \notin Between
  PROVE  Served'
  <1>1. ASSUME NEW c \in Calls, NEW kind \in {"start", "stop", "restart"},
               NEW k \in Kernels \cup {NoKernel}, IsCalled(c, kind, k)
        PROVE  Served'
    <2>1. \A d \in Calls : call[d].at \notin Between
      BY <1>1, Arrives DEF Between
    <2>2. QED BY <1>1, <2>1, WasServed DEF IsCalled, managerVars, processVars,
      routerVars, Served, Serves, Heard
  <1>2. ASSUME NEW c \in Calls, StartBegins(c) PROVE Served'
    <2>1. OnTurn(c)
      BY <1>2 DEF StartBegins, Begins, At, OnTurn, Over
    <2>2. call'[c].at \in Between
      BY <1>2, <2>1, TurnMoves DEF StartBegins, Swept, Stages, Between
    <2>3. QED BY <2>2
  <1>3. ASSUME NEW c \in Calls, NEW k \in Kernels, SweepBegins(c, k) PROVE Served'
    BY <1>3 DEF SweepBegins, At, Between
  <1>4. ASSUME NEW c \in Calls, NEW k \in Kernels, SweepEnds(c, k) PROVE Served'
    <2>1. OnTurn(c)
      BY <1>4 DEF SweepEnds, At, OnTurn, Over
    <2>2. call'[c].at \in Between
      BY <1>4, <2>1, TurnMoves DEF SweepEnds, At, Swept, Stages, Between
    <2>3. QED BY <2>2
  <1>5. ASSUME NEW c \in Calls, EnvironmentFails(c) PROVE Served'
    <2>1. OnTurn(c)
      BY <1>5 DEF EnvironmentFails, OnTurn, Over
    <2>2. router = NoKernel /\ queryRouter = NoKernel /\ active = NoKernel
      BY <1>5 DEF EnvironmentFails, Restarts, StageInv, KindFits, ServeInv, BareStart
    <2>3. QED BY <1>5, <2>2 DEF EnvironmentFails, routerVars, Served
  <1>6. ASSUME NEW c \in Calls, NEW k \in Kernels, Spawns(c, k) PROVE Served'
    BY <1>6, Spawned DEF Between
  <1>7. ASSUME NEW c \in Calls, BootFails(c) PROVE Served'
    <2>1. OnTurn(c)
      BY <1>7 DEF BootFails, OnTurn, Over
    <2>2. router = NoKernel /\ queryRouter = NoKernel /\ active = NoKernel
      BY <1>7 DEF BootFails, Restarts, StageInv, KindFits, ServeInv, BareStart
    <2>3. QED BY <1>7, <2>2 DEF BootFails, routerVars, Served
  <1>8. ASSUME NEW c \in Calls, Boots(c) PROVE Served'
    <2>1. OnTurn(c)
      BY <1>8 DEF Boots, OnTurn, Over
    <2>2. call'[c].at \in Between
      BY <1>8, <2>1, TurnMoves DEF Boots, Stages, Between
    <2>3. QED BY <2>2
  <1>9. ASSUME NEW c \in Calls, HandshakeFails(c) PROVE Served'
    <2>1. OnTurn(c)
      BY <1>9 DEF HandshakeFails, OnTurn, Over
    <2>2. call'[c].at = "unwind"
      BY <1>9, <2>1, TurnMoves DEF HandshakeFails, Stages, Between
    <2>3. QED BY <2>2 DEF Between
  <1>10. ASSUME NEW c \in Calls, NEW waits \in BOOLEAN, HandshakeEnds(c, waits) PROVE Served'
    <2>1. OnTurn(c)
      BY <1>10 DEF HandshakeEnds, OnTurn, Over
    <2>2. ~waits
      BY <1>10, <2>1, TurnMoves DEF HandshakeEnds, Stages, Between
    <2>3. /\ proc[call[c].fresh] = "up" /\ call[c].fresh \in handlers'
          /\ active' = call[c].fresh /\ UNCHANGED <<proc, hosted, stopping>>
      BY <1>10, <2>2 DEF HandshakeEnds, Activate, SetActive, managerVars, processVars
    <2>4. /\ router' = call[c].fresh /\ queryRouter' = call[c].fresh
          /\ call[c].fresh \in hosted \ stopping
      BY <1>10, <2>2, <2>3 DEF HandshakeEnds, StageInv, RoutersFit, KernelFits
    <2>5. QED BY <2>3, <2>4 DEF Served, Serves, Heard
  <1>11. ASSUME NEW c \in Calls, PackagesFail(c) PROVE Served'
    <2>1. OnTurn(c)
      BY <1>11 DEF PackagesFail, OnTurn, Over
    <2>2. call'[c].at \in Between
      BY <1>11, <2>1, TurnMoves DEF PackagesFail, Stages, Between
    <2>3. QED BY <2>2
  <1>12. ASSUME NEW c \in Calls, PackagesAreReady(c) PROVE Served'
    <2>1. OnTurn(c)
      BY <1>12 DEF PackagesAreReady, OnTurn, Over
    <2>3. /\ proc[call[c].fresh] = "up" /\ call[c].fresh \in handlers'
          /\ active' = call[c].fresh /\ UNCHANGED <<proc, hosted, stopping>>
      BY <1>12 DEF PackagesAreReady, Activate, SetActive, managerVars, processVars
    <2>4. /\ router' = call[c].fresh /\ queryRouter' = call[c].fresh
          /\ call[c].fresh \in hosted \ stopping
      BY <1>12, <2>3 DEF PackagesAreReady, StageInv, RoutersFit, KernelFits, routerVars
    <2>5. QED BY <2>3, <2>4 DEF Served, Serves, Heard
  <1>13. ASSUME NEW c \in Calls, Unwinds(c) PROVE Served'
    <2>1. OnTurn(c)
      BY <1>13 DEF Unwinds, OnTurn, Over
    <2>2. active = NoKernel
      BY <1>13 DEF Unwinds, StageInv, KindFits, ServeInv, BareStart
    <2>3. QED BY <1>13, <2>2 DEF Unwinds, Detach, RouteTo, Served
  <1>14. ASSUME NEW c \in Calls, NEW how \in Over, BindingEnds(c, how) PROVE Served'
    <2>1. OnTurn(c)
      BY <1>14 DEF BindingEnds, OnTurn, Over
    <2>2. \A d \in Calls : call[d].at \notin Between
      BY <1>14, <2>1, Alone DEF BindingEnds, Between, Over
    <2>3. QED BY <1>14, <2>2, WasServed DEF BindingEnds, managerVars, processVars,
      routerVars, Served, Serves, Heard
  <1>15. ASSUME NEW c \in Calls, StopBegins(c) PROVE Served'
    <2>1. OnTurn(c)
      BY <1>15 DEF StopBegins, Begins, At, OnTurn, Over
    <2>2. call[c].old \notin hosted
      BY <1>15, <2>1, TurnMoves DEF StopBegins, Stages, Between
    <2>3. QED BY <1>15, <2>2 DEF StopBegins, StopEnds, Detach, RouteTo, SetActive,
      KeepActive, Served
  <1>16. ASSUME NEW c \in Calls, StopFinishes(c) PROVE Served'
    <2>1. OnTurn(c)
      BY <1>16 DEF StopFinishes, At, OnTurn, Over
    <2>2. QED BY <1>16 DEF StopFinishes, StopEnds, Detach, RouteTo, SetActive,
      KeepActive, Served
  <1>17. ASSUME NEW c \in Calls, RestartBegins(c) PROVE Served'
    <2>1. OnTurn(c)
      BY <1>17 DEF RestartBegins, Begins, At, OnTurn, Over
    <2>2. \A d \in Calls : call[d].at \notin Between
      BY <1>17, <2>1, Alone DEF RestartBegins, Begins, At, Between, Over
    <2>3. QED BY <1>17, <2>2, WasServed DEF RestartBegins, managerVars, processVars,
      routerVars, Served, Serves, Heard
  <1>18. ASSUME NEW c \in Calls, RestartStops(c) PROVE Served'
    <2>1. OnTurn(c)
      BY <1>18 DEF RestartStops, At, OnTurn, Over
    <2>2. call[c].old \notin hosted
      BY <1>18, <2>1, TurnMoves DEF RestartStops, Stages, Between
    <2>3. \A d \in Calls : call[d].at \notin Between
      BY <1>18, <2>1, Alone DEF RestartStops, At, Between, Over
    <2>4. QED BY <1>18, <2>2, <2>3, WasServed DEF RestartStops, managerVars,
      processVars, routerVars, Served, Serves, Heard
  <1>19. ASSUME NEW c \in Calls, RestartFinishesStop(c) PROVE Served'
    <2>1. OnTurn(c)
      BY <1>19 DEF RestartFinishesStop, At, OnTurn, Over
    <2>2. call'[c].at \in Between
      BY <1>19, <2>1, TurnMoves DEF RestartFinishesStop, Stages, Between
    <2>3. QED BY <2>2
  <1>20. ASSUME NEW k \in Kernels, Exits(k) PROVE Served'
    <2>1. /\ router = active /\ queryRouter = active
          /\ active # NoKernel => active \in hosted \ stopping /\ proc[active] = "up"
                                    /\ active \in handlers
      BY <1>20, WasServed DEF Exits
    <2>2. CASE Crashes(k)
      <3>1. active # NoKernel => active = k /\ k \in handlers
        BY <2>1, <2>2 DEF Crashes, KernelsInv
      <3>2. QED BY <1>20, <2>1, <2>2, <3>1 DEF Exits, Detach, RouteTo, SetActive, KeepActive,
        Served
    <2>3. CASE ~Crashes(k)
      <3>1. active # k
        BY <1>20, <2>1, <2>3, SessionAssumption
        DEF Exits, ProcessExits, Crashes, Kernels, NoKernel
      <3>2. UNCHANGED <<router, queryRouter, active, handlers, hosted, stopping>>
        BY <1>20, <2>3 DEF Exits, ProcessExits, KeepActive
      <3>3. active # NoKernel => proc'[active] = proc[active]
        BY <1>20, <2>1, <3>1 DEF Exits, ProcessExits, TypeInv, ManagerTypes
      <3>4. QED BY <2>1, <3>2, <3>3 DEF Served, Serves, Heard
    <2>4. QED BY <2>2, <2>3
  <1>21. ASSUME NEW full \in BOOLEAN, ResetsSession(full) PROVE Served'
    BY <1>21 DEF ResetsSession
  <1>22. ASSUME AgentConnects PROVE Served'
    BY <1>22, WasServed
    DEF AgentConnects, managerVars, processVars, routerVars, Served, Serves, Heard
  <1>23. ASSUME ExecStep, UNCHANGED <<routerVars, lifeVars>> PROVE Served'
    BY <1>23, WasServed, WorkIsNoProcess
    DEF processVars, routerVars, lifeVars, Served, Serves, Heard
  <1>24. ASSUME QueryStep, UNCHANGED <<routerVars, lifeVars>> PROVE Served'
    BY <1>24, WasServed, WorkIsNoProcess
    DEF processVars, routerVars, lifeVars, Served, Serves, Heard
  <1>25. ASSUME RouterStep, UNCHANGED <<managerVars, lifeVars>> PROVE Served'
    BY <1>25, WasServed
    DEF managerVars, processVars, lifeVars, Served, Serves, Heard, RouterStep, Request,
        KernelTakes, KeepRouting, SendFails, KernelAnswers, RouterHears, HearsProgress,
        RequestTimesOut
  <1>26. ASSUME NEW c \in Calls, Connects(c) PROVE Served'
    <2>1. OnTurn(c)
      BY <1>26 DEF Connects, OnTurn, Over
    <2>2. call'[c].at \in Between
      BY <1>26, <2>1, TurnMoves DEF Connects, Stages, Between
    <2>3. QED BY <2>2
  <1>27. ASSUME NEW c \in Calls, ConnectFails(c) PROVE Served'
    <2>1. router = NoKernel /\ queryRouter = NoKernel /\ active = NoKernel
      BY <1>27 DEF ConnectFails, Restarts, StageInv, KindFits, ServeInv, BareStart
    <2>2. QED BY <1>27, <2>1 DEF ConnectFails, routerVars, Served
  <1>28. ASSUME Interrupts, UNCHANGED <<routerVars, lifeVars>> PROVE Served'
    BY <1>28, WasServed
    DEF Interrupts, Interrupt, routerVars, lifeVars, Served, Serves, Heard
  <1> QED BY <1>1, <1>2, <1>3, <1>4, <1>5, <1>6, <1>7, <1>8, <1>9, <1>10, <1>11, <1>12,
    <1>13, <1>14, <1>15, <1>16, <1>17, <1>18, <1>19, <1>20, <1>21, <1>22, <1>23, <1>24,
    <1>25, <1>26, <1>27, <1>28 DEF Next, HandlerStep

(* A start has left no trace before it has a kernel to show, unless a      *)
(* known flaw struck.                                                      *)
LEMMA BareKept ==
  ASSUME TypeInv, LockInv, KernelsInv, StageInv, ServeInv, Next,
         ~excused', NEW d \in Calls, call'[d].kind = "start"
  PROVE  BareStart(d)'
  <1>1. ASSUME NEW c \in Calls, NEW kind \in {"start", "stop", "restart"},
               NEW k \in Kernels \cup {NoKernel}, IsCalled(c, kind, k)
        PROVE  BareStart(d)'
    <2>1. call'[c].at = "waiting" /\ \A e \in Calls \ {c} : call'[e] = call[e]
      BY <1>1, Arrives
    <2>2. UNCHANGED <<router, queryRouter, active, excused>>
      BY <1>1 DEF IsCalled, routerVars
    <2>3. CASE d = c
      BY <2>1, <2>3 DEF BareStart
    <2>4. CASE d # c
      BY <2>1, <2>2, <2>4 DEF ServeInv, BareStart
    <2>5. QED BY <2>3, <2>4
  <1>2. ASSUME NEW c \in Calls, StartBegins(c) PROVE BareStart(d)'
    <2>1. OnTurn(c)
      BY <1>2 DEF StartBegins, Begins, At, OnTurn, Over
    <2>2. CASE d # c
      BY <1>2, <2>1, <2>2, TurnMoves, Alone
      DEF StartBegins, Swept, Stages, Between, Over, BareStart
    <2>3. CASE d = c
      <3>1. CASE Survivors = {}
        <4>1. \A e \in Calls : call[e].at \notin Between
          BY <1>2, <2>1, Alone DEF StartBegins, Begins, At, Between, Over
        <4>2. router = NoKernel /\ queryRouter = NoKernel
          BY <1>2, <3>1, <4>1, WasServed DEF StartBegins, Survivors
        <4>3. QED BY <1>2, <3>1, <4>2 DEF StartBegins, Swept, SetActive, routerVars,
          BareStart
      <3>2. CASE Survivors # {}
        BY <1>2, <2>1, <2>3, <3>2, TurnMoves DEF StartBegins, Stages, Between, BareStart
      <3>3. QED BY <3>1, <3>2
    <2>4. QED BY <2>2, <2>3
  <1>3. ASSUME NEW c \in Calls, NEW k \in Kernels, SweepBegins(c, k) PROVE BareStart(d)'
    BY <1>3 DEF SweepBegins, routerVars, ServeInv, BareStart
  <1>4. ASSUME NEW c \in Calls, NEW k \in Kernels, SweepEnds(c, k) PROVE BareStart(d)'
    <2>1. OnTurn(c)
      BY <1>4 DEF SweepEnds, At, OnTurn, Over
    <2>2. CASE d # c
      BY <1>4, <2>1, <2>2, TurnMoves, Alone
      DEF SweepEnds, Swept, Stages, Between, Over, BareStart
    <2>3. CASE d = c
      BY <1>4, <2>1, <2>3, TurnMoves
      DEF SweepEnds, At, Swept, Detach, RouteTo, SetActive, BareStart
    <2>4. QED BY <2>2, <2>3
  <1>5. ASSUME NEW c \in Calls, EnvironmentFails(c) PROVE BareStart(d)'
    <2>1. OnTurn(c)
      BY <1>5 DEF EnvironmentFails, OnTurn, Over
    <2>2. CASE d # c
      BY <1>5, <2>1, <2>2, TurnMoves, Alone
      DEF EnvironmentFails, Fails, Stages, Over, BareStart
    <2>3. CASE d = c
      BY <1>5, <2>1, <2>3, TurnMoves
      DEF EnvironmentFails, Fails, Stages, Over, BareStart
    <2>4. QED BY <2>2, <2>3
  <1>6. ASSUME NEW c \in Calls, NEW k \in Kernels, Spawns(c, k) PROVE BareStart(d)'
    <2>1. OnTurn(c)
      BY <1>6 DEF Spawns, OnTurn, Over
    <2>2. CASE d # c
      BY <1>6, <2>1, <2>2, Spawned, Alone DEF BareStart, Over
    <2>3. CASE d = c
      BY <1>6, <2>3, Spawned DEF Spawns, routerVars, ServeInv, BareStart
    <2>4. QED BY <2>2, <2>3
  <1>7. ASSUME NEW c \in Calls, BootFails(c) PROVE BareStart(d)'
    <2>1. OnTurn(c)
      BY <1>7 DEF BootFails, OnTurn, Over
    <2>2. CASE d # c
      BY <1>7, <2>1, <2>2, TurnMoves, Alone
      DEF BootFails, Fails, Stages, Over, BareStart
    <2>3. CASE d = c
      BY <1>7, <2>1, <2>3, TurnMoves DEF BootFails, Fails, Stages, Over, BareStart
    <2>4. QED BY <2>2, <2>3
  <1>8. ASSUME NEW c \in Calls, Boots(c) PROVE BareStart(d)'
    <2>1. OnTurn(c)
      BY <1>8 DEF Boots, OnTurn, Over
    <2>2. CASE d # c
      BY <1>8, <2>1, <2>2, TurnMoves, Alone DEF Boots, Stages, Between, Over, BareStart
    <2>3. CASE d = c
      BY <1>8, <2>1, <2>3, TurnMoves DEF Boots, Stages, Between, ServeInv, BareStart
    <2>4. QED BY <2>2, <2>3
  <1>9. ASSUME NEW c \in Calls, HandshakeFails(c) PROVE BareStart(d)'
    <2>1. OnTurn(c)
      BY <1>9 DEF HandshakeFails, OnTurn, Over
    <2>2. CASE d # c
      BY <1>9, <2>1, <2>2, TurnMoves, Alone
      DEF HandshakeFails, Stages, Between, Over, BareStart
    <2>3. CASE d = c
      BY <1>9, <2>1, <2>3, TurnMoves
      DEF HandshakeFails, Stages, Between, ServeInv, BareStart
    <2>4. QED BY <2>2, <2>3
  <1>10. ASSUME NEW c \in Calls, NEW waits \in BOOLEAN, HandshakeEnds(c, waits)
         PROVE  BareStart(d)'
    <2>1. OnTurn(c)
      BY <1>10 DEF HandshakeEnds, OnTurn, Over
    <2>2. CASE d # c
      BY <1>10, <2>1, <2>2, TurnMoves, Alone
      DEF HandshakeEnds, Stages, Between, Over, BareStart
    <2>3. CASE d = c
      BY <1>10, <2>1, <2>3, TurnMoves
      DEF HandshakeEnds, KeepActive, Stages, Between, ServeInv, BareStart
    <2>4. QED BY <2>2, <2>3
  <1>11. ASSUME NEW c \in Calls, PackagesFail(c) PROVE BareStart(d)'
    <2>1. OnTurn(c)
      BY <1>11 DEF PackagesFail, OnTurn, Over
    <2>2. CASE d # c
      BY <1>11, <2>1, <2>2, TurnMoves, Alone
      DEF PackagesFail, Stages, Between, Over, BareStart
    <2>3. CASE d = c
      BY <1>11, <2>1, <2>3, TurnMoves
      DEF PackagesFail, Stages, Between, ServeInv, BareStart
    <2>4. QED BY <2>2, <2>3
  <1>12. ASSUME NEW c \in Calls, PackagesAreReady(c) PROVE BareStart(d)'
    <2>1. OnTurn(c)
      BY <1>12 DEF PackagesAreReady, OnTurn, Over
    <2>2. CASE d # c
      BY <1>12, <2>1, <2>2, TurnMoves, Alone
      DEF PackagesAreReady, Stages, Over, BareStart
    <2>3. CASE d = c
      BY <1>12, <2>1, <2>3, TurnMoves DEF PackagesAreReady, Stages, BareStart
    <2>4. QED BY <2>2, <2>3
  <1>13. ASSUME NEW c \in Calls, Unwinds(c) PROVE BareStart(d)'
    <2>1. OnTurn(c)
      BY <1>13 DEF Unwinds, OnTurn, Over
    <2>2. CASE d # c
      BY <1>13, <2>1, <2>2, TurnMoves, Alone DEF Unwinds, Fails, Stages, Over, BareStart
    <2>3. CASE d = c
      BY <1>13, <2>1, <2>3, TurnMoves DEF Unwinds, Fails, Stages, Over, BareStart
    <2>4. QED BY <2>2, <2>3
  <1>14. ASSUME NEW c \in Calls, NEW how \in Over, BindingEnds(c, how) PROVE BareStart(d)'
    <2>1. OnTurn(c)
      BY <1>14 DEF BindingEnds, OnTurn, Over
    <2>2. CASE d # c
      BY <1>14, <2>1, <2>2, TurnMoves, Alone DEF BindingEnds, Stages, Over, BareStart
    <2>3. CASE d = c
      BY <1>14, <2>1, <2>3, TurnMoves DEF BindingEnds, Stages, Over, BareStart
    <2>4. QED BY <2>2, <2>3
  <1>15. ASSUME NEW c \in Calls, StopBegins(c) PROVE BareStart(d)'
    <2>1. OnTurn(c)
      BY <1>15 DEF StopBegins, Begins, At, OnTurn, Over
    <2>2. CASE d # c
      BY <1>15, <2>1, <2>2, TurnMoves, Alone
      DEF StopBegins, StopEnds, Stages, Between, Over, BareStart
    <2>3. CASE d = c
      BY <1>15, <2>1, <2>3, TurnMoves
      DEF StopBegins, Begins, At, StopEnds, Stages, Between, Over
    <2>4. QED BY <2>2, <2>3
  <1>16. ASSUME NEW c \in Calls, StopFinishes(c) PROVE BareStart(d)'
    <2>1. OnTurn(c)
      BY <1>16 DEF StopFinishes, At, OnTurn, Over
    <2>2. CASE d # c
      BY <1>16, <2>1, <2>2, TurnMoves, Alone
      DEF StopFinishes, StopEnds, Stages, Over, BareStart
    <2>3. CASE d = c
      BY <1>16, <2>1, <2>3, TurnMoves DEF StopFinishes, At, StopEnds, Stages, Over
    <2>4. QED BY <2>2, <2>3
  <1>17. ASSUME NEW c \in Calls, RestartBegins(c) PROVE BareStart(d)'
    <2>1. OnTurn(c)
      BY <1>17 DEF RestartBegins, Begins, At, OnTurn, Over
    <2>2. CASE d # c
      BY <1>17, <2>1, <2>2, TurnMoves, Alone DEF RestartBegins, Stages, Over, BareStart
    <2>3. CASE d = c
      BY <1>17, <2>1, <2>3, TurnMoves DEF RestartBegins, Begins, At, Stages
    <2>4. QED BY <2>2, <2>3
  <1>18. ASSUME NEW c \in Calls, RestartStops(c) PROVE BareStart(d)'
    <2>1. OnTurn(c)
      BY <1>18 DEF RestartStops, At, OnTurn, Over
    <2>2. CASE d # c
      BY <1>18, <2>1, <2>2, TurnMoves, Alone
      DEF RestartStops, Fails, Stages, Between, Over, BareStart
    <2>3. CASE d = c
      BY <1>18, <2>1, <2>3, TurnMoves DEF RestartStops, At, Fails, Stages, Between, Over
    <2>4. QED BY <2>2, <2>3
  <1>19. ASSUME NEW c \in Calls, RestartFinishesStop(c) PROVE BareStart(d)'
    <2>1. OnTurn(c)
      BY <1>19 DEF RestartFinishesStop, At, OnTurn, Over
    <2>2. CASE d # c
      BY <1>19, <2>1, <2>2, TurnMoves, Alone
      DEF RestartFinishesStop, Stages, Between, Over, BareStart
    <2>3. CASE d = c
      BY <1>19, <2>1, <2>3, TurnMoves DEF RestartFinishesStop, At, Stages, Between
    <2>4. QED BY <2>2, <2>3
  <1>20. ASSUME NEW k \in Kernels, Exits(k) PROVE BareStart(d)'
    BY <1>20 DEF Exits, Detach, RouteTo, SetActive, KeepActive, ServeInv, BareStart
  <1>21. ASSUME NEW full \in BOOLEAN, ResetsSession(full) PROVE BareStart(d)'
    BY <1>21 DEF ResetsSession
  <1>22. ASSUME AgentConnects PROVE BareStart(d)'
    BY <1>22 DEF AgentConnects, routerVars, ServeInv, BareStart
  <1>23. ASSUME ExecStep, UNCHANGED <<routerVars, lifeVars>> PROVE BareStart(d)'
    BY <1>23 DEF routerVars, lifeVars, ServeInv, BareStart
  <1>24. ASSUME QueryStep, UNCHANGED <<routerVars, lifeVars>> PROVE BareStart(d)'
    BY <1>24 DEF routerVars, lifeVars, ServeInv, BareStart
  <1>25. ASSUME RouterStep, UNCHANGED <<managerVars, lifeVars>> PROVE BareStart(d)'
    BY <1>25
    DEF lifeVars, ServeInv, BareStart, RouterStep, Request, KernelTakes, KeepRouting,
        SendFails, KernelAnswers, RouterHears, HearsProgress, RequestTimesOut
  <1>26. ASSUME NEW c \in Calls, Connects(c) PROVE BareStart(d)'
    <2>1. OnTurn(c)
      BY <1>26 DEF Connects, OnTurn, Over
    <2>2. CASE d # c
      BY <1>26, <2>1, <2>2, TurnMoves, Alone
      DEF Connects, Stages, Between, Over, BareStart
    <2>3. CASE d = c
      BY <1>26, <2>1, <2>3, TurnMoves
      DEF Connects, Stages, Between, routerVars, ServeInv, BareStart
    <2>4. QED BY <2>2, <2>3
  <1>27. ASSUME NEW c \in Calls, ConnectFails(c) PROVE BareStart(d)'
    <2>1. OnTurn(c)
      BY <1>27 DEF ConnectFails, OnTurn, Over
    <2>2. CASE d # c
      BY <1>27, <2>1, <2>2, TurnMoves, Alone
      DEF ConnectFails, Fails, Stages, Over, BareStart
    <2>3. CASE d = c
      BY <1>27, <2>1, <2>3, TurnMoves
      DEF ConnectFails, Fails, Stages, Over, BareStart
    <2>4. QED BY <2>2, <2>3
  <1>28. ASSUME Interrupts, UNCHANGED <<routerVars, lifeVars>> PROVE BareStart(d)'
    BY <1>28 DEF routerVars, lifeVars, ServeInv, BareStart
  <1> QED BY <1>1, <1>2, <1>3, <1>4, <1>5, <1>6, <1>7, <1>8, <1>9, <1>10, <1>11, <1>12,
    <1>13, <1>14, <1>15, <1>16, <1>17, <1>18, <1>19, <1>20, <1>21, <1>22, <1>23, <1>24,
    <1>25, <1>26, <1>27, <1>28 DEF Next, HandlerStep
----------------------------------------------------------------------------
(* The contract of CallContract, step by step.                             *)

(* What the mapping makes of the promises, and whose handler has finished. *)
Owned == [r \in Requests |-> IF promise[r] = "pending" THEN "owned" ELSE promise[r]]
Finished == {r \in Requests : taken[r] > 0 /\ message[r].at \in {"iopub", "over"}}

(* Promises that move as promises may are a step of the contract.          *)
LEMMA PromisesMove ==
  ASSUME TypeInv, RouterTypes', taken' = taken, Finished' = Finished,
         \A r \in Requests :
           \/ promise'[r] = promise[r]
           \/ promise[r] = "new" /\ promise'[r] \in {"pending", "failed"}
           \/ promise[r] = "pending" /\ promise'[r] = "failed"
           \/ promise[r] = "pending" /\ promise'[r] = "ok" /\ r \in Finished
  PROVE  Contract!Promise
  <1>1. Owned' \in [Requests -> {"new", "owned", "ok", "failed", "lost"}]
    BY DEF Owned, RouterTypes
  <1>2. \A r \in Requests : Contract!MayBecome(r, Owned'[r])
    BY DEF Owned, Finished, Contract!MayBecome
  <1>3. QED BY <1>1, <1>2 DEF Contract!Promise, Owned, Finished

(* Every step of the session is a step of the contract, or none.           *)
LEMMA ContractStep ==
  ASSUME TypeInv, StageInv, MessageInv, TypeInv', Next
  PROVE  Contract!Next \/ UNCHANGED Contract!contractVars
  <1> DEFINE Goal == Contract!Next \/ UNCHANGED Contract!contractVars
  <1>0. /\ Contract!Promise => Goal
        /\ \A r \in Requests : Contract!Run(r) \/ Contract!Complete(r) => Goal
        /\ UNCHANGED <<promise, taken, message>> => Goal
    BY DEF Contract!Next, Contract!contractVars
  <1> HIDE DEF Goal
  <1>1. ASSUME NEW r \in Requests, Request(r) PROVE Goal
    <2>1. \A s \in Requests \ {r} : message'[s] = message[s] /\ promise'[s] = promise[s]
      BY <1>1, MessageQueues DEF Request, TypeInv, RouterTypes
    <2>2. /\ taken' = taken /\ taken[r] = 0
          /\ promise[r] = "new" /\ promise'[r] \in {"pending", "failed"}
      BY <1>1 DEF Request, TypeInv, RouterTypes, MessageInv
    <2>3. Finished' = Finished
      BY <2>1, <2>2 DEF Finished
    <2>4. QED BY <1>0, <2>1, <2>2, <2>3, PromisesMove DEF TypeInv
  <1>2. ASSUME NEW r \in Requests, KernelTakes(r) PROVE Goal
    <2>1. taken[r] = 0 /\ taken' = [taken EXCEPT ![r] = taken[r] + 1] /\ promise' = promise
      BY <1>2 DEF KernelTakes, KeepRouting, promiseVars, MessageInv
    <2>2. \A s \in Requests : message'[s].at = IF s = r THEN "kernel" ELSE message[s].at
      BY <1>2, MessageMoves DEF KernelTakes, Places
    <2>3. Finished' = Finished
      BY <2>1, <2>2 DEF Finished, TypeInv, RouterTypes
    <2>4. promise[r] # "new"
      BY <1>2 DEF KernelTakes, MessageInv
    <2>5. Contract!Run(r)
      BY <2>1, <2>3, <2>4 DEF Contract!Run, Finished
    <2>6. QED BY <1>0, <2>5
  <1>3. ASSUME NEW r \in Requests, SendFails(r) PROVE Goal
    <2>1. \A s \in Requests : message'[s].at = IF s = r THEN "over" ELSE message[s].at
      BY <1>3, MessageMoves DEF SendFails, Places
    <2>2. taken' = taken /\ taken[r] = 0
      BY <1>3 DEF SendFails, MessageInv
    <2>3. Finished' = Finished
      BY <2>1, <2>2 DEF Finished
    <2>4. \A s \in Requests :
            promise'[s] = promise[s] \/ (promise[s] = "pending" /\ promise'[s] = "failed")
      BY <1>3 DEF SendFails, Settle, Pending
    <2>5. QED BY <1>0, <2>2, <2>3, <2>4, PromisesMove DEF TypeInv
  <1>4. ASSUME NEW r \in Requests, KernelAnswers(r) PROVE Goal
    <2>1. \A s \in Requests : message'[s].at = IF s = r THEN "iopub" ELSE message[s].at
      BY <1>4, MessageMoves DEF KernelAnswers, Places
    <2>2. taken' = taken /\ taken[r] > 0 /\ promise' = promise
      BY <1>4 DEF KernelAnswers, KeepRouting, promiseVars, MessageInv
    <2>3. Finished' = Finished \cup {r}
      BY <2>1, <2>2 DEF Finished
    <2>4. Contract!Complete(r)
      BY <2>2, <2>3 DEF Contract!Complete, Finished
    <2>5. QED BY <1>0, <2>4
  <1>5. ASSUME NEW r \in Requests, NEW how \in {"ok", "failed"}, RouterHears(r, how) PROVE Goal
    <2>1. \A s \in Requests : message'[s].at = IF s = r THEN "over" ELSE message[s].at
      BY <1>5, MessageMoves DEF RouterHears, Places
    <2>2. taken' = taken /\ taken[r] > 0 /\ message[r].at = "iopub"
      BY <1>5 DEF RouterHears, MessageInv
    <2>3. Finished' = Finished /\ r \in Finished
      BY <2>1, <2>2 DEF Finished
    <2>4. \A s \in Requests :
            promise'[s] = promise[s] \/ (s = r /\ promise[s] = "pending" /\ promise'[s] = how)
      BY <1>5 DEF RouterHears, AnsweredBy, Settle, Pending, promiseVars
    <2>5. QED BY <1>0, <2>2, <2>3, <2>4, PromisesMove DEF TypeInv
  <1>6. ASSUME NEW r \in Requests, HearsProgress(r) PROVE Goal
    BY <1>6, <1>0 DEF HearsProgress, messageVars
  <1>7. ASSUME NEW r \in Requests, RequestTimesOut(r) PROVE Goal
    <2>1. UNCHANGED <<message, taken>> /\ promise[r] = "pending"
      BY <1>7 DEF RequestTimesOut, messageVars, TypeInv, RouterTypes
    <2>2. Finished' = Finished
      BY <2>1 DEF Finished
    <2>3. \A s \in Requests :
            promise'[s] = promise[s] \/ (promise[s] = "pending" /\ promise'[s] = "failed")
      BY <1>7, <2>1 DEF RequestTimesOut, Settle
    <2>4. QED BY <1>0, <2>1, <2>2, <2>3, PromisesMove DEF TypeInv
  <1>8. ASSUME UNCHANGED messageVars, Settle(Pending, "failed"),
               router' \in {router, queryRouter, NoKernel} \cup hosted,
               queryRouter' \in {router, queryRouter, NoKernel} \cup hosted
        PROVE  Goal
    <2>1. Finished' = Finished /\ taken' = taken
      BY <1>8 DEF messageVars, Finished
    <2>2. \A s \in Requests :
            promise'[s] = promise[s] \/ (promise[s] = "pending" /\ promise'[s] = "failed")
      BY <1>8 DEF Settle, Pending
    <2>3. QED BY <1>0, <2>1, <2>2, PromisesMove DEF TypeInv
  <1>9. ASSUME UNCHANGED messageVars, UNCHANGED promiseVars,
               router' \in {router, queryRouter, NoKernel} \cup hosted,
               queryRouter' \in {router, queryRouter, NoKernel} \cup hosted
        PROVE  Goal
    BY <1>9, <1>0 DEF promiseVars, messageVars
  <1> QED BY RoutersSteps, <1>1, <1>2, <1>3, <1>4, <1>5, <1>6, <1>7, <1>8, <1>9 DEF
    RoutersStep, RouterStep, Goal

----------------------------------------------------------------------------
(* The inductive invariant and the theorems.                               *)

Inv ==
  /\ TypeInv /\ LockInv /\ KernelsInv /\ StageInv /\ ServeInv
  /\ ExecInv /\ QueueInv /\ AgentInv /\ MessageInv

(* It holds at the start.                                                  *)
LEMMA InitInv ==
  ASSUME Init PROVE Inv
  <1>1. Kernels \subseteq 0 .. MaxKernels /\ NoKernel \in 0 .. MaxKernels
    BY SessionAssumption DEF Kernels, NoKernel
  <1>2. ManagerTypes
    <2>1. [kernel |-> NoKernel, state |-> "new", armed |-> FALSE] \in ExecRecord
      BY <1>1 DEF ExecRecord
    <2>2. exec \in [Execs -> ExecRecord]
      BY <2>1 DEF Init, InitManager
    <2>3. queryQueue \in [Kernels -> Seq(Queries)]
      BY DEF Init, InitManager
    <2>4. QED BY <2>2, <2>3 DEF Init, InitManager, ManagerTypes
  <1>3. RouterTypes
    <2>1. [kernel |-> NoKernel, at |-> "nowhere"] \in MessageRecord
      BY <1>1 DEF MessageRecord, Places
    <2>2. QED BY <1>1, <2>1 DEF Init, InitRouter, RouterTypes
  <1>4. LifeTypes
    <2>1. Idle \in CallRecord
      BY <1>1 DEF Idle, CallRecord, Kinds, Stages
    <2>2. NoAgent \in AgentRecord
      BY <1>1 DEF NoAgent, AgentRecord, NoKernel
    <2>3. QED BY <1>1, <2>1, <2>2 DEF Init, LifeTypes
  <1>5. \A c \in Calls : call[c].at = "new" /\ call[c].kind = "none"
    BY DEF Init, Idle
  <1>6. LockInv /\ StageInv
    BY <1>5 DEF LockInv, StageInv, KindFits, KernelFits, RoutersFit
  <1>7. KernelsInv /\ ExecInv /\ QueueInv
    BY DEF Init, InitManager, KernelsInv, Living, ExecInv, Running, QueueInv
  <1>8. ServeInv
    BY <1>5 DEF Init, InitRouter, ServeInv, Served
  <1>9. AgentInv /\ MessageInv
    BY DEF Init, InitRouter, NoAgent, AgentInv, MessageInv
  <1>10. QED BY <1>2, <1>3, <1>4, <1>6, <1>7, <1>8, <1>9 DEF Inv, TypeInv

(* Every step keeps it.                                                    *)
LEMMA StepInv ==
  ASSUME Inv, [Next]_sessionVars PROVE Inv'
  <1>1. CASE Next
    <2> USE <1>1 DEF Inv
    <2>1. TypeInv'
      BY ManagerTyped, RouterTyped, LifeTyped DEF TypeInv
    <2>2. LockInv' /\ KernelsInv' /\ StageInv'
      BY LockKept, KernelsKept, StageKept
    <2>3. ServeInv'
      BY ServedKept, BareKept DEF ServeInv
    <2>4. ExecInv' /\ QueueInv' /\ AgentInv' /\ MessageInv'
      BY ExecKept, QueueKept, AgentKept, MessageKept
    <2>5. QED BY <2>1, <2>2, <2>3, <2>4
  <1>2. CASE UNCHANGED sessionVars
    BY <1>2
    DEF sessionVars, managerVars, processVars, execVars, queryVars, routerVars,
        promiseVars, messageVars, lifeVars, Inv, TypeInv, ManagerTypes, RouterTypes,
        LifeTypes, LockInv, KernelsInv, Living, StageInv, KindFits, KernelFits,
        RoutersFit, ServeInv, Served, Serves, Heard, BareStart, ExecInv, Running,
        QueueInv, AgentInv, MessageInv
  <1>3. QED BY <1>1, <1>2

(* It holds in every state of every behaviour.                             *)
LEMMA AlwaysInv == Spec => []Inv
  <1>1. Init => Inv
    BY InitInv
  <1>2. Inv /\ [Next]_sessionVars => Inv'
    BY StepInv
  <1>3. QED BY <1>1, <1>2, PTL DEF Spec

(* TypeOK, for any number of kernels, calls, executions, queries and       *)
(* requests.                                                               *)
THEOREM TypeCorrectness == Spec => []TypeOK
  <1>1. Inv => TypeOK
    BY DEF Inv, TypeInv, ManagerTypes, RouterTypes, LifeTypes, ExecRecord, TypeOK
  <1>2. QED BY <1>1, AlwaysInv, PTL

(* OneKernelLives: however starts, stops and restarts follow each other    *)
(* and fail, a kernel process is spawned only when no other one lives, but *)
(* for those a stop spared or no map ever had.                             *)
THEOREM OneKernel == Spec => []OneKernelLives
  <1>1. Inv => OneKernelLives
    <2> SUFFICES ASSUME Inv PROVE Cardinality(Living \ Strays) <= 1
      BY DEF OneKernelLives
    <2>1. ASSUME NEW k \in Living \ Strays, k \notin hosted PROVE hosted = {} /\ Connecting(k)
      BY <2>1 DEF Inv, KernelsInv, StageInv, KernelFits, Strays, Connecting
    <2>2. ASSUME NEW j \in Living, NEW k \in Living, Connecting(j), Connecting(k) PROVE j = k
      <3>1. PICK b \in Calls : call[b].at = "connect" /\ call[b].fresh = j
        BY <2>2 DEF Connecting
      <3>2. PICK c \in Calls : call[c].at = "connect" /\ call[c].fresh = k
        BY <2>2 DEF Connecting
      <3>3. ~(b < c) /\ ~(c < b)
        BY <3>1, <3>2 DEF Inv, LockInv, Over
      <3>4. QED BY <3>1, <3>2, <3>3, SessionAssumption DEF Calls
    <2>3. \A j, k \in Living \ Strays : j = k
      BY <2>1, <2>2 DEF Inv, KernelsInv
    <2>4. CASE Living \ Strays = {}
      BY <2>4, FS_EmptySet
    <2>5. CASE Living \ Strays # {}
      <3>1. PICK k \in Living \ Strays : TRUE
        BY <2>5
      <3>2. Living \ Strays = {k}
        BY <2>3, <3>1
      <3>3. QED BY <3>2, FS_Singleton
    <2>6. QED BY <2>4, <2>5
  <1>2. QED BY <1>1, AlwaysInv, PTL

(* CrashIsHeard: no execution waits for a kernel that has crashed,         *)
(* although a crash takes the listeners of all executions off; only one of *)
(* a kernel that exited before anybody listened does.                      *)
THEOREM Crash == Spec => []CrashIsHeard
  <1>1. Inv => CrashIsHeard
    BY DEF Inv, ExecInv, CrashIsHeard
  <1>2. QED BY <1>1, AlwaysInv, PTL

(* ChannelIsFree: a query that timed out does not wedge the channel of a   *)
(* kernel that goes on.                                                    *)
THEOREM Channel == Spec => []ChannelIsFree
  <1>1. Inv => ChannelIsFree
    BY DEF Inv, QueueInv, ChannelIsFree, AtHead
  <1>2. QED BY <1>1, AlwaysInv, PTL

(* SessionIsServed: between two handlers, and unless one of the known      *)
(* flaws struck, routers, active kernel and crash handler agree.           *)
THEOREM Service == Spec => []SessionIsServed
  <1>1. Inv => SessionIsServed
    <2> SUFFICES ASSUME Inv, Underway = {}, ~excused
                 PROVE  /\ router = active /\ queryRouter = active
                        /\ active # NoKernel => Serves(active)
      BY DEF SessionIsServed
    <2>1. \A c \in Calls : call[c].at \notin Between
      BY DEF Underway, Between, Over
    <2>2. QED BY <2>1 DEF Inv, ServeInv, Served
  <1>2. QED BY <1>1, AlwaysInv, PTL

(* AgentStaysPut: an agent that passes the generation guard works on the   *)
(* kernel it connected under, or on none.                                  *)
THEOREM Agent == Spec => []AgentStaysPut
  <1>1. Inv => AgentStaysPut
    BY DEF Inv, AgentInv, AgentStaysPut
  <1>2. QED BY <1>1, AlwaysInv, PTL

(* KeepsContract: the comm router implements CallContract, whatever        *)
(* becomes of the kernel: no request is run twice, none is settled twice,  *)
(* and none is answered with what its kernel did not answer.               *)
THEOREM Refinement == Spec => KeepsContract
  <1>1. Init => Contract!Init
    BY DEF Init, InitRouter, Contract!Init
  <1>2. Inv /\ Inv' /\ [Next]_sessionVars => [Contract!Next]_Contract!contractVars
    <2>1. ASSUME Inv, Inv', Next PROVE Contract!Next \/ UNCHANGED Contract!contractVars
      BY <2>1, ContractStep DEF Inv
    <2>2. ASSUME UNCHANGED sessionVars PROVE UNCHANGED Contract!contractVars
      BY <2>2
      DEF sessionVars, routerVars, promiseVars, messageVars, Contract!contractVars
    <2>3. QED BY <2>1, <2>2
  <1>3. QED BY <1>1, <1>2, AlwaysInv, PTL DEF Spec, KeepsContract, Contract!Spec

=============================================================================
