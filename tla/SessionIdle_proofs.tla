------------------------ MODULE SessionIdle_proofs ------------------------
(***************************************************************************)
(* Proofs about SessionIdle, for every bound on visits, work and failures: *)
(* the countdowns run only over a deserted session, the policy never stops *)
(* a session under a client or under running work, and never forgets one.  *)
(*                                                                         *)
(* CountdownIsDeserted is not inductive by itself.  It takes two facts     *)
(* more: a client that holds the session has cleared clientsGone, and a    *)
(* policy that is disposed of has no timer left, so that the execution     *)
(* hooks, which do nothing then, have nothing to disarm.                   *)
(* That it stops only with a snapshot rests on what an autosave that       *)
(* succeeded has saved, or is excused from (SavedInv), whatever happened   *)
(* since it was asked for.                                                 *)
(***************************************************************************)
EXTENDS SessionIdle, TLAPS

(* The policy's fields.                                                    *)
PType ==
  p \in [timer : {"none", "grace", "noKernel", "cap", "retry"},
         clientsGone : BOOLEAN, graceDone : BOOLEAN, stopped : {"no", "idle", "asked"}]

PolicyInv ==
  /\ PType
  /\ p.clientsGone => ~attached
  /\ Stopped(p) => p.timer = "none"
  /\ CountdownIsDeserted

(* The initial state satisfies the invariant.                              *)
LEMMA PolicyInvInit == Init => PolicyInv
<1> SUFFICES ASSUME Init PROVE PolicyInv
  OBVIOUS
<1>1. p.timer = "none" /\ p.clientsGone = FALSE /\ p.stopped = "no"
  BY DEF Init
<1>2. PType
  BY DEF Init, PType
<1>3. (p.clientsGone => ~attached) /\ (Stopped(p) => p.timer = "none")
  BY <1>1 DEF Stopped
<1>4. CountdownIsDeserted
  BY <1>1 DEF CountdownIsDeserted
<1> QED BY <1>2, <1>3, <1>4 DEF PolicyInv

(* Every step preserves it.                                                *)
LEMMA PolicyInvNext == PolicyInv /\ [Next]_idleVars => PolicyInv'
<1> SUFFICES ASSUME PolicyInv, [Next]_idleVars PROVE PolicyInv'
  OBVIOUS
<1> USE DEF PolicyInv, PType, CountdownIsDeserted, Stopped, IsExecuting, Arm, Disarm,
            world, counts, hosted, saved, Rest, Kept
<1>1. CASE Connects BY <1>1 DEF Connects
<1>2. CASE Attaches BY <1>2 DEF Attaches, OnClientAttached
<1>3. CASE GatedLeaves BY <1>3, ZenonT(60) DEF GatedLeaves, OnClientsGone
<1>4. CASE ClientLeaves BY <1>4, ZenonT(60) DEF ClientLeaves, OnClientsGone
<1>5. CASE WindowResets BY <1>5 DEF WindowResets
<1>6. CASE ClientAsks BY <1>6 DEF ClientAsks
<1>7. CASE HandlerBegins BY <1>7 DEF HandlerBegins
<1>8. CASE KernelExits BY <1>8 DEF KernelExits
<1>9. CASE StopEnds BY <1>9 DEF StopEnds
<1>10. CASE Spawns BY <1>10 DEF Spawns
<1>11. CASE SpawnFails BY <1>11 DEF SpawnFails
<1>12. CASE BootEnds BY <1>12 DEF BootEnds
<1>13. CASE HandshakeEnds BY <1>13 DEF HandshakeEnds
<1>14. CASE HandshakeFails BY <1>14 DEF HandshakeFails
<1>15. CASE FirstStatus BY <1>15 DEF FirstStatus, OnExecutionBusy, Counting
<1>16. CASE WorkStarts BY <1>16 DEF WorkStarts, OnExecutionBusy, Counting
<1>17. CASE WorkEnds BY <1>17 DEF WorkEnds, OnExecutionIdle, Counting, ArmCap
<1>18. CASE KernelCrashes BY <1>18 DEF KernelCrashes, OnExecutionIdle, Counting, ArmCap
<1>19. CASE Interrupt BY <1>19 DEF Interrupt
<1>20. CASE KernelTakesSave BY <1>20 DEF KernelTakesSave, OnExecutionBusy, Counting
<1>21. CASE KernelAnswers BY <1>21 DEF KernelAnswers
<1>22. CASE KernelHasSaved BY <1>22 DEF KernelHasSaved, OnExecutionIdle, Counting, ArmCap
<1>23. CASE SaveFails BY <1>23 DEF SaveFails
<1>24. CASE SaveIsLost BY <1>24 DEF SaveIsLost
<1>25. CASE TimerFires
  <2>1. CASE p.timer = "grace" /\ p' = AfterGrace(Disarm(p)) /\ UNCHANGED <<world, counts>>
    BY <2>1 DEF AfterGrace, ArmCap, HasKernel
  <2>2. CASE Finish BY <2>2 DEF Finish, NothingToSave, Excuse
  <2> QED BY <1>25, <2>1, <2>2 DEF TimerFires
<1>26. CASE SaveSettles BY <1>26, ZenonT(60) DEF SaveSettles, Dispose, RetryAutosave
<1>27. CASE ShutdownRequested BY <1>27 DEF ShutdownRequested, Dispose
<1>28. CASE Close BY <1>28 DEF Close
<1>29. CASE UNCHANGED idleVars BY <1>29 DEF idleVars
<1> QED BY <1>1, <1>2, <1>3, <1>4, <1>5, <1>6, <1>7, <1>8, <1>9, <1>10, <1>11,
           <1>12, <1>13, <1>14, <1>15, <1>16, <1>17, <1>18, <1>19, <1>20, <1>21,
           <1>22, <1>23, <1>24, <1>25, <1>26, <1>27, <1>28, <1>29 DEF Next

(* The invariant holds of every behaviour.                                 *)
LEMMA PolicyInvHolds == Spec => []PolicyInv
BY PolicyInvInit, PolicyInvNext, PTL DEF Spec

(* What is not the policy's own.                                           *)
WorldTypes ==
  /\ attached \in BOOLEAN /\ gated \in BOOLEAN /\ closed \in BOOLEAN
  /\ kernel \in {"none", "booting", "starting", "busy", "idle", "saving", "dead"}
  /\ handler \in {"none", "stopping", "replacing", "spawning", "waiting", "handshake", "unwinding"}
  /\ active \in BOOLEAN /\ killed \in BOOLEAN
  /\ save \in {"none", "asked", "ok", "failed"}
  /\ unsaved \in BOOLEAN /\ since \in BOOLEAN
  /\ excuse \in {"none", "inactive", "killed", "incomplete"}
  /\ displaced \in BOOLEAN /\ muted \in BOOLEAN

(* Every step keeps them.                                                  *)
LEMMA WorldTypesNext == WorldTypes /\ [Next]_idleVars => WorldTypes'
<1> SUFFICES ASSUME WorldTypes, [Next]_idleVars PROVE WorldTypes'
  OBVIOUS
<1> USE DEF WorldTypes, world, counts, hosted, saved, Rest, Kept
<1>1. CASE Connects BY <1>1 DEF Connects
<1>2. CASE Attaches
  <2>1. /\ attached' \in BOOLEAN /\ gated' \in BOOLEAN
        /\ displaced' \in BOOLEAN /\ muted' \in BOOLEAN
        /\ closed' = closed /\ kernel' = kernel /\ handler' = handler /\ active' = active
        /\ killed' = killed /\ save' = save /\ unsaved' = unsaved /\ since' = since
        /\ excuse' = excuse
    BY <1>2, ZenonT(30) DEF Attaches
  <2> QED BY <2>1, SMT
<1>3. CASE GatedLeaves
  <2>1. /\ gated' \in BOOLEAN
        /\ attached' = attached /\ closed' = closed /\ kernel' = kernel /\ handler' = handler
        /\ active' = active /\ killed' = killed /\ save' = save /\ unsaved' = unsaved
        /\ since' = since /\ excuse' = excuse /\ displaced' = displaced /\ muted' = muted
    BY <1>3, ZenonT(30) DEF GatedLeaves
  <2> QED BY <2>1, SMT
<1>4. CASE ClientLeaves
  <2>1. /\ attached' \in BOOLEAN
        /\ gated' = gated /\ closed' = closed /\ kernel' = kernel /\ handler' = handler
        /\ active' = active /\ killed' = killed /\ save' = save /\ unsaved' = unsaved
        /\ since' = since /\ excuse' = excuse /\ displaced' = displaced /\ muted' = muted
    BY <1>4, ZenonT(30) DEF ClientLeaves
  <2> QED BY <2>1, SMT
<1>5. CASE WindowResets
  <2>1. /\ active' \in BOOLEAN
        /\ attached' = attached /\ gated' = gated /\ closed' = closed /\ kernel' = kernel
        /\ handler' = handler /\ killed' = killed /\ save' = save /\ unsaved' = unsaved
        /\ since' = since /\ excuse' = excuse /\ displaced' = displaced /\ muted' = muted
    BY <1>5, ZenonT(30) DEF WindowResets
  <2> QED BY <2>1, SMT
<1>6. CASE ClientAsks BY <1>6 DEF ClientAsks
<1>7. CASE HandlerBegins BY <1>7 DEF HandlerBegins
<1>8. CASE KernelExits BY <1>8, ZenonT(30) DEF KernelExits, Silences
<1>9. CASE StopEnds BY <1>9 DEF StopEnds, Silences
<1>10. CASE Spawns BY <1>10 DEF Spawns
<1>11. CASE SpawnFails BY <1>11 DEF SpawnFails
<1>12. CASE BootEnds BY <1>12 DEF BootEnds
<1>13. CASE HandshakeEnds BY <1>13 DEF HandshakeEnds
<1>14. CASE HandshakeFails BY <1>14 DEF HandshakeFails
<1>15. CASE FirstStatus BY <1>15 DEF FirstStatus
<1>16. CASE WorkStarts BY <1>16 DEF WorkStarts
<1>17. CASE WorkEnds BY <1>17 DEF WorkEnds
<1>18. CASE KernelCrashes BY <1>18, ZenonT(30) DEF KernelCrashes
<1>19. CASE Interrupt BY <1>19 DEF Interrupt
<1>20. CASE KernelTakesSave BY <1>20 DEF KernelTakesSave
<1>21. CASE KernelAnswers BY <1>21 DEF KernelAnswers
<1>22. CASE KernelHasSaved BY <1>22 DEF KernelHasSaved
<1>23. CASE SaveFails BY <1>23 DEF SaveFails
<1>24. CASE SaveIsLost BY <1>24 DEF SaveIsLost
<1>25. CASE TimerFires BY <1>25, ZenonT(60) DEF TimerFires, Finish, NothingToSave, Excuse
<1>26. CASE SaveSettles BY <1>26 DEF SaveSettles
<1>27. CASE ShutdownRequested BY <1>27 DEF ShutdownRequested
<1>28. CASE Close
  <2>1. /\ closed' \in BOOLEAN /\ attached' \in BOOLEAN /\ gated' \in BOOLEAN
        /\ kernel' = kernel /\ handler' = handler /\ active' = active /\ killed' = killed
        /\ save' = save /\ unsaved' = unsaved /\ since' = since /\ excuse' = excuse
        /\ displaced' = displaced /\ muted' = muted
    BY <1>28, ZenonT(30) DEF Close
  <2> QED BY <2>1, SMT
<1>29. CASE UNCHANGED idleVars BY <1>29 DEF idleVars
  <1> QED BY <1>1, <1>2, <1>3, <1>4, <1>5, <1>6, <1>7, <1>8, <1>9, <1>10, <1>11, <1>12,
       <1>13, <1>14, <1>15, <1>16, <1>17, <1>18, <1>19, <1>20, <1>21, <1>22, <1>23,
       <1>24, <1>25, <1>26, <1>27, <1>28, <1>29 DEF Next

(* Requests wait in any number: one that waits is not begun twice.         *)
QueueType == queued \in Nat
LEMMA QueueNext == QueueType /\ [Next]_idleVars => QueueType'
<1> SUFFICES ASSUME queued \in Nat, [Next]_idleVars PROVE queued' \in Nat
  BY DEF QueueType
<1>1. \/ queued' = queued \/ queued' = queued + 1
      \/ queued > 0 /\ queued' = queued - 1
  BY ZenonT(60) DEF Next, Connects, Attaches, GatedLeaves, ClientLeaves, WindowResets,
       ClientAsks, HandlerBegins, KernelExits, StopEnds, Spawns, SpawnFails, BootEnds,
       HandshakeEnds, HandshakeFails, FirstStatus, WorkStarts, WorkEnds, KernelCrashes,
       Interrupt, KernelTakesSave, KernelAnswers, KernelHasSaved, SaveFails, SaveIsLost,
       TimerFires, SaveSettles, ShutdownRequested, Close, Finish, idleVars, world,
       counts, hosted, saved, Rest, Kept
<1> QED BY <1>1

(* The policy's fields, the kernel, its handler and the autosave keep      *)
(* their types, for every bound.                                           *)
THEOREM TypeCorrectness == Spec => []TypeOK
<1>1. Init => WorldTypes /\ QueueType
  <2>1. Init => WorldTypes
    BY ZenonT(30) DEF Init, WorldTypes
  <2>2. Init => QueueType
    BY DEF Init, QueueType
  <2> QED BY <2>1, <2>2
<1>2. PolicyInv /\ WorldTypes /\ QueueType => TypeOK
  BY DEF QueueType, PolicyInv, PType, WorldTypes, TypeOK
<1> QED BY <1>1, <1>2, WorldTypesNext, QueueNext, PolicyInvHolds, PTL DEF Spec

(* No countdown to a shutdown runs over a session somebody holds, and no   *)
(* long one within the grace window or over work the kernel announced      *)
(* (SessionIdlePolicy's arm, disarm and the events that call them).        *)
THEOREM CountdownsAreDeserted == Spec => []CountdownIsDeserted
<1>1. PolicyInv => CountdownIsDeserted BY DEF PolicyInv
<1> QED BY <1>1, PolicyInvHolds, PTL

(* The one step that stops a session is that of an autosave that succeeded, *)
(* when the world still is as finish() wants it.                           *)
LEMMA StopsAfterSave ==
  ASSUME PolicyInv, [Next]_idleVars, StopsItself
  PROVE  SaveSettles /\ MayStop
<1> USE DEF PolicyInv, PType, StopsItself, Arm, Disarm, world, counts, Rest, Kept
<1>1. SaveSettles
  <2>1. ~UNCHANGED p OBVIOUS
  <2>2. ~(\/ Connects \/ WindowResets \/ ClientAsks \/ HandlerBegins \/ KernelExits
           \/ StopEnds \/ Spawns \/ SpawnFails \/ BootEnds \/ HandshakeEnds \/ HandshakeFails
           \/ Interrupt \/ KernelAnswers \/ SaveFails \/ SaveIsLost \/ Close)
    BY <2>1 DEF Connects, WindowResets, ClientAsks, HandlerBegins, KernelExits, StopEnds,
                Spawns, SpawnFails, BootEnds, HandshakeEnds, HandshakeFails, Interrupt,
                KernelAnswers, SaveFails, SaveIsLost, Close
  <2>3. ~(Attaches \/ GatedLeaves \/ ClientLeaves)
    BY DEF Attaches, GatedLeaves, ClientLeaves, OnClientAttached, OnClientsGone
  <2>4. ~(FirstStatus \/ WorkStarts \/ KernelTakesSave)
    BY DEF FirstStatus, WorkStarts, KernelTakesSave, OnExecutionBusy
  <2>5. ~(WorkEnds \/ KernelCrashes \/ KernelHasSaved)
    BY DEF WorkEnds, KernelCrashes, KernelHasSaved, OnExecutionIdle, ArmCap
  <2>6. ~TimerFires
    BY DEF TimerFires, Finish, AfterGrace, ArmCap
  <2>7. ~ShutdownRequested
    BY DEF ShutdownRequested, Dispose
  <2>8. ~UNCHANGED idleVars BY <2>1 DEF idleVars
  <2> QED BY <2>2, <2>3, <2>4, <2>5, <2>6, <2>7, <2>8 DEF Next
<1>2. MayStop
  BY <1>1 DEF SaveSettles, RetryAutosave
<1> QED BY <1>1, <1>2

(* Whatever came, went, started or failed while the autosave ran, the      *)
(* policy stops the session only with nobody attached and nothing running  *)
(* (the conditions finish() looks at again after its autosave).            *)
THEOREM NobodyIsStopped == Spec => StopsNobody
<1>1. PolicyInv /\ [Next]_idleVars => [StopsItself => ~attached /\ kernel \notin {"booting", "busy"}]_p
  <2> SUFFICES ASSUME PolicyInv, [Next]_idleVars, StopsItself
               PROVE  ~attached /\ kernel \notin {"booting", "busy"}
    OBVIOUS
  <2>1. p.clientsGone /\ ~IsExecuting(kernel)
    BY StopsAfterSave DEF MayStop
  <2> QED BY <2>1 DEF PolicyInv, IsExecuting
<1> QED BY <1>1, PolicyInvHolds, PTL DEF Spec, StopsNobody

(* A kernel that is gone holds nothing to save, and an autosave that       *)
(* succeeded has saved all the work, but for what came after it was asked  *)
(* for and what it had an excuse to leave out.                             *)
SavedInv ==
  /\ kernel \in {"none", "dead"} => ~unsaved
  /\ save = "ok" /\ unsaved => since \/ excuse # "none"

LEMMA SavedInvInit == Init => SavedInv
BY DEF Init, SavedInv

(* Every step preserves it: work that comes in is noted in since, and an   *)
(* autosave is asked for only when none is under way.                      *)
LEMMA SavedInvNext == SavedInv /\ [Next]_idleVars => SavedInv'
<1> SUFFICES ASSUME SavedInv, [Next]_idleVars PROVE SavedInv'
  OBVIOUS
<1> USE DEF SavedInv, world, counts, hosted, saved, Rest, Kept
<1>1. CASE Connects BY <1>1 DEF Connects
<1>2. CASE Attaches BY <1>2 DEF Attaches
<1>3. CASE GatedLeaves BY <1>3 DEF GatedLeaves
<1>4. CASE ClientLeaves BY <1>4 DEF ClientLeaves
<1>5. CASE WindowResets BY <1>5 DEF WindowResets
<1>6. CASE ClientAsks BY <1>6 DEF ClientAsks
<1>7. CASE HandlerBegins BY <1>7 DEF HandlerBegins
<1>8. CASE KernelExits BY <1>8 DEF KernelExits
<1>9. CASE StopEnds BY <1>9 DEF StopEnds
<1>10. CASE Spawns BY <1>10 DEF Spawns
<1>11. CASE SpawnFails BY <1>11 DEF SpawnFails
<1>12. CASE BootEnds BY <1>12 DEF BootEnds
<1>13. CASE HandshakeEnds BY <1>13 DEF HandshakeEnds
<1>14. CASE HandshakeFails BY <1>14 DEF HandshakeFails
<1>15. CASE FirstStatus BY <1>15 DEF FirstStatus
<1>16. CASE WorkStarts BY <1>16 DEF WorkStarts
<1>17. CASE WorkEnds BY <1>17 DEF WorkEnds
<1>18. CASE KernelCrashes BY <1>18 DEF KernelCrashes
<1>19. CASE Interrupt BY <1>19 DEF Interrupt
<1>20. CASE KernelTakesSave BY <1>20 DEF KernelTakesSave
<1>21. CASE KernelAnswers BY <1>21 DEF KernelAnswers
<1>22. CASE KernelHasSaved BY <1>22 DEF KernelHasSaved
<1>23. CASE SaveFails BY <1>23 DEF SaveFails
<1>24. CASE SaveIsLost BY <1>24 DEF SaveIsLost
<1>25. CASE TimerFires
  <2>1. CASE UNCHANGED <<world, counts>>
    BY <2>1
  <2>2. CASE Finish BY <2>2 DEF Finish, NothingToSave, Excuse
  <2> QED BY <1>25, <2>1, <2>2 DEF TimerFires
<1>26. CASE SaveSettles BY <1>26 DEF SaveSettles
<1>27. CASE ShutdownRequested BY <1>27 DEF ShutdownRequested
<1>28. CASE Close BY <1>28 DEF Close
<1>29. CASE UNCHANGED idleVars BY <1>29 DEF idleVars
<1> QED BY <1>1, <1>2, <1>3, <1>4, <1>5, <1>6, <1>7, <1>8, <1>9, <1>10, <1>11,
           <1>12, <1>13, <1>14, <1>15, <1>16, <1>17, <1>18, <1>19, <1>20, <1>21,
           <1>22, <1>23, <1>24, <1>25, <1>26, <1>27, <1>28, <1>29 DEF Next

(* However clients, work and crashes cross its autosaves, and however many *)
(* of these fail, a session that stops itself leaves no work behind that   *)
(* was there when its last autosave was asked for, unless that autosave had *)
(* one of the three excuses that pass for success (finish's autosave).     *)
THEOREM SnapshotsBeforeStops == Spec => StopsWithSnapshot
<1>1. PolicyInv /\ SavedInv /\ [Next]_idleVars
        => [StopsItself /\ unsaved => since \/ excuse # "none"]_<<p, since, unsaved, excuse>>
  <2> SUFFICES ASSUME PolicyInv, SavedInv, [Next]_idleVars, StopsItself, unsaved
               PROVE  since \/ excuse # "none"
    OBVIOUS
  <2>1. save = "ok"
    BY StopsAfterSave DEF MayStop
  <2> QED BY <2>1 DEF SavedInv
<1> QED BY <1>1, PolicyInvHolds, SavedInvInit, SavedInvNext, PTL
        DEF Spec, StopsWithSnapshot

(* NeverForgotten takes one fact more: until a grace countdown is over, it *)
(* is the timer, but for the retries that displace it.                     *)
GraceRuns ==
  p.clientsGone /\ ~p.graceDone /\ ~Stopped(p) /\ ~displaced => p.timer = "grace"

MemoryInv == PolicyInv /\ GraceRuns /\ NeverForgotten

(* Nobody has left in the initial state.                                   *)
LEMMA MemoryInvInit == Init => MemoryInv
<1> SUFFICES ASSUME Init PROVE MemoryInv
  OBVIOUS
<1>1. p.clientsGone = FALSE
  BY DEF Init
<1> QED BY <1>1, PolicyInvInit DEF MemoryInv, GraceRuns, NeverForgotten

(* Every step preserves it.                                                *)
LEMMA MemoryInvNext == MemoryInv /\ [Next]_idleVars => MemoryInv'
<1> SUFFICES ASSUME MemoryInv, [Next]_idleVars PROVE GraceRuns' /\ NeverForgotten'
  BY PolicyInvNext DEF MemoryInv
<1> USE DEF MemoryInv, PolicyInv, PType, GraceRuns, NeverForgotten, Remembered, Stopped,
            IsExecuting, Arm, Disarm, world, counts, hosted, saved, Rest, Kept
<1>1. CASE Connects BY <1>1 DEF Connects
<1>2. CASE Attaches BY <1>2 DEF Attaches, OnClientAttached
<1>3. CASE GatedLeaves BY <1>3 DEF GatedLeaves, OnClientsGone
<1>4. CASE ClientLeaves BY <1>4 DEF ClientLeaves, OnClientsGone
<1>5. CASE WindowResets BY <1>5 DEF WindowResets
<1>6. CASE ClientAsks BY <1>6 DEF ClientAsks
<1>7. CASE HandlerBegins BY <1>7 DEF HandlerBegins
<1>8. CASE KernelExits BY <1>8 DEF KernelExits, Silences, Counting
<1>9. CASE StopEnds BY <1>9 DEF StopEnds, Silences, Counting
<1>10. CASE Spawns BY <1>10 DEF Spawns
<1>11. CASE SpawnFails BY <1>11 DEF SpawnFails
<1>12. CASE BootEnds BY <1>12 DEF BootEnds
<1>13. CASE HandshakeEnds BY <1>13 DEF HandshakeEnds
<1>14. CASE HandshakeFails BY <1>14 DEF HandshakeFails
<1>15. CASE FirstStatus BY <1>15 DEF FirstStatus, OnExecutionBusy, Counting
<1>16. CASE WorkStarts BY <1>16 DEF WorkStarts, OnExecutionBusy, Counting
<1>17. CASE WorkEnds BY <1>17 DEF WorkEnds, OnExecutionIdle, Counting, ArmCap
<1>18. CASE KernelCrashes BY <1>18 DEF KernelCrashes, OnExecutionIdle, Counting, ArmCap
<1>19. CASE Interrupt BY <1>19 DEF Interrupt
<1>20. CASE KernelTakesSave BY <1>20 DEF KernelTakesSave, OnExecutionBusy, Counting
<1>21. CASE KernelAnswers BY <1>21 DEF KernelAnswers
<1>22. CASE KernelHasSaved BY <1>22 DEF KernelHasSaved, OnExecutionIdle, Counting, ArmCap
<1>23. CASE SaveFails BY <1>23 DEF SaveFails
<1>24. CASE SaveIsLost BY <1>24 DEF SaveIsLost
<1>25. CASE TimerFires
  <2>1. CASE p.timer = "grace" /\ p' = AfterGrace(Disarm(p)) /\ UNCHANGED <<world, counts>>
    BY <2>1 DEF AfterGrace, ArmCap, HasKernel
  <2>2. CASE p.timer \in {"noKernel", "cap", "retry"} /\ Finish BY <2>2 DEF Finish, NothingToSave, Excuse
  <2> QED BY <1>25, <2>1, <2>2 DEF TimerFires
<1>26. CASE SaveSettles BY <1>26 DEF SaveSettles, MayStop, Dispose, RetryAutosave
<1>27. CASE ShutdownRequested BY <1>27 DEF ShutdownRequested, Dispose
<1>28. CASE Close BY <1>28 DEF Close
<1>29. CASE UNCHANGED idleVars BY <1>29 DEF idleVars
<1> QED BY <1>1, <1>2, <1>3, <1>4, <1>5, <1>6, <1>7, <1>8, <1>9, <1>10, <1>11,
           <1>12, <1>13, <1>14, <1>15, <1>16, <1>17, <1>18, <1>19, <1>20, <1>21,
           <1>22, <1>23, <1>24, <1>25, <1>26, <1>27, <1>28, <1>29 DEF Next

(* A session its last client left is never forgotten, but for the retry    *)
(* that takes a grace countdown's place and the kernel that is stopped     *)
(* without an event: each event that ends what would have stopped it arms  *)
(* the next countdown (finish and the hooks).                              *)
THEOREM NobodyIsForgotten == Spec => []NeverForgotten
<1>1. MemoryInv => NeverForgotten BY DEF MemoryInv
<1> QED BY <1>1, MemoryInvInit, MemoryInvNext, PTL DEF Spec
=============================================================================
