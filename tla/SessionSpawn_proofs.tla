------------------------ MODULE SessionSpawn_proofs ------------------------
(***************************************************************************)
(* The spawn lock excludes the processes of one node, for any number of    *)
(* them and any kills, reboots and recycled pids, as long as two of them   *)
(* never clear a stale lock at the same time.                              *)
(*                                                                         *)
(* The invariant says whose the lock is: a process in the section owns it, *)
(* and a process about to clear it found a holder that is dead and stays   *)
(* dead, so that nobody can be in the section then.                        *)
(***************************************************************************)
EXTENDS SessionSpawn, TLAPS

(* What is used of TypeOK, and the boots.                                  *)
ProcTypes ==
  /\ pc \in [Attachers -> {"probe", "open", "read", "clear", "wait", "proxy"}
                             \cup Section \cup Ended]
  /\ bootAt \in [Attachers -> Int]
  /\ boot \in [Nodes -> Int]
  /\ lock \in [pid : Attachers, whole : BOOLEAN] \cup {NoLock}
  /\ raced \in BOOLEAN

(* A process runs in the current boot of its node.                         *)
BootIsCurrent == \A p \in Running : bootAt[p] = boot[NodeOf[p]]

(* A lock was created by a process that was started.                       *)
HolderWasBorn == \A p \in Attachers : lock.pid = p => pc[p] # "unborn"

SectionOwns == ~raced => \A p \in InSection : lock.pid = p

ClearsTheDead ==
  ~raced => \A p \in Attachers :
    pc[p] = "clear" => lock.pid \in Attachers /\ lock.pid \notin Running

ClearsAlone ==
  ~raced => \A p, q \in Attachers : pc[p] = "clear" /\ pc[q] = "clear" => p = q

LockInv ==
  /\ ProcTypes /\ BootIsCurrent /\ HolderWasBorn
  /\ SectionOwns /\ ClearsTheDead /\ ClearsAlone

(* Every process runs on the same node.                                    *)
OneNodeOnly == \A p, q \in Attachers : NodeOf[p] = NodeOf[q]

----------------------------------------------------------------------------
LEMMA InitLock == Init => LockInv
<1> SUFFICES ASSUME Init PROVE LockInv
  OBVIOUS
<1>1. \A p \in Attachers : pc[p] = "unborn"
  BY DEF Init
<1>2. Running = {} /\ InSection = {}
  BY <1>1 DEF Running, InSection, Section, Ended
<1>3. ProcTypes
  <2>1. lock \in [pid : Attachers, whole : BOOLEAN] \cup {NoLock} /\ raced \in BOOLEAN
    BY DEF Init
  <2>2. bootAt \in [Attachers -> Int] /\ boot \in [Nodes -> Int]
    BY DEF Init
  <2>3. pc \in [Attachers -> Ended]
    BY DEF Init, Ended
  <2> QED
    BY <2>1, <2>2, <2>3 DEF ProcTypes
<1>4. BootIsCurrent /\ SectionOwns /\ ClearsTheDead /\ ClearsAlone
  BY <1>1, <1>2 DEF BootIsCurrent, SectionOwns, ClearsTheDead, ClearsAlone
<1>5. HolderWasBorn
  BY SpawnAssumption DEF Init, HolderWasBorn, NoLock
<1> QED
  BY <1>3, <1>4, <1>5 DEF LockInv

(* A record that is found dead is of a process that does not run.          *)
LEMMA DeadIsDead ==
  ASSUME OneNodeOnly, BootIsCurrent,
         NEW p \in Running, NEW q \in Attachers, IsHolderDead(p, q)
  PROVE  q \notin Running
<1>1. CASE BootId(q) # BootId(p)
  BY <1>1 DEF OneNodeOnly, BootIsCurrent, BootId, Running
<1>2. CASE ~PidIsAlive(p, q)
  BY <1>2 DEF OneNodeOnly, PidIsAlive, Running
<1> QED
  BY <1>1, <1>2 DEF IsHolderDead

(* A step of one process that leaves the lock alone, and takes it neither  *)
(* into the section nor to the clearing of a lock.                         *)
LEMMA ElsewhereKeeps ==
  ASSUME LockInv, NEW p \in Running, NEW to,
         to \in {"open", "read", "wait", "proxy", "exited"} \/ (p \in InSection /\ to \in Section),
         Goes(p, to), UNCHANGED <<bootAt, boot, lock, raced>>
  PROVE  LockInv'
  BY DEF LockInv, ProcTypes, BootIsCurrent, HolderWasBorn, SectionOwns,
         ClearsTheDead, ClearsAlone, Goes, Running, InSection, Section, Ended

LEMMA OpenLockKeeps ==
  ASSUME LockInv, NEW p \in Attachers, OpenLock(p)
  PROVE  LockInv'
<1>1. CASE MayCreate(p) /\ lock' = [pid |-> p, whole |-> FALSE] /\ Goes(p, "write")
  <2>1. ~raced => InSection = {} /\ \A q \in Attachers : pc[q] # "clear"
    BY <1>1, SpawnAssumption DEF LockInv, SectionOwns, ClearsTheDead, MayCreate, NoLock, InSection
  <2>2. ProcTypes'
    BY <1>1 DEF LockInv, OpenLock, ProcTypes, Goes, Section
  <2>3. BootIsCurrent' /\ HolderWasBorn'
    BY <1>1 DEF LockInv, OpenLock, ProcTypes, BootIsCurrent, HolderWasBorn, Goes, Running, Ended
  <2>4. SectionOwns' /\ ClearsTheDead' /\ ClearsAlone'
    BY <1>1, <2>1 DEF LockInv, OpenLock, ProcTypes, SectionOwns, ClearsTheDead,
                      ClearsAlone, Goes, InSection
  <2> QED
    BY <2>2, <2>3, <2>4 DEF LockInv
<1>2. CASE Goes(p, "read") /\ UNCHANGED lock
  BY <1>2, ElsewhereKeeps DEF OpenLock, Running, Ended
<1> QED
  BY <1>1, <1>2 DEF OpenLock

LEMMA ReadRecordKeeps ==
  ASSUME OneNodeOnly, LockInv, NEW p \in Attachers, ReadRecord(p)
  PROVE  LockInv'
<1>1. CASE lock.whole /\ IsHolderDead(p, lock.pid)
  <2>1. p \in Running
    BY DEF ReadRecord, Running, Ended
  <2>2. lock.pid \in Attachers
    BY <1>1, SpawnAssumption DEF LockInv, ProcTypes, NoLock
  <2>3. lock.pid \notin Running
    BY <1>1, <2>1, <2>2, DeadIsDead DEF LockInv
  <2>4. /\ pc' = [pc EXCEPT ![p] = "clear"]
        /\ raced' = (raced \/ \E q \in Attachers : pc[q] = "clear")
        /\ UNCHANGED <<bootAt, boot, lock>>
    BY <1>1 DEF ReadRecord, Goes
  <2>5. ProcTypes' /\ BootIsCurrent' /\ HolderWasBorn'
    BY <2>1, <2>4 DEF LockInv, ProcTypes, BootIsCurrent, HolderWasBorn, Running, Ended
  <2>6. SectionOwns'
    BY <2>4 DEF LockInv, ProcTypes, SectionOwns, InSection, Section
  <2>7. ClearsTheDead' /\ ClearsAlone'
    BY <2>1, <2>2, <2>3, <2>4 DEF LockInv, ProcTypes, ClearsTheDead, ClearsAlone, Running, Ended
  <2> QED
    BY <2>5, <2>6, <2>7 DEF LockInv
<1>2. CASE ~(lock.whole /\ IsHolderDead(p, lock.pid))
  BY <1>2, ElsewhereKeeps DEF ReadRecord, Running, Ended
<1> QED
  BY <1>1, <1>2

(* Nobody is in the section when a lock is cleared.                        *)
LEMMA ClearLockKeeps ==
  ASSUME LockInv, NEW p \in Attachers, ClearLock(p)
  PROVE  LockInv'
<1>1. ~raced => InSection = {}
  BY DEF LockInv, ClearLock, SectionOwns, ClearsTheDead, InSection, Running, Section, Ended
<1> QED
  BY <1>1, SpawnAssumption
     DEF LockInv, ClearLock, ProcTypes, BootIsCurrent, HolderWasBorn, SectionOwns,
         ClearsTheDead, ClearsAlone, Goes, AfterClearing, NoLock, Running, InSection,
         Section, Ended

LEMMA ReleaseKeeps ==
  ASSUME LockInv, NEW p \in Attachers, Release(p)
  PROVE  LockInv'
<1>1. p \in InSection /\ p \in Running
  BY DEF Release, InSection, Running, Section, Ended
<1>2. ~raced => InSection = {p}
  BY <1>1 DEF LockInv, SectionOwns
<1>3. ~raced => \A q \in Attachers : pc[q] # "clear"
  BY <1>1 DEF LockInv, SectionOwns, ClearsTheDead
<1> QED
  BY <1>2, <1>3, SpawnAssumption
     DEF LockInv, Release, ProcTypes, BootIsCurrent, HolderWasBorn, SectionOwns,
         ClearsTheDead, ClearsAlone, Goes, Exits, NoLock, Running, InSection,
         Section, Ended

LEMMA WriteRecordKeeps ==
  ASSUME LockInv, NEW p \in Attachers, WriteRecord(p)
  PROVE  LockInv'
<1>1. lock'.pid = lock.pid /\ lock' \in [pid : Attachers, whole : BOOLEAN] \cup {NoLock}
  BY SpawnAssumption DEF LockInv, ProcTypes, WriteRecord, RecordWritten, NoLock
<1> QED
  BY <1>1
     DEF LockInv, WriteRecord, ProcTypes, BootIsCurrent, HolderWasBorn, SectionOwns,
         ClearsTheDead, ClearsAlone, Goes, Running, InSection, Section, Ended

LEMMA BeginKeeps ==
  ASSUME LockInv, NEW p \in Attachers, Begin(p)
  PROVE  LockInv'
<1> USE SpawnAssumption DEF LockInv, Begin, Goes
<1>1. ProcTypes' /\ BootIsCurrent'
  BY DEF ProcTypes, BootIsCurrent, Running, Ended
<1>2. HolderWasBorn' /\ SectionOwns'
  BY DEF ProcTypes, HolderWasBorn, SectionOwns, InSection, Section
<1>3. ClearsTheDead' /\ ClearsAlone'
  BY DEF ProcTypes, HolderWasBorn, ClearsTheDead, ClearsAlone, Running, Ended
<1> QED
  BY <1>1, <1>2, <1>3

LEMMA RebootKeeps ==
  ASSUME LockInv, NEW n \in Nodes, Reboot(n)
  PROVE  LockInv'
<1> USE SpawnAssumption DEF LockInv, Reboot
<1>1. ProcTypes'
  BY DEF ProcTypes, Running, Ended
<1>2. BootIsCurrent'
  BY DEF ProcTypes, BootIsCurrent, Running, Ended
<1>3. HolderWasBorn' /\ SectionOwns'
  BY DEF ProcTypes, HolderWasBorn, SectionOwns, InSection, Section, Running, Ended
<1>4. ClearsTheDead' /\ ClearsAlone'
  BY DEF ProcTypes, ClearsTheDead, ClearsAlone, Running, Ended
<1> QED
  BY <1>1, <1>2, <1>3, <1>4

----------------------------------------------------------------------------
LEMMA LockUnchanged ==
  LockInv /\ UNCHANGED <<pc, bootAt, boot, lock, raced>> => LockInv'
  BY DEF LockInv, ProcTypes, BootIsCurrent, HolderWasBorn, SectionOwns,
         ClearsTheDead, ClearsAlone, Running, InSection

(* Every step of the system keeps the invariant.                           *)
LEMMA StepKeepsLock ==
  ASSUME OneNodeOnly, LockInv, [Next]_spawnVars
  PROVE  LockInv'
<1>1. CASE UNCHANGED spawnVars
  BY <1>1, LockUnchanged DEF spawnVars
<1>2. ASSUME NEW p \in Attachers,
             OpenLock(p) \/ WriteRecord(p) \/ ReadRecord(p) \/ ClearLock(p)
               \/ Release(p) \/ Begin(p)
      PROVE  LockInv'
  BY <1>2, OpenLockKeeps, WriteRecordKeeps, ReadRecordKeeps, ClearLockKeeps,
     ReleaseKeeps, BeginKeeps
<1>3. ASSUME NEW p \in Attachers,
             Probe(p) \/ UnlinkSocket(p) \/ Daemonize(p) \/ WaitEnds(p)
               \/ WaitExpires(p) \/ End(p)
      PROVE  LockInv'
  <2>1. p \in Running /\ UNCHANGED <<bootAt, boot, lock, raced>>
    BY <1>3 DEF Probe, UnlinkSocket, Daemonize, WaitEnds, WaitExpires, End, Running, Ended
  <2>2. CASE Probe(p)
    <3>1. Goes(p, "open") \/ Goes(p, "proxy") \/ Goes(p, "exited")
      BY <2>2 DEF Probe, Exits
    <3> QED
      BY <2>1, <3>1, ElsewhereKeeps
  <2>3. CASE UnlinkSocket(p) \/ Daemonize(p)
    <3>1. p \in InSection
      BY <2>3 DEF UnlinkSocket, Daemonize, InSection, Section
    <3>2. Goes(p, "spawn") \/ Goes(p, "started")
      BY <2>3 DEF UnlinkSocket, Daemonize
    <3> QED
      BY <2>1, <3>1, <3>2, ElsewhereKeeps DEF Section
  <2>4. CASE WaitEnds(p) \/ WaitExpires(p)
    <3>1. CASE pc[p] = "wait"
      <4>1. Goes(p, "proxy") \/ Goes(p, "exited")
        BY <2>4, <3>1 DEF WaitEnds, WaitExpires, Exits
      <4> QED
        BY <2>1, <4>1, ElsewhereKeeps
    <3>2. CASE pc[p] = "started"
      <4>1. Goes(p, "release") /\ p \in InSection
        BY <2>4, <3>2 DEF WaitEnds, WaitExpires, InSection, Section
      <4> QED
        BY <2>1, <4>1, ElsewhereKeeps DEF Section
    <3> QED
      BY <2>4, <3>1, <3>2 DEF WaitEnds, WaitExpires
  <2>5. CASE End(p)
    BY <2>1, <2>5, ElsewhereKeeps DEF End, Exits
  <2> QED
    BY <1>3, <2>2, <2>3, <2>4, <2>5
<1>4. ASSUME NEW p \in Attachers,
             Recycle(p) \/ StartStep(p) \/ StopListening(p) \/ FinishClosing(p)
               \/ DaemonDies(p)
      PROVE  LockInv'
  BY <1>4, LockUnchanged
     DEF Recycle, StartStep, Bind, Publish, Beat, StopListening, FinishClosing, DaemonDies
<1>5. CASE HeartbeatAges
  BY <1>5, LockUnchanged DEF HeartbeatAges
<1>6. CASE \E n \in Nodes : Reboot(n)
  BY <1>6, RebootKeeps
<1> QED
  BY <1>1, <1>2, <1>3, <1>4, <1>5, <1>6 DEF Next, AttachStep

(* On one node the spawn lock excludes, unless two processes cleared a     *)
(* stale lock at the same time: session-lock.ts, acquireSpawnLock.         *)
THEOREM SpawnLockExcludes ==
  ASSUME OneNodeOnly
  PROVE  Spec => []LockIsExclusive
<1>1. Init => LockInv
  BY InitLock
<1>2. LockInv /\ [Next]_spawnVars => LockInv'
  BY StepKeepsLock
<1>3. LockInv => LockIsExclusive
  BY DEF LockInv, SectionOwns, LockIsExclusive
<1> QED
  BY <1>1, <1>2, <1>3, PTL DEF Spec
----------------------------------------------------------------------------
(* A step of one process or of the daemon it started keeps the types.      *)
LEMMA StepKeepsTypes ==
  ASSUME TypeOK, NEW p \in Attachers,
         \/ Begin(p) \/ AttachStep(p) \/ WaitExpires(p) \/ End(p) \/ Recycle(p)
         \/ StartStep(p) \/ StopListening(p) \/ FinishClosing(p) \/ DaemonDies(p)
  PROVE  TypeOK'
<1> USE SpawnAssumption DEF TypeOK, Section, Ended
<1>1. CASE Begin(p)
  BY <1>1 DEF Begin, Goes
<1>2. CASE Probe(p)
  BY <1>2 DEF Probe, Goes, Exits, Joins, Behind, Listening
<1>3. CASE OpenLock(p)
  <2>1. lock' = [pid |-> p, whole |-> FALSE] \/ lock' = lock
    BY <1>3 DEF OpenLock
  <2>2. Goes(p, "write") \/ Goes(p, "read")
    BY <1>3 DEF OpenLock
  <2>3. UNCHANGED <<bootAt, served, boot, recycled, daemon, sock, raced>>
    BY <1>3 DEF OpenLock
  <2> QED
    <3>1. lock' \in [pid : Attachers, whole : BOOLEAN] \cup {NoLock}
      <4>1. [pid |-> p, whole |-> FALSE] \in [pid : Attachers, whole : BOOLEAN]
        OBVIOUS
      <4>2. lock \in [pid : Attachers, whole : BOOLEAN] \cup {NoLock}
        OBVIOUS
      <4> QED
        BY <2>1, <4>1, <4>2
    <3> QED
      BY <2>2, <2>3, <3>1 DEF Goes
<1>4. CASE WriteRecord(p)
  BY <1>4 DEF WriteRecord, Goes, RecordWritten, NoLock
<1>5. CASE ReadRecord(p)
  BY <1>5 DEF ReadRecord, Goes
<1>6. CASE ClearLock(p)
  BY <1>6 DEF ClearLock, Goes, AfterClearing
<1>7. CASE UnlinkSocket(p)
  BY <1>7 DEF UnlinkSocket, Goes
<1>8. CASE Daemonize(p)
  BY <1>8 DEF Daemonize, Goes
<1>9. CASE WaitEnds(p)
  BY <1>9 DEF WaitEnds, Goes, Joins, Behind, Listening
<1>10. CASE WaitExpires(p)
  BY <1>10 DEF WaitExpires, Goes, Exits
<1>11. CASE Release(p)
  BY <1>11 DEF Release, Goes, Exits
<1>12. CASE End(p)
  BY <1>12 DEF End, Goes, Exits
<1>13. CASE Recycle(p)
  BY <1>13 DEF Recycle
<1>14. CASE Bind(p)
  BY <1>14 DEF Bind
<1>15. CASE Publish(p)
  BY <1>15 DEF Publish
<1>16. CASE Beat(p)
  BY <1>16 DEF Beat
<1>17. CASE StopListening(p)
  BY <1>17 DEF StopListening
<1>18. CASE FinishClosing(p)
  BY <1>18 DEF FinishClosing
<1>19. CASE DaemonDies(p)
  BY <1>19 DEF DaemonDies
<1> QED
  BY <1>1, <1>2, <1>3, <1>4, <1>5, <1>6, <1>7, <1>8, <1>9, <1>10,
     <1>11, <1>12, <1>13, <1>14, <1>15, <1>16, <1>17, <1>18, <1>19 DEF AttachStep, StartStep

(* A reboot does, as no boot exceeds the bound.                            *)
LEMMA RebootKeepsTypes ==
  ASSUME TypeOK, NEW n \in Nodes, Reboot(n)
  PROVE  TypeOK'
<1> USE SpawnAssumption DEF TypeOK, Reboot, Section, Ended
<1>1. boot' \in [Nodes -> 1 .. MaxBoots]
  OBVIOUS
<1>2. pc' \in [Attachers -> {"probe", "open", "read", "clear", "wait", "proxy"}
                              \cup Section \cup Ended]
  OBVIOUS
<1>3. /\ daemon' \in [Attachers -> {"none", "starting", "bound", "published", "serving",
                                    "closing", "gone"}]
      /\ sock' \in [Nodes -> Attachers \cup {Nobody}]
  OBVIOUS
<1> QED
  BY <1>1, <1>2, <1>3

(* Processes, lock, socket and daemons keep their types, on any nodes.     *)
THEOREM SpawnTypeCorrect == Spec => []TypeOK
<1>1. Init => TypeOK
  <2> SUFFICES ASSUME Init PROVE TypeOK
    OBVIOUS
  <2>1. pc \in [Attachers -> Ended] /\ bootAt \in [Attachers -> 0 .. MaxBoots]
    BY SpawnAssumption DEF Init, Ended
  <2>2. boot \in [Nodes -> 1 .. MaxBoots] /\ sock \in [Nodes -> Attachers \cup {Nobody}]
    BY SpawnAssumption DEF Init
  <2>3. /\ served \in [Attachers -> Attachers \cup {Nobody}]
        /\ daemon \in [Attachers -> {"none"}]
    BY DEF Init
  <2>4. lock \in {NoLock} /\ recycled \in SUBSET Attachers /\ raced \in BOOLEAN
    BY DEF Init
  <2> QED
    BY <2>1, <2>2, <2>3, <2>4 DEF TypeOK
<1>2. TypeOK /\ [Next]_spawnVars => TypeOK'
  <2> SUFFICES ASSUME TypeOK, [Next]_spawnVars PROVE TypeOK'
    OBVIOUS
  <2>1. CASE UNCHANGED <<spawnVars>>
    BY <2>1 DEF spawnVars, TypeOK
  <2>2. CASE HeartbeatAges
    BY <2>2 DEF HeartbeatAges, TypeOK
  <2> QED
    BY <2>1, <2>2, StepKeepsTypes, RebootKeepsTypes DEF Next
<1> QED
  BY <1>1, <1>2, PTL DEF Spec
=============================================================================
