---------------------------- MODULE SessionSpawn ----------------------------
(***************************************************************************)
(* How a session gets its daemon.  Any number of "pdv-server attach"       *)
(* processes may look for the session's socket at once; one that finds     *)
(* nobody behind it takes the spawn lock, removes the socket file, starts  *)
(* a daemon and waits for it, while those that find the lock taken wait    *)
(* for somebody else's.                                                    *)
(*                                                                         *)
(* Processes share nothing but files, so every file operation is a step of *)
(* its own.  The lock, session.json and the heartbeat live on a home that  *)
(* all login nodes share; the socket is local to its node.  A process      *)
(* stands for its pid, and a daemon has the name of the attach process     *)
(* that started it.                                                        *)
(***************************************************************************)
EXTENDS Integers

CONSTANTS
  Attachers,  \* the attach processes that may be run
  Creators,   \* those run with --create
  Nodes,      \* the login nodes
  NodeOf,     \* where each of them runs
  MaxBoots,   \* bound: boots of a node
  Nobody      \* no process, and no daemon

ASSUME SpawnAssumption ==
  /\ Nobody \notin Attachers
  /\ Creators \subseteq Attachers
  /\ NodeOf \in [Attachers -> Nodes]
  /\ MaxBoots \in Nat \ {0}

VARIABLES
  pc,        \* per process: where it is
  tries,     \* per process: how often acquireSpawnLock cleared a lock
  bootAt,    \* per process: the boot of its node it was started in
  seen,      \* per process: the daemon session.json named when it looked
  served,    \* per process: the daemon it is connected to
  boot,      \* per node: the current boot
  recycled,  \* ended processes whose pid a stranger runs under now
  lock,      \* the lockfile: whose it is, and whether its record is written
  daemon,    \* per daemon: how far it is
  sock,      \* per node: the daemon whose socket file is there
  meta,      \* the daemon session.json names
  beat,      \* the heartbeat: "absent", "fresh" or "stale"
  raced      \* history: two processes were about to clear the lock at once

spawnVars == <<pc, tries, bootAt, seen, served, boot, recycled, lock, daemon,
               sock, meta, beat, raced>>

NoLock == [pid |-> Nobody, whole |-> FALSE]

Init ==
  /\ pc = [p \in Attachers |-> "unborn"]
  /\ tries = [p \in Attachers |-> 0]
  /\ bootAt = [p \in Attachers |-> 0]
  /\ seen = [p \in Attachers |-> Nobody]
  /\ served = [p \in Attachers |-> Nobody]
  /\ boot = [n \in Nodes |-> 1]
  /\ recycled = {}
  /\ lock = NoLock
  /\ daemon = [p \in Attachers |-> "none"]
  /\ sock = [n \in Nodes |-> Nobody]
  /\ meta = Nobody
  /\ beat = "absent"
  /\ raced = FALSE

----------------------------------------------------------------------------
Ended == {"unborn", "exited"}
Running == {p \in Attachers : pc[p] \notin Ended}
Listening == {d \in Attachers : daemon[d] \in {"bound", "published", "serving"}}

(* The daemon a connection to node n's socket reaches, if any.             *)
Behind(n) == IF sock[n] \in Listening THEN sock[n] ELSE Nobody

(* From a process's success at taking the lock to its release of it.       *)
Section == {"write", "unlink", "spawn", "started", "release"}
InSection == {p \in Attachers : pc[p] \in Section}

Goes(p, to) == pc' = [pc EXCEPT ![p] = to]

(* A process ends; the daemon it started lives on.                         *)
Exits(p) == Goes(p, "exited")

Begin(p) ==
  /\ pc[p] = "unborn"
  /\ Goes(p, "probe")
  /\ bootAt' = [bootAt EXCEPT ![p] = boot[NodeOf[p]]]
  /\ seen' = [seen EXCEPT ![p] = meta]
  /\ UNCHANGED <<tries, served, boot, recycled, lock, daemon, sock, meta, beat, raced>>

Joins(p) ==
  /\ Behind(NodeOf[p]) # Nobody
  /\ served' = [served EXCEPT ![p] = Behind(NodeOf[p])]

(* The daemon on record is alive, as far as its heartbeat tells, on a node *)
(* this process is not on.                                                 *)
WrongNode(p) ==
  seen[p] # Nobody /\ NodeOf[seen[p]] # NodeOf[p] /\ beat = "fresh"

(* The first look at the socket, and what is decided from it.              *)
Probe(p) ==
  /\ pc[p] = "probe"
  /\ \/ Joins(p) /\ Goes(p, "proxy")
     \/ /\ Behind(NodeOf[p]) = Nobody
        /\ IF WrongNode(p) \/ p \notin Creators THEN Exits(p) ELSE Goes(p, "open")
        /\ UNCHANGED served
  /\ UNCHANGED <<tries, bootAt, seen, boot, recycled, lock, daemon, sock, meta,
                 beat, raced>>

----------------------------------------------------------------------------
(* acquireSpawnLock, one file operation at a time.                         *)

(* Mutant: the lockfile is opened without O_EXCL.                          *)
MayCreateAlways(p) == TRUE

(* open(2) with O_CREAT | O_EXCL succeeds.                                 *)
MayCreate(p) == lock = NoLock

OpenLock(p) ==
  /\ pc[p] = "open"
  /\ \/ MayCreate(p) /\ lock' = [pid |-> p, whole |-> FALSE] /\ Goes(p, "write")
     \/ ~MayCreate(p) /\ Goes(p, "read") /\ UNCHANGED lock
  /\ UNCHANGED <<tries, bootAt, seen, served, boot, recycled, daemon, sock, meta,
                 beat, raced>>

(* The record is written to the file that was opened, which may be gone.   *)
RecordWritten(p) == IF lock.pid = p THEN [lock EXCEPT !.whole = TRUE] ELSE lock

WriteRecord(p) ==
  /\ pc[p] = "write"
  /\ lock' = RecordWritten(p)
  /\ Goes(p, "unlink")
  /\ UNCHANGED <<tries, bootAt, seen, served, boot, recycled, daemon, sock, meta,
                 beat, raced>>

(* kill(pid, 0), asked on the node of p.                                   *)
PidIsAlive(p, q) == NodeOf[q] = NodeOf[p] /\ q \in Running \cup recycled

BootId(p) == <<NodeOf[p], bootAt[p]>>

(* Mutant: the liveness probe alone.                                       *)
ProbeOnly(p, q) == ~PidIsAlive(p, q)

IsHolderDead(p, q) == BootId(q) # BootId(p) \/ ~PidIsAlive(p, q)

(* The lock was there: its record is read, and its holder looked at.       *)
ReadRecord(p) ==
  /\ pc[p] = "read"
  /\ IF lock.whole /\ IsHolderDead(p, lock.pid)
     THEN /\ Goes(p, "clear")
          /\ raced' = (raced \/ \E q \in Attachers : pc[q] = "clear")
     ELSE Goes(p, "wait") /\ UNCHANGED raced
  /\ UNCHANGED <<tries, bootAt, seen, served, boot, recycled, lock, daemon, sock,
                 meta, beat>>

(* One retry, and only one.                                                *)
AfterClearing(p) == IF tries[p] = 0 THEN "open" ELSE "wait"

ClearLock(p) ==
  /\ pc[p] = "clear"
  /\ lock' = NoLock
  /\ tries' = [tries EXCEPT ![p] = @ + 1]
  /\ Goes(p, AfterClearing(p))
  /\ UNCHANGED <<bootAt, seen, served, boot, recycled, daemon, sock, meta, beat, raced>>

----------------------------------------------------------------------------
(* The lock is held: a leftover socket file would block bind(2).           *)
UnlinkSocket(p) ==
  /\ pc[p] = "unlink"
  /\ sock' = [sock EXCEPT ![NodeOf[p]] = Nobody]
  /\ Goes(p, "spawn")
  /\ UNCHANGED <<tries, bootAt, seen, served, boot, recycled, lock, daemon, meta,
                 beat, raced>>

Daemonize(p) ==
  /\ pc[p] = "spawn"
  /\ daemon' = [daemon EXCEPT ![p] = "starting"]
  /\ Goes(p, "started")
  /\ UNCHANGED <<tries, bootAt, seen, served, boot, recycled, lock, sock, meta,
                 beat, raced>>

(* waitForSocket: somebody answers, or the budget runs out.  Whoever holds *)
(* the lock gives it back either way.                                      *)
WaitEnds(p) ==
  /\ pc[p] \in {"wait", "started"} /\ Joins(p)
  /\ Goes(p, IF pc[p] = "wait" THEN "proxy" ELSE "release")
  /\ UNCHANGED <<tries, bootAt, seen, boot, recycled, lock, daemon, sock, meta,
                 beat, raced>>

WaitExpires(p) ==
  /\ pc[p] \in {"wait", "started"}
  /\ IF pc[p] = "wait" THEN Exits(p) ELSE Goes(p, "release")
  /\ UNCHANGED <<tries, bootAt, seen, served, boot, recycled, lock, daemon, sock,
                 meta, beat, raced>>

(* release(): whatever lockfile is there is removed.                       *)
Release(p) ==
  /\ pc[p] = "release"
  /\ lock' = NoLock
  /\ IF served[p] = Nobody THEN Exits(p) ELSE Goes(p, "proxy")
  /\ UNCHANGED <<tries, bootAt, seen, served, boot, recycled, daemon, sock, meta,
                 beat, raced>>

(* The process is killed, or its channel is over.                          *)
End(p) ==
  /\ p \in Running
  /\ Exits(p)
  /\ UNCHANGED <<tries, bootAt, seen, served, boot, recycled, lock, daemon, sock,
                 meta, beat, raced>>

(* The operating system hands the pid of an ended process to a stranger.   *)
Recycle(p) ==
  /\ pc[p] = "exited"
  /\ recycled' = recycled \cup {p}
  /\ UNCHANGED <<pc, tries, bootAt, seen, served, boot, lock, daemon, sock, meta,
                 beat, raced>>

----------------------------------------------------------------------------
(* The daemon binds its socket; a file that is there already makes it exit.*)
Bind(d) ==
  /\ daemon[d] = "starting"
  /\ \/ /\ sock[NodeOf[d]] = Nobody
        /\ sock' = [sock EXCEPT ![NodeOf[d]] = d]
        /\ daemon' = [daemon EXCEPT ![d] = "bound"]
     \/ /\ sock[NodeOf[d]] # Nobody
        /\ daemon' = [daemon EXCEPT ![d] = "gone"]
        /\ UNCHANGED sock
  /\ UNCHANGED <<pc, tries, bootAt, seen, served, boot, recycled, lock, meta, beat, raced>>

(* session.json is written once the socket listens, then the heartbeat.    *)
Publish(d) ==
  /\ daemon[d] = "bound"
  /\ daemon' = [daemon EXCEPT ![d] = "published"]
  /\ meta' = d
  /\ UNCHANGED <<pc, tries, bootAt, seen, served, boot, recycled, lock, sock, beat, raced>>

Beat(d) ==
  /\ daemon[d] = "published"
  /\ daemon' = [daemon EXCEPT ![d] = "serving"]
  /\ beat' = "fresh"
  /\ UNCHANGED <<pc, tries, bootAt, seen, served, boot, recycled, lock, sock, meta, raced>>

(* Five minutes pass with no daemon to touch the heartbeat.                *)
HeartbeatAges ==
  /\ beat = "fresh"
  /\ \A d \in Attachers : daemon[d] # "serving"
  /\ beat' = "stale"
  /\ UNCHANGED <<pc, tries, bootAt, seen, served, boot, recycled, lock, daemon, sock,
                 meta, raced>>

(* host.close(): the listener stops, which removes the socket file, and    *)
(* once its connections are gone the file is removed again.  Either way it *)
(* is the file at that path that goes, whoever bound it.                   *)
StopListening(d) ==
  /\ d \in Listening
  /\ daemon' = [daemon EXCEPT ![d] = "closing"]
  /\ sock' = [sock EXCEPT ![NodeOf[d]] = Nobody]
  /\ UNCHANGED <<pc, tries, bootAt, seen, served, boot, recycled, lock, meta, beat, raced>>

FinishClosing(d) ==
  /\ daemon[d] = "closing"
  /\ daemon' = [daemon EXCEPT ![d] = "gone"]
  /\ sock' = [sock EXCEPT ![NodeOf[d]] = Nobody]
  /\ UNCHANGED <<pc, tries, bootAt, seen, served, boot, recycled, lock, meta, beat, raced>>

DaemonDies(d) ==
  /\ daemon[d] \notin {"none", "gone"}
  /\ daemon' = [daemon EXCEPT ![d] = "gone"]
  /\ UNCHANGED <<pc, tries, bootAt, seen, served, boot, recycled, lock, sock, meta,
                 beat, raced>>

(* A node restarts: its processes and daemons are gone, the shared home is *)
(* not, and the socket's directory may or may not survive.                 *)
Reboot(n) ==
  /\ boot[n] < MaxBoots
  /\ boot' = [boot EXCEPT ![n] = @ + 1]
  /\ pc' = [p \in Attachers |->
              IF NodeOf[p] = n /\ p \in Running THEN "exited" ELSE pc[p]]
  /\ daemon' = [d \in Attachers |->
                  IF NodeOf[d] = n /\ daemon[d] # "none" THEN "gone" ELSE daemon[d]]
  /\ \/ sock' = [sock EXCEPT ![n] = Nobody]
     \/ UNCHANGED sock
  /\ UNCHANGED <<tries, bootAt, seen, served, recycled, lock, meta, beat, raced>>

----------------------------------------------------------------------------
AttachStep(p) ==
  \/ Probe(p) \/ OpenLock(p) \/ WriteRecord(p) \/ ReadRecord(p) \/ ClearLock(p)
  \/ UnlinkSocket(p) \/ Daemonize(p) \/ WaitEnds(p) \/ Release(p)

StartStep(d) == Bind(d) \/ Publish(d) \/ Beat(d)

Next ==
  \/ \E p \in Attachers :
       \/ Begin(p) \/ AttachStep(p) \/ WaitExpires(p) \/ End(p) \/ Recycle(p)
       \/ StartStep(p) \/ StopListening(p) \/ FinishClosing(p) \/ DaemonDies(p)
  \/ HeartbeatAges
  \/ \E n \in Nodes : Reboot(n)

Spec == Init /\ [][Next]_spawnVars

(* Processes run; no budget has to run out, and nobody has to die.         *)
AttachersRun == \A p \in Attachers : WF_spawnVars(AttachStep(p))

----------------------------------------------------------------------------
(* The types of the variables.                                             *)
TypeOK ==
  /\ pc \in [Attachers -> {"probe", "open", "read", "clear", "wait", "proxy"}
                             \cup Section \cup Ended]
  /\ bootAt \in [Attachers -> 0 .. MaxBoots]
  /\ boot \in [Nodes -> 1 .. MaxBoots]
  /\ lock \in [pid : Attachers, whole : BOOLEAN] \cup {NoLock}
  /\ recycled \in SUBSET Attachers
  /\ served \in [Attachers -> Attachers \cup {Nobody}]
  /\ daemon \in [Attachers -> {"none", "starting", "bound", "published", "serving",
                                 "closing", "gone"}]
  /\ sock \in [Nodes -> Attachers \cup {Nobody}]
  /\ raced \in BOOLEAN

(* The spawn lock excludes: two processes of one node are in the section   *)
(* together only if two of them once cleared a stale lock at the same time.*)
(* Kills, reboots and recycled pids alone cannot bring it about.           *)
LockIsExclusive ==
  ~raced => \A p, q \in InSection : p = q

(* A stale lock that can be read does not keep a session from starting: a  *)
(* process alone with it takes the lock, also after a reboot that gave the *)
(* recorded pid to a stranger; only a stranger of the same boot passes for *)
(* the holder.                                                             *)
Disguised(q) == q \in recycled /\ bootAt[q] = boot[NodeOf[q]]
AloneWithLock(p) ==
  /\ pc[p] = "open" /\ tries[p] = 0 /\ Running = {p}
  /\ lock.whole /\ lock.pid # p
StaleLockYields ==
  \A p \in Attachers :
    AloneWithLock(p) ~> pc[p] \in Section \/ Running # {p} \/ Disguised(lock.pid)

----------------------------------------------------------------------------
(* What the comments promise and the code does not keep, one by one: each  *)
(* is refuted by a run.                                                    *)

(* One session has one daemon (session-lock.ts: "so one session never gets *)
(* two daemons").                                                          *)
OneDaemon == \A c, d \in Listening : c = d

(* A lock is removed by its holder or because its holder is dead (session- *)
(* lock.ts: "A lock is only ever removed when it is *provably* stale").    *)
OnlyStaleIsCleared ==
  [][\A p \in Attachers :
       lock.pid = p /\ lock'.pid # p => pc[p] = "release" \/ p \notin Running]_spawnVars
=============================================================================
