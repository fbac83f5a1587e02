------------------------ MODULE ProjectSave_proofs ------------------------
(***************************************************************************)
(* Proofs about ProjectSave, for any nodes and any bounds: the types, that *)
(* project.json comes last, that a snapshot nothing has touched can be     *)
(* restored and is restored faithfully, that a project:save which commits  *)
(* has on disk what the user saw when asking for it but for the nodes its  *)
(* answer lists as failed, and that of those the last copy is kept.        *)
(***************************************************************************)
EXTENDS ProjectSave, TLAPS

----------------------------------------------------------------------------
(* The parts of the invariant.                                             *)

JobRecord ==
  [kind : {"save", "script", "clear", "load"}, dir : {"auto", "canon"}, call : Nat, clear : BOOLEAN]
CallRecord ==
  [id : Nat, kind : {"save", "autosave"},
   stage : {"queued", "asked", "answered", "failed", "cells", "modules", "committed"},
   seen : [Nodes -> Version], since : Nat, missing : BOOLEAN, failed : SUBSET Nodes, run : Nat]
LeftRecord == [run : Nat, missing : BOOLEAN, failed : SUBSET Nodes, session : Nat]
OpeningRecord ==
  [stage : {"no", "copy", "overlay", "copied", "active", "asked", "loaded"},
   restore : BOOLEAN, restart : BOOLEAN, chosen : [Nodes -> Version], crossed : BOOLEAN]
CanonRecord ==
  [files : Files, index : Indexes, cells : Nat, modules : Nat, env : Nat,
   manifest : [call : Nat, run : Nat]]
AutoRecord == [files : Files, index : Indexes \cup {None}]
CountRecord == [edits : Nat, calls : Nat, runs : Nat, scripts : Nat, restarts : Nat]

KernelTypes ==
  /\ tree \in [Nodes -> Version] /\ backed \in BOOLEAN /\ cache \in Descriptors
  /\ jobs \in Seq(JobRecord) /\ doing \in Collections \cup {None}
ServerTypes ==
  /\ calls \in Seq(CallRecord) /\ results \in LeftRecord \cup {None}
  /\ dirty \in BOOLEAN /\ clearing \in {"no", "asked", "answered"}
  /\ opening \in OpeningRecord /\ active \in BOOLEAN
DiskTypes ==
  /\ canon \in CanonRecord /\ auto \in AutoRecord /\ work \in Files
  /\ removing \subseteq {"files", "index"}
HistoryTypes ==
  count \in CountRecord /\ unsettled \in BOOLEAN /\ stranded \in BOOLEAN /\ swept \in BOOLEAN
Types == KernelTypes /\ ServerTypes /\ DiskTypes /\ HistoryTypes

(* The kernel is at the save at the head of its queue, and a save is of    *)
(* the kind of the call that asked for it.                                 *)
Explicit == doing # None /\ Head(jobs).dir = "canon"
JobsInv ==
  /\ doing # None => jobs # <<>> /\ Head(jobs).kind \in {"save", "script"}
  /\ \A j \in DOMAIN jobs :
       /\ jobs[j].kind = "script" => jobs[j].dir = "canon" /\ jobs[j].call = 0
       /\ jobs[j].call <= count.calls
       /\ \A i \in DOMAIN calls :
            jobs[j].call = calls[i].id => (jobs[j].dir = "canon" <=> calls[i].kind = "save")

(* The calls stand in the order they were made, and the first one works.   *)
CallsInv ==
  /\ \A i \in DOMAIN calls : calls[i].id \in 1 .. count.calls /\ calls[i].since <= count.runs
  /\ \A i, j \in DOMAIN calls : i < j => calls[i].id < calls[j].id
  /\ \A i \in DOMAIN calls : i # 1 => calls[i].stage \in {"queued", "failed"}

(* What a save has written is of that save until it ends.                  *)
Written(c) ==
  /\ c.stage \in {"cells", "modules", "committed"} =>
       c.kind = "save" /\ ~c.missing /\ canon.cells = c.id
  /\ c.stage \in {"answered", "cells", "modules", "committed"} /\ c.kind = "save" /\ ~c.missing =>
       c.run <= canon.index.by
CommitInv ==
  /\ CommitIsLast
  /\ canon.manifest.call <= count.calls /\ canon.index.by <= count.runs
  /\ \A i \in DOMAIN calls : canon.manifest.call <= calls[i].id /\ Written(calls[i])
  /\ results # None /\ ~results.missing => results.run <= canon.index.by

(* A file the cache remembers is where an index names it, unless an        *)
(* explicit save has left it behind.                                       *)
Kept(f) == f \in auto.files \cup (canon.files \cap Named(canon.index))
CacheInv ==
  /\ \A f \in canon.files \cup auto.files : f.run <= count.runs
  /\ ~stranded /\ ~Explicit =>
       \A n \in Nodes : cache[n] \in canon.files => cache[n] \in Named(canon.index)
SnapshotInv ==
  /\ removing # {} => unsettled /\ (doing # None => swept)
  /\ Explicit => unsettled
  /\ doing # None /\ ~Explicit /\ ~swept /\ ~stranded =>
       \A n \in Nodes : doing.at[n] # None =>
         Kept(doing.at[n]) \/ (n \in doing.failed /\ unsettled)
  /\ SnapshotRestores

(* The kernel is asked to load by an active project being opened, once.    *)
(* While nothing crosses the opening, that is all the kernel has to do,    *)
(* and what was chosen is on its way to the tree.                          *)
LoadJob == [ClearJob EXCEPT !.kind = "load"]
Undisturbed == opening.stage # "no" /\ ~opening.crossed
LoadsInv ==
  /\ ~active => jobs = <<>> /\ calls = <<>>
  /\ opening.stage \in {"active", "asked", "loaded"} => active
  /\ \A j \in DOMAIN jobs : jobs[j].kind = "load" =>
       opening.stage = "asked" /\ \A k \in DOMAIN jobs : jobs[k].kind = "load" => k = j
OpeningInv ==
  /\ LoadsInv
  /\ Undisturbed =>
       /\ doing = None
       /\ jobs = IF opening.stage = "asked" THEN <<LoadJob>> ELSE <<>>
       /\ opening.stage # "loaded" /\ opening.chosen # Absent =>
            /\ opening.restore /\ ~unsettled /\ auto.index # None
            /\ opening.chosen = Versions(auto.index)
       /\ opening.stage = "overlay" => Named(canon.index) \cap canon.files \subseteq work
       /\ opening.stage \in {"copied", "active", "asked"} /\ opening.chosen # Absent =>
            Named(auto.index) \subseteq work
  /\ RestoreIsFaithful

(* Versions only grow: those on disk are at most the last, and at least    *)
(* what a call that was made before them has seen.                         *)
VersionOf(at, n) == IF at[n] = None THEN 0 ELSE at[n].ver
VersionsInv ==
  \A n \in Nodes :
    /\ tree[n] <= count.edits + 1
    /\ Versions(canon.index)[n] <= count.edits + 1
    /\ Versions(auto.index)[n] <= count.edits + 1
    /\ doing # None => VersionOf(doing.at, n) <= count.edits + 1
(* The tree is gone until it is loaded, and no save will look at it.       *)
Reloading ==
  opening.stage \notin {"no", "loaded"} /\ doing = None /\ \A j \in DOMAIN jobs : jobs[j].kind = "load"
Remembered(c) ==
  /\ \/ \A n \in Nodes : tree[n] >= c.seen[n]
     \/ c.stage \notin {"queued", "asked"} /\ Reloading
  /\ doing # None /\ c.since < count.runs =>
       \A n \in Nodes \ doing.failed : VersionOf(doing.at, n) >= c.seen[n]
SeenInv == \A i \in DOMAIN calls : calls[i].stage # "failed" => Remembered(calls[i])
(* A call that has written nothing.                                        *)
Unwritten(c) ==
  \/ c.stage \in {"queued", "asked", "failed"}
  \/ c.stage = "answered" /\ (c.kind # "save" \/ c.missing)
(* The index holds what a call has seen, but for nodes that were skipped.  *)
Stored(c, skipped) == \A n \in Nodes \ skipped : Versions(canon.index)[n] >= c.seen[n]
StoredInv ==
  \A i \in DOMAIN calls : calls[i].stage # "failed" =>
    /\ results # None /\ ~results.missing /\ calls[i].since < results.run =>
         Stored(calls[i], results.failed)
    /\ ~Unwritten(calls[i]) /\ calls[i].since < calls[i].run => Stored(calls[i], calls[i].failed)
(* The project has the files its index names.  So has an explicit save of  *)
(* those it has collected, and a node it skips keeps its descriptor.       *)
CopiesInv ==
  /\ \A n \in Nodes : canon.index.at[n] # None => canon.index.at[n] \in canon.files
  /\ Explicit => \A n \in Nodes :
       /\ n \in doing.failed => doing.at[n] = canon.index.at[n]
       /\ doing.at[n] # None => doing.at[n] \in canon.files
       /\ tree[n] # 0 => doing.at[n] # None \/ canon.index.at[n] = None

----------------------------------------------------------------------------
(* What the operators of the model do.                                     *)

(* One of the bounded counts goes up.                                      *)
LEMMA Counting ==
  ASSUME count \in CountRecord, NEW what \in {"edits", "calls", "runs", "scripts", "restarts"},
         Counted(what)
  PROVE  /\ count' \in CountRecord
         /\ count'.edits = IF what = "edits" THEN count.edits + 1 ELSE count.edits
         /\ count'.calls = IF what = "calls" THEN count.calls + 1 ELSE count.calls
         /\ count'.runs = IF what = "runs" THEN count.runs + 1 ELSE count.runs
  BY DEF Counted, CountRecord

(* What a save collects: the earlier descriptor of each node it skips, and *)
(* every other node in the tree at its version, in a file it mints or in   *)
(* one the cache remembers and it can reach.                               *)
Collects(at, failed, cached, prior) ==
  /\ at \in Descriptors
  /\ \A n \in failed : at[n] = prior[n]
  /\ \A n \in Nodes \ failed : VersionOf(at, n) = tree[n]
  /\ \A n \in Nodes \ failed : at[n] # None =>
       at[n].run = count.runs + 1 \/ (at[n] = cached[n] /\ Reachable(at[n]))

(* Collected: so does the function _collect_nodes returns.                 *)
LEMMA Collecting ==
  ASSUME Types, NEW cached \in Descriptors, NEW prior \in Descriptors,
         NEW failed \in SUBSET Refusable(cached)
  PROVE  Collects(Collected(cached, failed, prior), failed, cached, prior)
  <1> DEFINE at == Collected(cached, failed, prior)
             new(n) == [node |-> n, ver |-> tree[n], run |-> count.runs + 1]
  <1>1. /\ tree \in [Nodes -> Version] /\ count.runs + 1 \in Nat /\ Version \subseteq Nat
    BY SaveBounds DEF Types, KernelTypes, HistoryTypes, CountRecord, Version
  <1>2. \A n \in Nodes : tree[n] # 0 => new(n) \in DataFile
    BY <1>1 DEF DataFile
  <1>3. \A f \in DataFile : f # None
    BY NoneAssumption
  <1>4. \A n \in Nodes : cached[n] # None => cached[n] \in DataFile
    BY DEF Descriptors
  <1>5. \A n \in Nodes : at[n] = IF tree[n] = 0 THEN None
                                 ELSE IF n \in failed THEN prior[n]
                                 ELSE IF Hits(n, cached) THEN cached[n] ELSE new(n)
    BY DEF Collected
  <1>6. \A n \in Nodes : at[n] \in DataFile \cup {None}
    BY <1>2, <1>4, <1>5 DEF Hits, Descriptors
  <1>7. at \in Descriptors
    BY <1>6 DEF Descriptors, Collected
  <1>8. \A n \in Nodes : tree[n] # 0 => new(n).ver = tree[n] /\ new(n).run = count.runs + 1
    OBVIOUS
  <1>9. \A n \in Nodes \ failed : VersionOf(at, n) = tree[n]
    BY <1>2, <1>3, <1>5, <1>8 DEF VersionOf, Hits
  <1>10. \A n \in Nodes \ failed : at[n] # None =>
           at[n].run = count.runs + 1 \/ (at[n] = cached[n] /\ Reachable(at[n]))
    BY <1>5, <1>8 DEF Hits
  <1>11. \A n \in failed : n \in Nodes /\ tree[n] # 0
    BY DEF Refusable
  <1>12. \A n \in failed : at[n] = prior[n]
    BY <1>5, <1>11
  <1>13. QED BY <1>7, <1>9, <1>10, <1>12 DEF Collects

(* A call moves on: it was the first, and only its stage changes.          *)
SameCall(c, d) ==
  /\ c.id = d.id /\ c.kind = d.kind /\ c.seen = d.seen /\ c.since = d.since
  /\ c.missing = d.missing /\ c.failed = d.failed /\ c.run = d.run
MovedTo(stage) ==
  /\ calls' \in Seq(CallRecord) /\ DOMAIN calls' = DOMAIN calls /\ 1 \in DOMAIN calls
  /\ SameCall(calls'[1], calls[1]) /\ calls'[1].stage = stage
  /\ \A i \in DOMAIN calls \ {1} : calls'[i] = calls[i]

(* The first call moves to the stage its step names, and nothing else of   *)
(* it changes.                                                             *)
LEMMA Moving ==
  ASSUME Types, NEW i, NEW from, At(i, from), NEW stage, Moves(i, stage),
         stage \in {"queued", "asked", "answered", "failed", "cells", "modules", "committed"}
  PROVE  MovedTo(stage) /\ i = 1 /\ calls[1].stage = from
  <1>1. i = 1 /\ 1 \in DOMAIN calls /\ calls \in Seq(CallRecord) /\ calls[1].stage = from
    BY DEF Types, ServerTypes, At, Holds
  <1>2. calls' = [calls EXCEPT ![1].stage = stage]
    BY <1>1 DEF Moves
  <1> DEFINE c == [calls[1] EXCEPT !.stage = stage]
  <1>3. calls[1] \in CallRecord
    BY <1>1
  <1>4. c \in CallRecord /\ SameCall(c, calls[1]) /\ c.stage = stage
    BY <1>3 DEF CallRecord, SameCall
  <1>5. calls' = [calls EXCEPT ![1] = c]
    BY <1>2
  <1> HIDE DEF c
  <1>6. QED BY <1>1, <1>4, <1>5 DEF MovedTo

(* The first call leaves, and those behind it move up.                     *)
Left1 ==
  /\ calls' \in Seq(CallRecord) /\ 1 \in DOMAIN calls
  /\ \A i \in DOMAIN calls' : i + 1 \in DOMAIN calls /\ calls'[i] = calls[i + 1]

(* A call that leaves was the first, and the others move up.               *)
LEMMA Leaving ==
  ASSUME Types, NEW i \in DOMAIN calls, Holds(i), Leaves(i)
  PROVE  Left1
  <1>1. i = 1 /\ calls \in Seq(CallRecord) /\ Len(calls) \in Nat /\ Len(calls) >= 1
    BY DEF Types, ServerTypes, Holds
  <1>2. calls' = SubSeq(calls, 1, 0) \o SubSeq(calls, 2, Len(calls))
    BY <1>1 DEF Leaves
  <1>3. SubSeq(calls, 1, 0) = <<>> /\ SubSeq(calls, 2, Len(calls)) \in Seq(CallRecord)
    BY <1>1
  <1>4. calls' = SubSeq(calls, 2, Len(calls))
    BY <1>2, <1>3
  <1>5. QED BY <1>1, <1>3, <1>4 DEF Left1

(* An answer reaches the call that waits for it, if one does.              *)
Answered(c, d, call, ok, missing, failed) ==
  \/ c = d
  \/ /\ d.id = call /\ d.stage = "asked" /\ c.stage = IF ok THEN "answered" ELSE "failed"
     /\ c.id = d.id /\ c.kind = d.kind /\ c.seen = d.seen /\ c.since = d.since
     /\ c.missing = missing /\ c.failed = failed /\ c.run = count.runs
CallsAnswered(call, ok, missing, failed) ==
  /\ calls' \in Seq(CallRecord) /\ DOMAIN calls' = DOMAIN calls
  /\ \A i \in DOMAIN calls : Answered(calls'[i], calls[i], call, ok, missing, failed)

(* The kernel's answer changes at most the call that waits for it.         *)
LEMMA Answering ==
  ASSUME Types, NEW call, NEW ok \in BOOLEAN, NEW missing \in BOOLEAN,
         NEW failed \in SUBSET Nodes, Answer(call, ok, missing, failed)
  PROVE  CallsAnswered(call, ok, missing, failed)
  <1>1. calls \in Seq(CallRecord) /\ count.runs \in Nat
    BY DEF Types, ServerTypes, HistoryTypes, CountRecord
  <1> DEFINE stage == IF ok THEN "answered" ELSE "failed"
             new(c) == [c EXCEPT !.stage = stage, !.missing = missing,
                               !.failed = failed, !.run = count.runs]
  <1>2. calls' = [i \in DOMAIN calls |-> IF calls[i].id = call /\ calls[i].stage = "asked"
                                         THEN new(calls[i]) ELSE calls[i]]
    BY DEF Answer
  <1>3. \A c \in CallRecord :
          /\ new(c) \in CallRecord /\ new(c).stage = stage /\ new(c).missing = missing
          /\ new(c).failed = failed /\ new(c).run = count.runs /\ new(c).id = c.id /\ new(c).kind = c.kind
          /\ new(c).seen = c.seen /\ new(c).since = c.since
    BY <1>1 DEF CallRecord
  <1> HIDE DEF new
  <1>4. \A i \in DOMAIN calls : calls[i] \in CallRecord
    BY <1>1
  <1>5. DOMAIN calls = 1 .. Len(calls) /\ Len(calls) \in Nat
    BY <1>1
  <1>6. calls' \in Seq(CallRecord) /\ DOMAIN calls' = DOMAIN calls
    BY <1>2, <1>3, <1>4, <1>5
  <1>7. QED BY <1>2, <1>3, <1>4, <1>6 DEF CallsAnswered, Answered

(* The jobs of the kernel: the first is done, or one more is asked.        *)
Done ==
  /\ jobs' \in Seq(JobRecord)
  /\ \A j \in DOMAIN jobs' : j + 1 \in DOMAIN jobs /\ jobs'[j] = jobs[j + 1]
Queued(job) ==
  /\ jobs' \in Seq(JobRecord) /\ jobs' # <<>>
  /\ \A j \in DOMAIN jobs' : jobs'[j] = job \/ (j \in DOMAIN jobs /\ jobs'[j] = jobs[j])
  /\ jobs # <<>> => Head(jobs') = Head(jobs)
  /\ jobs = <<>> => jobs' = <<job>>

(* A job that ends, one that is asked, and the one at the head are jobs.   *)
LEMMA JobsMove ==
  ASSUME Types
  PROVE  /\ jobs # <<>> /\ jobs' = Tail(jobs) => Done
         /\ \A job \in JobRecord : jobs' = Append(jobs, job) => Queued(job)
         /\ jobs # <<>> => Head(jobs) \in JobRecord /\ 1 \in DOMAIN jobs /\ jobs[1] = Head(jobs)
  <1>1. jobs \in Seq(JobRecord)
    BY DEF Types, KernelTypes
  <1>2. jobs # <<>> /\ jobs' = Tail(jobs) => Done
    BY <1>1 DEF Done
  <1>3. ASSUME NEW job \in JobRecord, jobs' = Append(jobs, job) PROVE Queued(job)
    <2>1. DOMAIN jobs = 1 .. Len(jobs) /\ Len(jobs) \in Nat
      BY <1>1
    <2>2. jobs' \in Seq(JobRecord) /\ DOMAIN jobs' = 1 .. Len(jobs) + 1 /\ jobs' # <<>>
      BY <1>1, <1>3
    <2>3. \A j \in DOMAIN jobs' : jobs'[j] = IF j = Len(jobs) + 1 THEN job ELSE jobs[j]
      BY <1>1, <1>3, <2>2
    <2>4. jobs # <<>> => Head(jobs') = Head(jobs)
      BY <1>1, <1>3
    <2>5. jobs = <<>> => jobs' = <<job>>
      BY <1>1, <1>3
    <2>6. QED BY <2>1, <2>2, <2>3, <2>4, <2>5 DEF Queued
  <1>4. jobs # <<>> => Head(jobs) \in JobRecord /\ 1 \in DOMAIN jobs /\ jobs[1] = Head(jobs)
    BY <1>1
  <1>5. QED BY <1>2, <1>3, <1>4

(* What a save or a load asks of the kernel.                               *)
LEMMA Asked ==
  /\ ClearJob \in JobRecord /\ ClearJob.kind = "clear" /\ ClearJob.call = 0 /\ ClearJob.dir = "auto"
  /\ LoadJob \in JobRecord /\ LoadJob.kind = "load" /\ LoadJob.call = 0
  <1>1. \A b \in BOOLEAN, k \in {"clear", "load"} :
          [kind |-> k, dir |-> "auto", call |-> 0, clear |-> b] \in JobRecord
    BY DEF JobRecord
  <1>2. ClearJob \in JobRecord
    BY <1>1 DEF ClearJob
  <1>3. LoadJob \in JobRecord
    BY <1>2 DEF LoadJob, JobRecord
  <1>4. LoadJob.kind = "load" /\ LoadJob.call = 0
    BY <1>2 DEF LoadJob, JobRecord, ClearJob
  <1>5. QED BY <1>2, <1>3, <1>4 DEF ClearJob

(* What is opened changes stage, or is crossed, or begins.                 *)
OpeningKeeps ==
  opening'.restore = opening.restore /\ opening'.restart = opening.restart
  /\ opening'.chosen = opening.chosen
(* A change of stage keeps what was chosen; so does a crossing.            *)
LEMMA OpeningMoves ==
  ASSUME Types
  PROVE  /\ \A stage \in {"no", "copy", "overlay", "copied", "active", "asked", "loaded"} :
              opening' = [opening EXCEPT !.stage = stage] =>
                /\ opening' \in OpeningRecord /\ OpeningKeeps
                /\ opening'.stage = stage /\ opening'.crossed = opening.crossed
         /\ CrossesOpening =>
                /\ opening' \in OpeningRecord /\ OpeningKeeps /\ opening'.stage = opening.stage
                /\ opening'.crossed = (opening # Idle)
         /\ opening \in OpeningRecord
  <1>1. opening \in OpeningRecord
    BY DEF Types, ServerTypes
  <1>2. \A b \in BOOLEAN : /\ [opening EXCEPT !.crossed = b] \in OpeningRecord
                           /\ [opening EXCEPT !.crossed = b].crossed = b
    BY <1>1 DEF OpeningRecord
  <1>3. (opening # Idle) \in BOOLEAN
    OBVIOUS
  <1>4. CrossesOpening =>
                /\ opening' \in OpeningRecord /\ OpeningKeeps /\ opening'.stage = opening.stage
                /\ opening'.crossed = (opening # Idle)
    BY <1>1, <1>2, <1>3 DEF CrossesOpening, OpeningKeeps, OpeningRecord
  <1>5. ASSUME NEW stage \in {"no", "copy", "overlay", "copied", "active", "asked", "loaded"},
               opening' = [opening EXCEPT !.stage = stage]
        PROVE  /\ opening' \in OpeningRecord /\ OpeningKeeps
               /\ opening'.stage = stage /\ opening'.crossed = opening.crossed
    BY <1>1, <1>5 DEF OpeningRecord, OpeningKeeps
  <1>6. QED BY <1>1, <1>4, <1>5

(* A project begins to be opened.                                          *)
Opens(restore, restart, chosen) ==
  [Idle EXCEPT !.stage = "copy", !.restore = restore, !.restart = restart, !.chosen = chosen]
(* What begins to be opened is at the copy, with what the user chose.      *)
LEMMA Opening ==
  ASSUME Types, NEW restore \in BOOLEAN, NEW restart \in BOOLEAN
  PROVE  LET o == Opens(restore, restart, Chosen(restore)) IN
         /\ o \in OpeningRecord /\ o.stage = "copy" /\ o.restore = restore /\ ~o.crossed
         /\ o.chosen = Chosen(restore) /\ Idle \in OpeningRecord /\ Idle.stage = "no"
         /\ Absent \in [Nodes -> Version] /\ ~Idle.crossed
  <1>1. Absent \in [Nodes -> Version] /\ auto.index \in Indexes \cup {None} /\ unsettled \in BOOLEAN
    BY SaveBounds DEF Absent, Version, Types, DiskTypes, HistoryTypes, AutoRecord
  <1>2. \A index \in Indexes \cup {None} : Versions(index) \in [Nodes -> Version]
    BY SaveBounds DEF Versions, Indexes, DataFile, Version, Descriptors
  <1>3. Chosen(restore) \in [Nodes -> Version]
    BY <1>1, <1>2 DEF Chosen
  <1>4. \A b, c, d \in BOOLEAN :
          [stage |-> "no", restore |-> b, restart |-> c, chosen |-> Absent, crossed |-> d]
            \in OpeningRecord
    BY <1>1 DEF OpeningRecord
  <1>5. Idle \in OpeningRecord /\ Idle.stage = "no" /\ ~Idle.crossed
    BY <1>4 DEF Idle
  <1>6. \A ch \in [Nodes -> Version], b, c \in BOOLEAN :
          /\ Opens(b, c, ch) \in OpeningRecord /\ Opens(b, c, ch).stage = "copy"
          /\ Opens(b, c, ch).restore = b /\ Opens(b, c, ch).chosen = ch
          /\ Opens(b, c, ch).crossed = Idle.crossed
    BY <1>5, ZenonT(60) DEF OpeningRecord, Opens
  <1>7. QED BY <1>1, <1>3, <1>5, <1>6

----------------------------------------------------------------------------
(* What the steps of the kernel do.                                        *)

(* What nothing but a serialization and a commit writes.                   *)
CanonApart(what) ==
  /\ canon' \in CanonRecord
  /\ "files" \notin what => canon'.files = canon.files
  /\ "index" \notin what => canon'.index = canon.index
  /\ "cells" \notin what => canon'.cells = canon.cells
  /\ "modules" \notin what => canon'.modules = canon.modules
  /\ "manifest" \notin what => canon'.manifest = canon.manifest

(* SerializesData has put these files where this save keeps them.          *)
Saved1(at, failed) == {at[n] : n \in Nodes \ failed} \ {None}
Minted(at, failed) == {f \in Saved1(at, failed) : f.run = count.runs + 1}
Serialized(at, failed) ==
  /\ jobs # <<>> /\ doing = None /\ Head(jobs).kind \in {"save", "script"}
  /\ failed \in SUBSET Nodes
  /\ Collects(at, failed, cache, Prior(Head(jobs).dir))
  /\ cache' \in Descriptors
  /\ \A n \in Nodes : cache'[n] \in {cache[n], None} \/ (n \notin failed /\ cache'[n] = at[n])
  /\ CanonApart({"files"}) /\ auto' \in AutoRecord /\ auto'.index = auto.index
  /\ IF Head(jobs).dir = "canon"
     THEN /\ \A f \in canon'.files \cup auto'.files :
               f \in canon.files \cup auto.files \/ f.run = count.runs + 1
          /\ canon.files \subseteq canon'.files
          /\ \A n \in Nodes \ failed : at[n] # None => at[n] \in canon'.files
     ELSE canon'.files = canon.files /\ auto'.files = auto.files \cup Minted(at, failed)
  /\ unsettled' = (unsettled \/ Head(jobs).dir = "canon")
  /\ stranded' = (stranded \/ (Head(jobs).dir = "canon" /\ ~backed))
  /\ swept' = (removing # {})
  /\ count' \in CountRecord /\ count'.runs = count.runs + 1
  /\ count'.edits = count.edits /\ count'.calls = count.calls
  /\ IF backed THEN doing' = [at |-> at, failed |-> failed] /\ UNCHANGED <<jobs, calls, results>>
     ELSE /\ doing' = None /\ Done
          /\ CallsAnswered(Head(jobs).call, TRUE, TRUE, failed)
          /\ results' = results \/ (results' \in LeftRecord /\ results'.missing)
  /\ UNCHANGED <<tree, backed, dirty, clearing, opening, active, work, removing>>

(* SerializesData does that, for the files it has collected.               *)
LEMMA Serializing ==
  ASSUME Types, SerializesData
  PROVE  \E at \in Descriptors, failed \in SUBSET Nodes : Serialized(at, failed)
  <1> DEFINE job == Head(jobs)
             cached == IF job.kind = "script" \/ job.clear THEN NoCache ELSE cache
             prior == Prior(job.dir)
  <1>1. /\ jobs # <<>> /\ doing = None /\ job.kind \in {"save", "script"} /\ job \in JobRecord
        /\ cache \in Descriptors /\ canon \in CanonRecord /\ auto \in AutoRecord /\ count \in CountRecord
    BY JobsMove DEF SerializesData, Types, KernelTypes, DiskTypes, HistoryTypes
  <1>2. NoCache \in Descriptors /\ \A n \in Nodes : NoCache[n] = None
    BY DEF NoCache, Descriptors
  <1>3. cached \in Descriptors /\ \A n \in Nodes : cached[n] \in {cache[n], None}
    BY <1>1, <1>2
  <1>4. prior \in Descriptors
    BY <1>1, <1>2 DEF Prior, CanonRecord, AutoRecord, Indexes
  <1> DEFINE col(failed) == Collected(cached, failed, prior)
             files(failed) == Saved1(col(failed), failed)
             mint(failed) == Minted(col(failed), failed)
  <1>5. PICK failed \in SUBSET Refusable(cached) :
          /\ cache' = IF job.kind = "script" THEN cache
                      ELSE [n \in Nodes |-> IF n \in failed THEN cached[n] ELSE col(failed)[n]]
          /\ canon' = [canon EXCEPT !.files = IF job.dir = "canon"
                THEN canon.files \cup mint(failed) \cup (files(failed) \cap auto.files) ELSE canon.files]
          /\ auto' = [auto EXCEPT !.files = IF job.dir = "canon"
                THEN auto.files \ files(failed) ELSE auto.files \cup mint(failed)]
          /\ IF backed
             THEN /\ doing' = [at |-> col(failed), failed |-> failed]
                  /\ UNCHANGED <<jobs, calls, results>>
             ELSE /\ doing' = None /\ jobs' = Tail(jobs)
                  /\ Answer(job.call, TRUE, TRUE, failed)
                  /\ results' = IF job.kind = "script" THEN Left(TRUE, failed) ELSE results
    BY DEF SerializesData, Saved1, Minted
  <1> DEFINE at == col(failed)
  <1>6. Collects(at, failed, cached, prior)
    BY <1>3, <1>4, Collecting
  <1>7. failed \in SUBSET Nodes
    BY DEF Refusable
  <1> HIDE DEF at, col, cached, prior
  <1>8. at \in Descriptors
    BY <1>6 DEF Collects
  <1>9. Collects(at, failed, cache, Prior(job.dir))
    BY <1>3, <1>6 DEF Collects, prior
  <1>10. /\ cache' \in Descriptors
         /\ \A n \in Nodes : cache'[n] \in {cache[n], None} \/ (n \notin failed /\ cache'[n] = at[n])
    <2>1. CASE job.kind = "script"
      BY <1>1, <1>5, <2>1
    <2>2. CASE job.kind # "script"
      <3>1. cache' = [n \in Nodes |-> IF n \in failed THEN cached[n] ELSE at[n]]
        BY <1>5, <2>2 DEF at
      <3>2. QED BY <1>3, <1>8, <3>1 DEF Descriptors
    <2>3. QED BY <2>1, <2>2
  <1>11. files(failed) = Saved1(at, failed) /\ mint(failed) = Minted(at, failed)
    BY DEF at
  <1>12. files(failed) \subseteq DataFile /\ mint(failed) \subseteq files(failed)
    BY <1>8, <1>11 DEF Saved1, Minted, Descriptors
  <1> DEFINE cf == IF job.dir = "canon"
                   THEN canon.files \cup mint(failed) \cup (files(failed) \cap auto.files) ELSE canon.files
             af == IF job.dir = "canon" THEN auto.files \ files(failed) ELSE auto.files \cup mint(failed)
  <1>13. canon' = [canon EXCEPT !.files = cf] /\ auto' = [auto EXCEPT !.files = af]
    BY <1>5
  <1> HIDE DEF files, mint
  <1>14. cf \in Files /\ af \in Files
    BY <1>1, <1>12 DEF CanonRecord, AutoRecord, Files
  <1>15. IF job.dir = "canon"
         THEN /\ \A f \in cf \cup af : f \in canon.files \cup auto.files \/ f.run = count.runs + 1
              /\ canon.files \subseteq cf
              /\ \A n \in Nodes \ failed : at[n] # None => at[n] \in cf
         ELSE cf = canon.files /\ af = auto.files \cup Minted(at, failed)
    <2>1. \A n \in Nodes \ failed : at[n] # None =>
            at[n] \in files(failed) /\ (at[n] \in mint(failed) \/ at[n] \in canon.files \cup auto.files)
      BY <1>6, <1>11 DEF Collects, Reachable, Minted, Saved1
    <2>2. \A f \in mint(failed) : f.run = count.runs + 1
      BY <1>11 DEF Minted
    <2>3. QED BY <1>11, <2>1, <2>2
  <1> HIDE DEF cf, af
  <1>16. CanonApart({"files"}) /\ canon'.files = cf /\ auto' \in AutoRecord
         /\ auto'.index = auto.index /\ auto'.files = af
    BY <1>1, <1>13, <1>14 DEF CanonRecord, AutoRecord, CanonApart
  <1>17. /\ count' \in CountRecord /\ count'.runs = count.runs + 1
         /\ count'.edits = count.edits /\ count'.calls = count.calls
    BY <1>1, Counting DEF SerializesData
  <1>18. /\ unsettled' = (unsettled \/ job.dir = "canon")
         /\ stranded' = (stranded \/ (job.dir = "canon" /\ ~backed))
         /\ swept' = (removing # {})
         /\ UNCHANGED <<tree, backed, dirty, clearing, opening, active, work, removing>>
    BY DEF SerializesData
  <1>19. CASE backed
    <2>1. doing' = [at |-> at, failed |-> failed] /\ UNCHANGED <<jobs, calls, results>>
      BY <1>5, <1>19 DEF at
    <2>2. Serialized(at, failed)
      BY <1>1, <1>7, <1>9, <1>10, <1>15, <1>16, <1>17, <1>18, <1>19, <2>1 DEF Serialized
    <2>3. QED BY <1>7, <1>8, <2>2
  <1>20. CASE ~backed
    <2>1. doing' = None /\ jobs' = Tail(jobs) /\ Answer(job.call, TRUE, TRUE, failed)
          /\ results' = IF job.kind = "script" THEN Left(TRUE, failed) ELSE results
      BY <1>5, <1>20
    <2>2. Done /\ CallsAnswered(job.call, TRUE, TRUE, failed)
      BY <1>1, <1>7, <2>1, JobsMove, Answering
    <2>3. Left(TRUE, failed) \in LeftRecord /\ Left(TRUE, failed).missing
      BY <1>1, <1>7 DEF Left, LeftRecord, CountRecord
    <2>4. Serialized(at, failed)
      BY <1>1, <1>7, <1>9, <1>10, <1>15, <1>16, <1>17, <1>18, <1>20, <2>1, <2>2, <2>3 DEF Serialized
    <2>5. QED BY <1>7, <1>8, <2>4
  <1>21. QED BY <1>19, <1>20

(* WritesIndex has written the index of this save.                         *)
Indexed ==
  /\ doing # None /\ doing' = None /\ Done
  /\ IF Explicit
     THEN /\ CanonApart({"files", "index"}) /\ canon'.files \subseteq Named(canon'.index)
          /\ canon'.index.by = count.runs /\ canon'.index.at = doing.at
          /\ canon'.files \subseteq canon.files
          /\ stranded' = FALSE /\ UNCHANGED <<auto, unsettled>>
     ELSE /\ auto' \in AutoRecord /\ auto'.index \in Indexes /\ auto'.index.at = doing.at
          /\ auto'.files = auto.files \cap Named(auto'.index)
          /\ unsettled' = (swept \/ stranded \/ (unsettled /\ Preserves(doing)))
          /\ UNCHANGED <<canon, stranded>>
  /\ CallsAnswered(Head(jobs).call, TRUE, FALSE, doing.failed)
  /\ IF Head(jobs).kind = "script"
     THEN results' \in LeftRecord /\ results'.run = count.runs
          /\ results'.failed = doing.failed /\ ~results'.missing
     ELSE results' = results
  /\ UNCHANGED <<tree, backed, cache, dirty, clearing, opening, active, work, removing, count, swept>>

(* WritesIndex does that.                                                  *)
LEMMA Indexing ==
  ASSUME Types, JobsInv, WritesIndex
  PROVE  Indexed
  <1> DEFINE job == Head(jobs)
             index == [by |-> count.runs, at |-> doing.at]
  <1>1. /\ jobs # <<>> /\ doing # None /\ job \in JobRecord
        /\ doing \in Collections /\ doing.at \in Descriptors /\ doing.failed \in SUBSET Nodes
        /\ canon \in CanonRecord /\ auto \in AutoRecord /\ count \in CountRecord
    BY JobsMove DEF Collections, WritesIndex, Types, KernelTypes, DiskTypes, HistoryTypes, JobsInv
  <1>2. index \in Indexes /\ index.by = count.runs /\ index.at = doing.at
    BY <1>1 DEF Indexes, Descriptors, CountRecord
  <1>3. doing' = None /\ Done /\ CallsAnswered(job.call, TRUE, FALSE, doing.failed)
    <2>1. doing' = None /\ jobs' = Tail(jobs) /\ Answer(job.call, TRUE, FALSE, doing.failed)
      BY DEF WritesIndex
    <2>2. QED BY <1>1, <2>1, JobsMove, Answering
  <1>4. results' = IF job.kind = "script" THEN Left(FALSE, doing.failed) ELSE results
    BY DEF WritesIndex
  <1>5. /\ Left(FALSE, doing.failed) \in LeftRecord /\ Left(FALSE, doing.failed).run = count.runs
        /\ Left(FALSE, doing.failed).failed = doing.failed /\ ~Left(FALSE, doing.failed).missing
    BY <1>1 DEF Left, LeftRecord, CountRecord
  <1>6. CASE Explicit
    <2>1. canon' = [canon EXCEPT !.index = index, !.files = canon.files \cap Named(index)]
      BY <1>6 DEF WritesIndex, Explicit
    <2> HIDE DEF index
    <2>2. CanonApart({"files", "index"}) /\ canon'.index = index
          /\ canon'.files = canon.files \cap Named(index)
      BY <1>1, <1>2, <2>1 DEF CanonRecord, CanonApart, Files
    <2>3. QED
      BY <1>1, <1>2, <1>3, <1>4, <1>5, <1>6, <2>2 DEF WritesIndex, Indexed, Explicit
  <1>7. CASE ~Explicit
    <2>1. auto' = [auto EXCEPT !.index = index, !.files = auto.files \cap Named(index)]
      BY <1>1, <1>7 DEF WritesIndex, Explicit
    <2> HIDE DEF index
    <2>2. auto' \in AutoRecord /\ auto'.index = index /\ auto'.files = auto.files \cap Named(index)
      BY <1>1, <1>2, <2>1 DEF AutoRecord, Files
    <2>3. QED
      BY <1>1, <1>2, <1>3, <1>4, <1>5, <1>7, <2>2 DEF WritesIndex, Indexed, Explicit
  <1>8. QED BY <1>6, <1>7

(* Loads: the tree is what the index names of the files copied.            *)
LoadedFrom(index) ==
  tree' = [n \in Nodes |-> IF index.at[n] \in work THEN index.at[n].ver ELSE 0]
CallsForget ==
  /\ calls' \in Seq(CallRecord) /\ DOMAIN calls' = DOMAIN calls
  /\ \A i \in DOMAIN calls :
       /\ calls'[i].id = calls[i].id /\ calls'[i].kind = calls[i].kind /\ calls'[i].seen = Absent
       /\ calls'[i].stage = calls[i].stage /\ calls'[i].since = calls[i].since
       /\ calls'[i].missing = calls[i].missing /\ calls'[i].failed = calls[i].failed
       /\ calls'[i].run = calls[i].run

(* Loads does that, from the snapshot's index or the project's own.        *)
LEMMA Loading ==
  ASSUME Types, Loads
  PROVE  /\ CallsForget /\ Done /\ doing = None /\ jobs # <<>> /\ Head(jobs).kind = "load"
         /\ tree' \in [Nodes -> Version] /\ opening' = [opening EXCEPT !.stage = "loaded"]
         /\ LET index == IF opening.restore /\ auto.index # None THEN auto.index ELSE canon.index
            IN  index \in Indexes /\ LoadedFrom(index)
  <1>1. /\ calls \in Seq(CallRecord) /\ canon.index \in Indexes /\ auto.index \in Indexes \cup {None}
        /\ work \in SUBSET DataFile
    BY DEF Types, ServerTypes, DiskTypes, CanonRecord, AutoRecord, Files
  <1> DEFINE index == IF opening.restore /\ auto.index # None THEN auto.index ELSE canon.index
             new(c) == [c EXCEPT !.seen = Absent]
  <1>2. index \in Indexes
    BY <1>1
  <1>3. LoadedFrom(index)
    BY DEF Loads, LoadedFrom
  <1>4. 0 \in Version /\ \A f \in DataFile : f.ver \in Version
    BY SaveBounds DEF DataFile, Version
  <1> HIDE DEF index
  <1>5. tree' \in [Nodes -> Version]
    BY <1>1, <1>3, <1>4 DEF LoadedFrom
  <1>6. /\ jobs # <<>> /\ doing = None /\ Head(jobs).kind = "load" /\ jobs' = Tail(jobs)
        /\ opening' = [opening EXCEPT !.stage = "loaded"]
        /\ calls' = [i \in DOMAIN calls |-> new(calls[i])]
    BY DEF Loads
  <1>7. Absent \in [Nodes -> Version]
    BY <1>4 DEF Absent
  <1>8. \A c \in CallRecord :
          /\ new(c) \in CallRecord /\ new(c).seen = Absent /\ new(c).id = c.id
          /\ new(c).kind = c.kind /\ new(c).stage = c.stage /\ new(c).since = c.since
          /\ new(c).missing = c.missing /\ new(c).failed = c.failed /\ new(c).run = c.run
    BY <1>7 DEF CallRecord
  <1> HIDE DEF new
  <1>9. \A i \in DOMAIN calls : calls[i] \in CallRecord
    BY <1>1
  <1>10. DOMAIN calls = 1 .. Len(calls) /\ Len(calls) \in Nat
    BY <1>1
  <1>11. calls' \in Seq(CallRecord) /\ DOMAIN calls' = DOMAIN calls
    BY <1>6, <1>8, <1>9, <1>10
  <1>12. CallsForget
    BY <1>6, <1>8, <1>9, <1>11 DEF CallsForget
  <1>13. Done
    BY <1>6, JobsMove
  <1>14. QED BY <1>2, <1>3, <1>5, <1>6, <1>12, <1>13 DEF index

(* KernelRestarts: the calls that waited for the kernel fail.              *)
CallsFail ==
  /\ calls' \in Seq(CallRecord) /\ DOMAIN calls' = DOMAIN calls
  /\ \A i \in DOMAIN calls : \/ calls'[i] = calls[i] /\ calls[i].stage \notin {"queued", "asked"}
                             \/ SameCall(calls'[i], calls[i]) /\ calls'[i].stage = "failed"
(* KernelRestarts does that.                                               *)
LEMMA Failing ==
  ASSUME Types, KernelRestarts
  PROVE  CallsFail
  <1> DEFINE new(c) ==
               [c EXCEPT !.stage = IF c.stage \in {"queued", "asked"} THEN "failed" ELSE c.stage]
  <1>1. calls \in Seq(CallRecord)
    BY DEF Types, ServerTypes
  <1>2. calls' = [i \in DOMAIN calls |-> new(calls[i])]
    BY DEF KernelRestarts
  <1>3. \A c \in CallRecord :
          /\ new(c) \in CallRecord
          /\ \/ new(c) = c /\ c.stage \notin {"queued", "asked"}
             \/ SameCall(new(c), c) /\ new(c).stage = "failed"
    BY DEF CallRecord, SameCall
  <1> HIDE DEF new
  <1>4. \A i \in DOMAIN calls : calls[i] \in CallRecord
    BY <1>1
  <1>5. DOMAIN calls = 1 .. Len(calls) /\ Len(calls) \in Nat
    BY <1>1
  <1>6. calls' \in Seq(CallRecord) /\ DOMAIN calls' = DOMAIN calls
    BY <1>2, <1>3, <1>4, <1>5
  <1>7. QED BY <1>2, <1>3, <1>4, <1>6 DEF CallsFail

(* Ask: one more call is queued.                                           *)
LEMMA Asking ==
  ASSUME Types, NEW kind \in {"save", "autosave"}, Ask(kind)
  PROVE  LET c == calls'[Len(calls) + 1] IN
         /\ calls' \in Seq(CallRecord) /\ DOMAIN calls' = DOMAIN calls \cup {Len(calls) + 1}
         /\ Len(calls) \in Nat /\ DOMAIN calls = 1 .. Len(calls)
         /\ \A i \in DOMAIN calls : calls'[i] = calls[i]
         /\ c.id = count.calls + 1 /\ c.kind = kind /\ c.stage = "queued" /\ c.seen = tree
         /\ c.since = count.runs
         /\ count' \in CountRecord /\ count'.calls = count.calls + 1
         /\ count'.runs = count.runs /\ count'.edits = count.edits
  <1> DEFINE c == [id |-> count.calls + 1, kind |-> kind, stage |-> "queued",
                   seen |-> tree, since |-> count.runs, missing |-> FALSE, failed |-> {}, run |-> 0]
  <1>1. /\ calls \in Seq(CallRecord) /\ count \in CountRecord /\ tree \in [Nodes -> Version]
    BY DEF Types, KernelTypes, ServerTypes, HistoryTypes
  <1>2. \A b \in BOOLEAN : [id |-> count.calls + 1, kind |-> kind, stage |-> "queued",
                   seen |-> tree, since |-> count.runs, missing |-> b, failed |-> {}, run |-> 0] \in CallRecord
    BY <1>1 DEF CallRecord, CountRecord
  <1>3. c \in CallRecord /\ calls' = Append(calls, c)
    BY <1>2 DEF Ask
  <1>4. /\ c.id = count.calls + 1 /\ c.kind = kind /\ c.stage = "queued" /\ c.seen = tree
        /\ c.since = count.runs
    OBVIOUS
  <1> HIDE DEF c
  <1>5. /\ calls' \in Seq(CallRecord) /\ DOMAIN calls' = DOMAIN calls \cup {Len(calls) + 1}
        /\ Len(calls) \in Nat /\ DOMAIN calls = 1 .. Len(calls)
        /\ \A i \in DOMAIN calls : calls'[i] = calls[i]
        /\ calls'[Len(calls) + 1] = c
    BY <1>1, <1>3
  <1>6. /\ count' \in CountRecord /\ count'.calls = count.calls + 1
        /\ count'.runs = count.runs /\ count'.edits = count.edits
    BY <1>1, Counting DEF Ask
  <1>7. QED BY <1>4, <1>5, <1>6

(* The files of the project that a save writes itself.                     *)
LEMMA Writing ==
  ASSUME Types, NEW c \in CallRecord
  PROVE  /\ canon' = [canon EXCEPT !.cells = c.id] => CanonApart({"cells"}) /\ canon'.cells = c.id
         /\ \A m \in {canon.modules, c.id} :
              canon' = [canon EXCEPT !.modules = m] => CanonApart({"modules"})
         /\ canon' = [canon EXCEPT !.manifest = [call |-> c.id, run |-> c.run]] =>
              /\ CanonApart({"manifest"})
              /\ canon'.manifest.call = c.id /\ canon'.manifest.run = c.run
         /\ canon' = [canon EXCEPT !.env = c.id] => CanonApart({})
         /\ canon' = canon => CanonApart({})
  <1>1. canon \in CanonRecord /\ c.id \in Nat /\ c.run \in Nat
    BY DEF Types, DiskTypes, CallRecord
  <1>2. [call |-> c.id, run |-> c.run] \in [call : Nat, run : Nat]
    BY <1>1
  <1>3. ASSUME canon' = [canon EXCEPT !.cells = c.id]
        PROVE  CanonApart({"cells"}) /\ canon'.cells = c.id
    BY <1>1, <1>3 DEF CanonApart, CanonRecord
  <1>4. ASSUME NEW m \in {canon.modules, c.id}, canon' = [canon EXCEPT !.modules = m]
        PROVE  CanonApart({"modules"})
    BY <1>1, <1>4 DEF CanonApart, CanonRecord
  <1>5. ASSUME canon' = [canon EXCEPT !.manifest = [call |-> c.id, run |-> c.run]]
        PROVE  /\ CanonApart({"manifest"})
               /\ canon'.manifest.call = c.id /\ canon'.manifest.run = c.run
    BY <1>1, <1>2, <1>5 DEF CanonApart, CanonRecord
  <1>6. ASSUME canon' = [canon EXCEPT !.env = c.id] PROVE CanonApart({})
    BY <1>1, <1>6 DEF CanonApart, CanonRecord
  <1>7. ASSUME canon' = canon PROVE CanonApart({})
    BY <1>1, <1>7 DEF CanonApart
  <1>8. QED BY <1>3, <1>4, <1>5, <1>6, <1>7

(* SaveStarts: the call takes the results a cell left, or asks the kernel. *)
TakesResults ==
  /\ calls[1].kind = "save" /\ results # None /\ results' = None
  /\ calls' \in Seq(CallRecord) /\ DOMAIN calls' = DOMAIN calls
  /\ \A i \in DOMAIN calls \ {1} : calls'[i] = calls[i]
  /\ calls'[1].id = calls[1].id /\ calls'[1].kind = "save" /\ calls'[1].seen = calls[1].seen
  /\ calls'[1].since = calls[1].since /\ calls'[1].stage = "answered"
  /\ calls'[1].missing = results.missing /\ calls'[1].failed = results.failed
  /\ calls'[1].run = results.run
  /\ UNCHANGED jobs /\ dirty' \in BOOLEAN
AsksKernel ==
  /\ MovedTo("asked") /\ results' = results /\ dirty' \in BOOLEAN
  /\ \E job \in JobRecord : /\ Queued(job) /\ job.kind = "save" /\ job.call = calls[1].id
                            /\ job.dir = IF calls[1].kind = "autosave" THEN "auto" ELSE "canon"

(* SaveStarts does one or the other, and crosses an opening.               *)
LEMMA Starting ==
  ASSUME Types, NEW i \in DOMAIN calls, SaveStarts(i)
  PROVE  /\ 1 \in DOMAIN calls /\ calls[1].stage = "queued" /\ (TakesResults \/ AsksKernel)
         /\ CrossesOpening
         /\ UNCHANGED <<tree, backed, cache, doing, clearing, active, diskVars, count, history>>
  <1>1. At(i, "queued") /\ i = 1 /\ calls \in Seq(CallRecord) /\ calls[1] \in CallRecord
    BY DEF SaveStarts, At, Holds, Types, ServerTypes
  <1>2. calls[1].stage = "queued"
    BY <1>1 DEF At
  <1>3. CASE calls[1].kind = "save" /\ results # None
    <2>1. calls' = [calls EXCEPT ![1].stage = "answered", ![1].run = results.run,
                                 ![1].missing = results.missing, ![1].failed = results.failed]
          /\ results' = None /\ UNCHANGED <<jobs, dirty>>
      BY <1>1, <1>3 DEF SaveStarts
    <2> DEFINE c == [calls[1] EXCEPT !.stage = "answered", !.run = results.run,
                                     !.missing = results.missing, !.failed = results.failed]
    <2>2. results \in LeftRecord /\ dirty \in BOOLEAN
      BY <1>3 DEF Types, ServerTypes
    <2>3. /\ c \in CallRecord /\ c.id = calls[1].id /\ c.kind = calls[1].kind
          /\ c.seen = calls[1].seen /\ c.since = calls[1].since /\ c.stage = "answered"
          /\ c.missing = results.missing /\ c.failed = results.failed /\ c.run = results.run
      BY <1>1, <2>2 DEF CallRecord, LeftRecord
    <2>4. calls' = [calls EXCEPT ![1] = c]
      BY <1>1, <2>1
    <2> HIDE DEF c
    <2>5. /\ calls' \in Seq(CallRecord) /\ DOMAIN calls' = DOMAIN calls /\ calls'[1] = c
          /\ \A k \in DOMAIN calls \ {1} : calls'[k] = calls[k]
      BY <1>1, <2>3, <2>4
    <2>6. TakesResults
      BY <1>3, <2>1, <2>2, <2>3, <2>5 DEF TakesResults
    <2>7. QED BY <1>1, <1>2, <2>6 DEF SaveStarts
  <1>4. CASE ~(calls[1].kind = "save" /\ results # None)
    <2> DEFINE auto_ == calls[1].kind = "autosave"
               job == [kind |-> "save", dir |-> IF auto_ THEN "auto" ELSE "canon",
                       call |-> calls[1].id, clear |-> auto_ /\ dirty]
    <2>1. /\ Moves(1, "asked") /\ jobs' = Append(jobs, job) /\ results' = results
          /\ dirty' = (dirty /\ ~auto_)
      BY <1>1, <1>4 DEF SaveStarts
    <2>2. MovedTo("asked")
      BY <1>1, <2>1, Moving
    <2>3. \A b \in BOOLEAN : [kind |-> "save", dir |-> IF auto_ THEN "auto" ELSE "canon",
                              call |-> calls[1].id, clear |-> b] \in JobRecord
      BY <1>1 DEF JobRecord, CallRecord
    <2>4. (auto_ /\ dirty) \in BOOLEAN /\ (dirty /\ ~auto_) \in BOOLEAN
      OBVIOUS
    <2>5. job \in JobRecord
      BY <2>3, <2>4
    <2>6. /\ job.kind = "save" /\ job.call = calls[1].id
          /\ job.dir = IF calls[1].kind = "autosave" THEN "auto" ELSE "canon"
      OBVIOUS
    <2> HIDE DEF job
    <2>7. Queued(job)
      BY <2>1, <2>5, JobsMove
    <2>8. dirty' \in BOOLEAN
      BY <2>1, <2>4
    <2>9. AsksKernel
      BY <2>1, <2>2, <2>5, <2>6, <2>7, <2>8 DEF AsksKernel
    <2>10. QED BY <1>1, <1>2, <2>9 DEF SaveStarts
  <1>5. QED BY <1>3, <1>4

(* The steps of a call that write, and those by which it ends.             *)
CallWrites ==
  \/ calls[1].stage = "answered" /\ MovedTo("cells") /\ calls[1].kind = "save"
     /\ ~calls[1].missing /\ CanonApart({"cells"}) /\ canon'.cells = calls[1].id
     /\ UNCHANGED <<opening, removing, unsettled, swept>>
  \/ calls[1].stage = "cells" /\ MovedTo("modules")
     /\ CanonApart({"modules"})
     /\ UNCHANGED <<opening, removing, unsettled, swept>>
  \/ calls[1].stage = "modules" /\ MovedTo("committed")
     /\ CanonApart({"manifest"})
     /\ canon'.manifest.call = calls[1].id /\ canon'.manifest.run = calls[1].run
     /\ UNCHANGED <<opening, removing, unsettled, swept>>
  \/ calls[1].stage = "committed" /\ Left1 /\ CanonApart({}) /\ CrossesOpening
     /\ removing' = {"files", "index"} /\ unsettled' = TRUE /\ swept' = TRUE
  \/ Left1 /\ UNCHANGED <<canon, opening, removing, unsettled, swept>>

(* Every other step of a call is one of those.                             *)
LEMMA CallSteps ==
  ASSUME Types, NEW i \in DOMAIN calls, CallStep(i), ~SaveStarts(i)
  PROVE  /\ 1 \in DOMAIN calls /\ CallWrites
         /\ UNCHANGED <<kernelVars, results, dirty, clearing, active, auto, work, count, stranded>>
  <1>1. i = 1 /\ calls \in Seq(CallRecord) /\ calls[1] \in CallRecord
    BY DEF CallStep, SaveGivesUp, SaveIsRefused, AutosaveEnds, WritesCells, WritesModules, Commits,
       WritesEnvironment, At, Holds, Types, ServerTypes
  <1>2. CASE SaveGivesUp(i) \/ SaveIsRefused(i) \/ AutosaveEnds(i)
    <2>1. Left1
      BY <1>1, <1>2, Leaving DEF SaveGivesUp, SaveIsRefused, AutosaveEnds, Holds
    <2>2. QED
      BY <1>1, <1>2, <2>1 DEF SaveGivesUp, SaveIsRefused, AutosaveEnds, CallWrites, diskVars, history
  <1>3. CASE WritesCells(i)
    <2>1. MovedTo("cells") /\ calls[1].stage = "answered"
      BY <1>1, <1>3, Moving DEF WritesCells
    <2>2. QED BY <1>1, <1>3, <2>1, Writing DEF WritesCells, CallWrites, history
  <1>4. CASE WritesModules(i)
    <2>1. MovedTo("modules") /\ calls[1].stage = "cells"
      BY <1>1, <1>4, Moving DEF WritesModules
    <2>2. QED BY <1>1, <1>4, <2>1, Writing DEF WritesModules, CallWrites, history
  <1>5. CASE Commits(i)
    <2>1. MovedTo("committed") /\ calls[1].stage = "modules"
      BY <1>1, <1>5, Moving DEF Commits
    <2>2. QED BY <1>1, <1>5, <2>1, Writing DEF Commits, CallWrites, history
  <1>6. CASE WritesEnvironment(i)
    <2>1. Left1 /\ calls[1].stage = "committed"
      BY <1>1, <1>6, Leaving DEF WritesEnvironment, At, Holds
    <2>2. QED BY <1>1, <1>6, <2>1, Writing DEF WritesEnvironment, CallWrites
  <1>7. QED BY <1>2, <1>3, <1>4, <1>5, <1>6 DEF CallStep

(* The kernel is gone, and a new one or none is there.                     *)
LEMMA Renewing ==
  ASSUME Types, KernelIsNew
  PROVE  /\ tree' = Absent /\ backed' = TRUE /\ cache' = NoCache /\ jobs' = <<>> /\ doing' = None
         /\ stranded' = FALSE /\ KernelTypes' /\ count' \in CountRecord
         /\ count'.edits = count.edits /\ count'.calls = count.calls /\ count'.runs = count.runs
         /\ \A n \in Nodes : NoCache[n] = None /\ Absent[n] = 0
  <1>1. Absent \in [Nodes -> Version] /\ NoCache \in Descriptors
    BY SaveBounds DEF Absent, Version, NoCache, Descriptors
  <1>2. <<>> \in Seq(JobRecord)
    OBVIOUS
  <1>3. /\ count' \in CountRecord /\ count'.edits = count.edits
        /\ count'.calls = count.calls /\ count'.runs = count.runs
    BY Counting DEF KernelIsNew, Types, HistoryTypes
  <1>4. \A n \in Nodes : NoCache[n] = None /\ Absent[n] = 0
    BY DEF NoCache, Absent
  <1>5. QED BY <1>1, <1>2, <1>3, <1>4 DEF KernelIsNew, KernelTypes

----------------------------------------------------------------------------
(* The types.                                                              *)

(* The user's steps keep the types.                                        *)
LEMMA UserTypes ==
  ASSUME Types, UserStep
  PROVE  Types'
  <1>0. KernelTypes /\ ServerTypes /\ DiskTypes /\ HistoryTypes
    BY DEF Types
  <1>1. ASSUME NEW n \in Nodes, Edit(n) PROVE Types'
    <2>1. count' \in CountRecord
      BY <1>0, <1>1, Counting DEF Edit, HistoryTypes
    <2>2. count.edits + 2 \in Version
      BY <1>0, <1>1, SaveBounds DEF Edit, HistoryTypes, CountRecord, Version
    <2>3. KernelTypes'
      BY <1>0, <1>1, <2>2 DEF Edit, KernelTypes
    <2>4. QED
      BY <1>0, <1>1, <2>1, <2>3 DEF Edit, Types, ServerTypes, DiskTypes, HistoryTypes,
         serverVars, diskVars, history
  <1>2. CASE BackingFileChanges
    <2>1. count' \in CountRecord
      BY <1>0, <1>2, Counting DEF BackingFileChanges, HistoryTypes
    <2>2. QED
      BY <1>0, <1>2, <2>1 DEF BackingFileChanges, Types, KernelTypes, ServerTypes, DiskTypes,
         HistoryTypes, serverVars, diskVars, history
  <1>3. CASE RunsSaveProject
    <2>1. count' \in CountRecord
      BY <1>0, <1>3, Counting DEF RunsSaveProject, HistoryTypes
    <2>2. \A b \in BOOLEAN : <<[kind |-> "script", dir |-> "canon", call |-> 0, clear |-> b]>>
                               \in Seq(JobRecord)
      BY DEF JobRecord
    <2>3. jobs' \in Seq(JobRecord)
      BY <1>3, <2>2 DEF RunsSaveProject
    <2>4. QED
      BY <1>0, <1>3, <2>1, <2>3 DEF RunsSaveProject, Types, KernelTypes, ServerTypes, DiskTypes,
         HistoryTypes, serverVars, diskVars, history
  <1>4. ASSUME NEW kind \in {"save", "autosave"}, Ask(kind) PROVE Types'
    <2>1. calls' \in Seq(CallRecord) /\ count' \in CountRecord
      BY <1>4, Asking
    <2>2. QED
      BY <1>0, <1>4, <2>1 DEF Ask, Types, KernelTypes, ServerTypes, DiskTypes, HistoryTypes,
         kernelVars, diskVars, history
  <1>5. CASE ClearBegins
    <2>1. count' \in CountRecord
      BY <1>0, <1>5, Counting DEF ClearBegins, HistoryTypes
    <2>2. jobs' \in Seq(JobRecord)
      BY <1>5, Asked, JobsMove DEF ClearBegins, Queued
    <2>3. QED
      BY <1>0, <1>5, <2>1, <2>2 DEF ClearBegins, Types, KernelTypes, ServerTypes, DiskTypes,
         HistoryTypes, diskVars, history
  <1>6. ASSUME NEW restore \in BOOLEAN, OpenBegins(restore) PROVE Types'
    <2>1. opening' = [Idle EXCEPT !.stage = "copy", !.restore = restore, !.chosen = Chosen(restore)]
      BY <1>6 DEF OpenBegins
    <2>2. opening' \in OpeningRecord
      <3>1. Idle \in OpeningRecord /\ Chosen(restore) \in [Nodes -> Version]
        BY Opening DEF OpeningRecord
      <3>2. QED BY <2>1, <3>1 DEF OpeningRecord
    <2>3. QED
      BY <1>0, <1>6, <2>2 DEF OpenBegins, Types, KernelTypes, ServerTypes, DiskTypes, HistoryTypes,
         kernelVars, diskVars, history
  <1>7. CASE KernelRestarts
    <2>1. CallsFail /\ KernelTypes' /\ count' \in CountRecord /\ stranded' \in BOOLEAN
      BY <1>7, Failing, Renewing DEF KernelRestarts
    <2>2. opening' \in OpeningRecord
      <3>1. opening' = [Idle EXCEPT !.stage = "copy", !.restart = TRUE,
                             !.restore = auto.index # None, !.chosen = Chosen(auto.index # None)]
        BY <1>7 DEF KernelRestarts
      <3>2. opening' = [Idle EXCEPT !.stage = "copy", !.restore = auto.index # None,
                                    !.restart = TRUE, !.chosen = Chosen(auto.index # None)]
        BY <3>1 DEF Idle
      <3>3. opening' = Opens(auto.index # None, TRUE, Chosen(auto.index # None))
        BY <3>2 DEF Opens
      <3>4. QED BY <3>3, Opening
    <2>3. QED
      BY <1>0, <1>7, <2>1, <2>2 DEF KernelRestarts, CallsFail, Types, ServerTypes, DiskTypes,
         HistoryTypes, diskVars
  <1>8. CASE ApplicationCrashes
    <2>1. KernelTypes' /\ count' \in CountRecord /\ stranded' \in BOOLEAN
      BY <1>8, Renewing DEF ApplicationCrashes
    <2>2. Idle \in OpeningRecord /\ <<>> \in Seq(CallRecord)
      <3>1. TRUE \in BOOLEAN
        OBVIOUS
      <3>2. Idle \in OpeningRecord
        BY <3>1, Opening
      <3>3. <<>> \in Seq(CallRecord)
        OBVIOUS
      <3>4. QED BY <3>2, <3>3
    <2>3. QED
      BY <1>0, <1>8, <2>1, <2>2 DEF ApplicationCrashes, Types, ServerTypes, DiskTypes,
         HistoryTypes, Files
  <1>9. QED BY <1>1, <1>2, <1>3, <1>4, <1>5, <1>6, <1>7, <1>8 DEF UserStep

(* The kernel's steps keep the types.                                      *)
LEMMA KernelStepTypes ==
  ASSUME Types, JobsInv, KernelStep
  PROVE  Types'
  <1>0. KernelTypes /\ ServerTypes /\ DiskTypes /\ HistoryTypes
    BY DEF Types
  <1>1. CASE SerializesData
    <2>1. PICK at \in Descriptors, failed \in SUBSET Nodes : Serialized(at, failed)
      BY <1>1, Serializing
    <2>2. doing' \in Collections \cup {None} /\ jobs' \in Seq(JobRecord)
      <3>1. [at |-> at, failed |-> failed] \in Collections
        BY DEF Collections
      <3>2. doing' = [at |-> at, failed |-> failed] \/ doing' = None
        BY <2>1 DEF Serialized
      <3>3. jobs' = jobs \/ Done
        BY <2>1 DEF Serialized
      <3>4. QED BY <1>0, <3>1, <3>2, <3>3 DEF KernelTypes, Done
    <2>3. KernelTypes'
      BY <1>0, <2>1, <2>2 DEF Serialized, KernelTypes
    <2>4. ServerTypes'
      BY <1>0, <2>1 DEF Serialized, ServerTypes, CallsAnswered
    <2>5. DiskTypes' /\ HistoryTypes'
      BY <1>0, <2>1 DEF Serialized, DiskTypes, HistoryTypes, CanonApart
    <2>6. QED BY <2>3, <2>4, <2>5 DEF Types
  <1>2. CASE WritesIndex
    <2>1. Indexed
      BY <1>2, Indexing
    <2>2. KernelTypes' /\ ServerTypes'
      BY <1>0, <2>1 DEF Indexed, KernelTypes, Done, ServerTypes, CallsAnswered
    <2>3. DiskTypes' /\ HistoryTypes'
      BY <1>0, <2>1 DEF Indexed, DiskTypes, HistoryTypes, CanonApart
    <2>4. QED BY <2>2, <2>3 DEF Types
  <1>3. CASE SaveFails
    <2>1. CallsAnswered(Head(jobs).call, FALSE, FALSE, {}) /\ Done
      BY <1>3, Answering, JobsMove DEF SaveFails, JobsInv
    <2>2. KernelTypes' /\ ServerTypes'
      BY <1>0, <1>3, <2>1 DEF SaveFails, KernelTypes, Done, ServerTypes, CallsAnswered
    <2>3. DiskTypes' /\ HistoryTypes'
      BY <1>0, <1>3 DEF SaveFails, DiskTypes, HistoryTypes, diskVars
    <2>4. QED BY <2>2, <2>3 DEF Types
  <1>4. CASE ClearsCache
    <2>1. Done /\ NoCache \in Descriptors
      BY <1>4, JobsMove DEF ClearsCache, NoCache, Descriptors
    <2>2. QED
      BY <1>0, <1>4, <2>1 DEF ClearsCache, Types, KernelTypes, Done, ServerTypes, DiskTypes,
         HistoryTypes, diskVars, history
  <1>5. CASE Loads
    <2>1. CallsForget /\ Done /\ tree' \in [Nodes -> Version] /\ opening' \in OpeningRecord
      BY <1>5, Loading, OpeningMoves
    <2>2. QED
      BY <1>0, <1>5, <2>1 DEF Loads, Types, KernelTypes, Done, ServerTypes, DiskTypes, CallsForget,
         HistoryTypes, diskVars, history
  <1>6. QED BY <1>1, <1>2, <1>3, <1>4, <1>5 DEF KernelStep

(* The server's steps keep the types.                                      *)
LEMMA ServerStepTypes ==
  ASSUME Types, ServerStep
  PROVE  Types'
  <1>0. KernelTypes /\ ServerTypes /\ DiskTypes /\ HistoryTypes
    BY DEF Types
  <1>1. ASSUME NEW i \in DOMAIN calls, SaveStarts(i) PROVE Types'
    <2>1. /\ TakesResults \/ AsksKernel
          /\ CrossesOpening
          /\ UNCHANGED <<tree, backed, cache, doing, clearing, active, diskVars, count, history>>
      BY <1>1, Starting
    <2>2. opening' \in OpeningRecord
      BY <2>1, OpeningMoves
    <2>3. /\ calls' \in Seq(CallRecord) /\ dirty' \in BOOLEAN /\ results' \in LeftRecord \cup {None}
          /\ jobs' \in Seq(JobRecord)
      BY <1>0, <2>1 DEF TakesResults, AsksKernel, MovedTo, Queued, KernelTypes, ServerTypes
    <2>4. QED
      BY <1>0, <2>1, <2>2, <2>3 DEF Types, KernelTypes, ServerTypes, DiskTypes, HistoryTypes,
         diskVars, history
  <1>2. ASSUME NEW i \in DOMAIN calls, CallStep(i), ~SaveStarts(i) PROVE Types'
    <2>1. /\ CallWrites
          /\ UNCHANGED <<kernelVars, results, dirty, clearing, active, auto, work, count, stranded>>
      BY <1>2, CallSteps
    <2>2. /\ calls' \in Seq(CallRecord) /\ canon' \in CanonRecord
      BY <1>0, <2>1 DEF CallWrites, MovedTo, Left1, CanonApart, DiskTypes
    <2>3. /\ opening' \in OpeningRecord
      BY <1>0, <2>1, OpeningMoves DEF CallWrites, ServerTypes
    <2>4. /\ removing' \subseteq {"files", "index"} /\ unsettled' \in BOOLEAN /\ swept' \in BOOLEAN
      BY <1>0, <2>1 DEF CallWrites, DiskTypes, HistoryTypes
    <2>5. QED
      BY <1>0, <2>1, <2>2, <2>3, <2>4 DEF Types, KernelTypes, ServerTypes, DiskTypes,
         HistoryTypes, kernelVars
  <1>3. ASSUME NEW what \in {"files", "index"}, Removes(what) PROVE Types'
    <2>1. auto' \in AutoRecord
      <3>1. {} \in Files /\ auto \in AutoRecord
        BY <1>0 DEF Files, DiskTypes
      <3>2. QED BY <1>3, <3>1 DEF Removes, AutoRecord
    <2>2. QED
      BY <1>0, <1>3, <2>1 DEF Removes, Types, KernelTypes, ServerTypes, DiskTypes, HistoryTypes,
         kernelVars, serverVars, history
  <1>4. CASE ClearGivesUp
    BY <1>0, <1>4 DEF ClearGivesUp, Types, KernelTypes, ServerTypes, DiskTypes, HistoryTypes,
       kernelVars, diskVars, history
  <1>5. CASE ClearRemoves
    <2>1. opening' \in OpeningRecord
      BY <1>5, OpeningMoves DEF ClearRemoves
    <2>2. QED
      BY <1>0, <1>5, <2>1 DEF ClearRemoves, Types, KernelTypes, ServerTypes, DiskTypes,
         HistoryTypes, kernelVars
  <1>6. CASE CopiesForLoad \/ Overlays \/ BecomesActive
    <2>1. opening' \in OpeningRecord
      BY <1>6, OpeningMoves DEF CopiesForLoad, Overlays, BecomesActive
    <2>2. work' \in Files
      BY <1>0, <1>6 DEF CopiesForLoad, Overlays, BecomesActive, DiskTypes, diskVars, Files,
         CanonRecord, AutoRecord
    <2>3. active' \in BOOLEAN
      BY <1>0, <1>6 DEF CopiesForLoad, Overlays, BecomesActive, ServerTypes
    <2>4. QED
      BY <1>0, <1>6, <2>1, <2>2, <2>3 DEF CopiesForLoad, Overlays, BecomesActive, Types, KernelTypes,
         ServerTypes, DiskTypes, HistoryTypes, kernelVars, diskVars, history
  <1>7. CASE AsksToLoad
    <2>1. opening' \in OpeningRecord
      BY <1>7, OpeningMoves DEF AsksToLoad
    <2>2. jobs' \in Seq(JobRecord)
      BY <1>7, Asked, JobsMove DEF AsksToLoad, LoadJob, Queued
    <2>3. QED
      BY <1>0, <1>7, <2>1, <2>2 DEF AsksToLoad, Types, KernelTypes, ServerTypes, DiskTypes,
         HistoryTypes, diskVars, history
  <1>8. CASE OpenEnds
    <2>1. TRUE \in BOOLEAN
      OBVIOUS
    <2>2. Idle \in OpeningRecord
      BY <2>1, Opening
    <2>3. jobs' \in Seq(JobRecord) /\ clearing' \in {"no", "asked", "answered"}
      BY <1>0, <1>8, Asked, JobsMove DEF OpenEnds, Queued, KernelTypes, ServerTypes
    <2>4. QED
      BY <1>0, <1>8, <2>2, <2>3 DEF OpenEnds, Types, KernelTypes, ServerTypes, DiskTypes,
         HistoryTypes, diskVars, history
  <1>9. QED
    BY <1>1, <1>2, <1>3, <1>4, <1>5, <1>6, <1>7, <1>8 DEF ServerStep

(* Every step keeps the types.                                             *)
LEMMA TypesKept ==
  ASSUME Types, JobsInv, [Next]_vars
  PROVE  Types'
  <1>1. CASE UNCHANGED vars
    BY <1>1 DEF vars, kernelVars, serverVars, diskVars, history, Types, KernelTypes, ServerTypes,
       DiskTypes, HistoryTypes
  <1>2. QED
    BY <1>1, UserTypes, KernelStepTypes, ServerStepTypes DEF Next

(* The elements of the sequences, and the numbers and versions in them.    *)
LEMMA Numbers ==
  /\ \A c \in CallRecord : /\ c.id \in Nat /\ c.since \in Nat /\ c.run \in Nat
                          /\ c.missing \in BOOLEAN /\ c.seen \in [Nodes -> Version]
  /\ \A j \in JobRecord : j.call \in Nat
  /\ \A s \in Seq(CallRecord) :
       DOMAIN s \subseteq Nat \ {0} /\ \A i \in DOMAIN s : s[i] \in CallRecord
  /\ \A s \in Seq(JobRecord) :
       DOMAIN s \subseteq Nat \ {0} /\ \A i \in DOMAIN s : s[i] \in JobRecord
  <1>1. /\ \A c \in CallRecord : /\ c.id \in Nat /\ c.since \in Nat /\ c.run \in Nat
                                /\ c.missing \in BOOLEAN /\ c.seen \in [Nodes -> Version]
        /\ \A j \in JobRecord : j.call \in Nat
    BY DEF CallRecord, JobRecord
  <1> DEFINE C == CallRecord
             J == JobRecord
  <1> HIDE DEF C, J
  <1>2. /\ \A s \in Seq(C) : DOMAIN s \subseteq Nat \ {0} /\ \A i \in DOMAIN s : s[i] \in C
        /\ \A s \in Seq(J) : DOMAIN s \subseteq Nat \ {0} /\ \A i \in DOMAIN s : s[i] \in J
    OBVIOUS
  <1>3. QED BY <1>1, <1>2 DEF C, J

(* The types are those of the model.                                       *)
LEMMA TypesOK ==
  ASSUME Types
  PROVE  TypeOK
  <1>1. KernelTypes /\ ServerTypes /\ DiskTypes /\ HistoryTypes
    BY DEF Types
  <1> DEFINE J == JobRecord
             C == CallRecord
  <1>0. /\ \A c \in J : c.kind \in {"save", "script", "clear", "load"}
        /\ \A c \in C : /\ c.kind \in {"save", "autosave"} /\ c.seen \in [Nodes -> Version]
                        /\ c.failed \subseteq Nodes
                        /\ c.stage \in {"queued", "asked", "answered", "failed", "cells", "modules",
                                        "committed"}
        /\ jobs \in Seq(J) /\ calls \in Seq(C)
    BY <1>1 DEF KernelTypes, ServerTypes, JobRecord, CallRecord
  <1> HIDE DEF J, C
  <1>2. \A i \in DOMAIN jobs : jobs[i].kind \in {"save", "script", "clear", "load"}
    BY <1>0
  <1>3. \A i \in DOMAIN calls :
       /\ calls[i].kind \in {"save", "autosave"} /\ calls[i].seen \in [Nodes -> Version]
       /\ calls[i].failed \subseteq Nodes
       /\ calls[i].stage \in {"queued", "asked", "answered", "failed", "cells", "modules",
                              "committed"}
    BY <1>0
  <1>4. QED
    BY <1>1, <1>2, <1>3 DEF TypeOK, KernelTypes, ServerTypes, DiskTypes, HistoryTypes,
       CanonRecord, AutoRecord

----------------------------------------------------------------------------
(* The queue of the kernel and the queue of the save lock.                 *)

(* The two queues, seen from the calls: who has been called, and how.      *)
CallsStay ==
  /\ calls' \in Seq(CallRecord) /\ DOMAIN calls' = DOMAIN calls
  /\ \A i \in DOMAIN calls :
       /\ calls'[i].id = calls[i].id /\ calls'[i].kind = calls[i].kind
       /\ calls'[i].since = calls[i].since
       /\ i # 1 => calls'[i].stage \in {calls[i].stage, "failed"}
(* No call is made, and no job is asked but for one that answers to none.  *)
Quieter ==
  /\ count'.calls = count.calls /\ count'.runs >= count.runs
  /\ doing' # None => jobs' # <<>> /\ Head(jobs').kind \in {"save", "script"}
  /\ \A j \in DOMAIN jobs' : \/ \E k \in DOMAIN jobs : jobs'[j] = jobs[k]
                             \/ jobs'[j].call = 0 /\ (jobs'[j].kind = "script" => jobs'[j].dir = "canon")
QueuesInv == JobsInv /\ CallsInv

(* A load, the kernel's loss and a first call's move leave the calls in    *)
(* place.                                                                  *)
LEMMA CallsStaying ==
  ASSUME Types, CallsInv
  PROVE  /\ CallsForget => CallsStay
         /\ CallsFail => CallsStay
         /\ calls' = calls => CallsStay
         /\ \A stage : MovedTo(stage) => CallsStay
         /\ TakesResults => CallsStay
  <1>1. calls \in Seq(CallRecord)
    BY DEF Types, ServerTypes
  <1>3. CallsForget => CallsStay
    BY <1>1 DEF CallsForget, CallsStay
  <1>4. CallsFail => CallsStay
    BY <1>1 DEF CallsFail, SameCall, CallsStay
  <1>5. calls' = calls => CallsStay
    BY <1>1 DEF CallsStay
  <1>6. ASSUME NEW stage, MovedTo(stage) PROVE CallsStay
    BY <1>1, <1>6 DEF MovedTo, SameCall, CallsStay
  <1>7. TakesResults => CallsStay
    BY <1>1 DEF TakesResults, CallsStay
  <1>8. QED BY <1>3, <1>4, <1>5, <1>6, <1>7

(* A step of which that is all keeps the queues in order.                  *)
LEMMA Quietly ==
  ASSUME Types, Types', QueuesInv, CallsStay \/ Left1, Quieter
  PROVE  QueuesInv'
  <1>1. /\ count.calls \in Nat /\ count.runs \in Nat /\ count'.runs \in Nat
        /\ \A i \in DOMAIN calls : calls[i].id \in Nat /\ calls[i].since \in Nat
        /\ \A j \in DOMAIN jobs : jobs[j].call \in Nat
        /\ DOMAIN calls \subseteq Nat
    BY Numbers DEF Types, HistoryTypes, CountRecord, ServerTypes, KernelTypes
  <1>2. \A i \in DOMAIN calls' : \E k \in DOMAIN calls :
          calls'[i].id = calls[k].id /\ calls'[i].kind = calls[k].kind /\ calls'[i].since = calls[k].since
    BY DEF CallsStay, Left1
  <1>3. CallsInv'
    <2>1. \A i \in DOMAIN calls' : calls'[i].id \in 1 .. count'.calls /\ calls'[i].since <= count'.runs
      BY <1>1, <1>2 DEF Quieter, QueuesInv, CallsInv
    <2>2. \A i, j \in DOMAIN calls' : i < j => calls'[i].id < calls'[j].id
      <3>1. CASE CallsStay
        BY <3>1 DEF CallsStay, QueuesInv, CallsInv
      <3>2. CASE Left1
        <4>1. DOMAIN calls' \subseteq Nat
          BY DEF Types, ServerTypes
        <4>2. QED BY <3>2, <4>1 DEF Left1, QueuesInv, CallsInv
      <3>3. QED BY <3>1, <3>2
    <2>3. \A i \in DOMAIN calls' : i # 1 => calls'[i].stage \in {"queued", "failed"}
      <3>1. CASE CallsStay
        BY <3>1 DEF CallsStay, QueuesInv, CallsInv
      <3>2. CASE Left1
        <4>1. \A i \in DOMAIN calls' : i >= 1 /\ i \in Nat
          BY DEF Types, ServerTypes
        <4>2. \A i \in DOMAIN calls' : i + 1 # 1
          BY <4>1
        <4>3. QED BY <3>2, <4>2 DEF Left1, QueuesInv, CallsInv
      <3>3. QED BY <3>1, <3>2
    <2>4. QED BY <2>1, <2>2, <2>3 DEF CallsInv
  <1>4. JobsInv'
    <2>1. ASSUME NEW j \in DOMAIN jobs'
          PROVE  /\ jobs'[j].kind = "script" => jobs'[j].dir = "canon" /\ jobs'[j].call = 0
                 /\ jobs'[j].call <= count'.calls
                 /\ \A i \in DOMAIN calls' : jobs'[j].call = calls'[i].id =>
                      (jobs'[j].dir = "canon" <=> calls'[i].kind = "save")
      <3>1. CASE \E k \in DOMAIN jobs : jobs'[j] = jobs[k]
        BY <3>1, <1>2 DEF Quieter, QueuesInv, JobsInv
      <3>2. CASE jobs'[j].call = 0 /\ (jobs'[j].kind = "script" => jobs'[j].dir = "canon")
        <4>1. \A i \in DOMAIN calls' : calls'[i].id # 0
          BY <1>1, <1>2 DEF QueuesInv, CallsInv
        <4>2. QED BY <3>2, <4>1, <1>1 DEF Quieter
      <3>3. QED BY <3>1, <3>2 DEF Quieter
    <2>2. QED BY <2>1 DEF JobsInv, Quieter
  <1>5. QED BY <1>3, <1>4 DEF QueuesInv

(* How a step of the user leaves the queues.                               *)
LEMMA UserQueues ==
  ASSUME Types, Types', QueuesInv, UserStep
  PROVE  QueuesInv'
  <1>0. /\ count \in CountRecord /\ calls \in Seq(CallRecord) /\ jobs \in Seq(JobRecord)
        /\ count.calls \in Nat /\ count.runs \in Nat
    BY DEF Types, HistoryTypes, CountRecord, ServerTypes, KernelTypes
  <1>1. ASSUME (\E n \in Nodes : Edit(n)) \/ BackingFileChanges \/ (\E r \in BOOLEAN : OpenBegins(r))
        PROVE  QueuesInv'
    <2>1. /\ UNCHANGED <<jobs, doing, calls>> /\ count'.calls = count.calls /\ count'.runs = count.runs
      BY <1>0, <1>1, Counting DEF Edit, BackingFileChanges, OpenBegins, serverVars, kernelVars
    <2>2. Quieter /\ CallsStay
      BY <1>0, <2>1, CallsStaying DEF Quieter, QueuesInv, JobsInv
    <2>3. QED BY <2>2, Quietly
  <1>2. CASE RunsSaveProject
    <2>1. /\ UNCHANGED <<doing, calls>> /\ count'.calls = count.calls /\ count'.runs = count.runs
          /\ jobs = <<>> /\ jobs' = <<[kind |-> "script", dir |-> "canon", call |-> 0, clear |-> FALSE]>>
      BY <1>0, <1>2, Counting DEF RunsSaveProject, serverVars
    <2>2. doing = None
      BY <2>1 DEF QueuesInv, JobsInv
    <2>3. Quieter /\ CallsStay
      BY <1>0, <2>1, <2>2, CallsStaying DEF Quieter, QueuesInv
    <2>4. QED BY <2>3, Quietly
  <1>3. ASSUME NEW kind \in {"save", "autosave"}, Ask(kind) PROVE QueuesInv'
    <2> DEFINE k == Len(calls) + 1
    <2>1. /\ DOMAIN calls' = DOMAIN calls \cup {k} /\ Len(calls) \in Nat /\ DOMAIN calls = 1 .. Len(calls)
          /\ \A i \in DOMAIN calls : calls'[i] = calls[i]
          /\ calls'[k].id = count.calls + 1 /\ calls'[k].stage = "queued"
          /\ calls'[k].since = count.runs
          /\ count'.calls = count.calls + 1 /\ count'.runs = count.runs
      BY <1>3, Asking
    <2>2. UNCHANGED <<jobs, doing>>
      BY <1>3 DEF Ask, kernelVars
    <2>3. /\ \A j \in DOMAIN jobs : jobs[j].call \in Nat
          /\ \A i \in DOMAIN calls : calls[i].id \in Nat /\ calls[i].since \in Nat
      BY <1>0, Numbers
    <2>4. CallsInv'
      <3>1. \A i \in DOMAIN calls' : calls'[i].id \in 1 .. count'.calls /\ calls'[i].since <= count'.runs
        BY <1>0, <2>1, <2>3 DEF QueuesInv, CallsInv
      <3>2. \A i, j \in DOMAIN calls' : i < j => calls'[i].id < calls'[j].id
        BY <1>0, <2>1, <2>3 DEF QueuesInv, CallsInv
      <3>3. \A i \in DOMAIN calls' : i # 1 => calls'[i].stage \in {"queued", "failed"}
        BY <2>1 DEF QueuesInv, CallsInv
      <3>4. QED BY <3>1, <3>2, <3>3 DEF CallsInv
    <2>5. JobsInv'
      <3>1. \A j \in DOMAIN jobs : jobs[j].call # count.calls + 1 /\ jobs[j].call <= count.calls + 1
        BY <1>0, <2>3 DEF QueuesInv, JobsInv
      <3>2. QED BY <2>1, <2>2, <3>1 DEF QueuesInv, JobsInv
    <2>6. QED BY <2>4, <2>5 DEF QueuesInv
  <1>4. CASE ClearBegins
    <2>1. /\ UNCHANGED <<doing, calls>> /\ count'.calls = count.calls /\ count'.runs = count.runs
          /\ Queued(ClearJob)
      BY <1>0, <1>4, Counting, Asked, JobsMove DEF ClearBegins
    <2>2. Quieter /\ CallsStay
      BY <1>0, <2>1, Asked, CallsStaying DEF Quieter, QueuesInv, JobsInv, Queued
    <2>3. QED BY <2>2, Quietly
  <1>5. CASE KernelRestarts
    <2>1. /\ jobs' = <<>> /\ doing' = None /\ count'.calls = count.calls /\ count'.runs = count.runs
          /\ CallsFail
      BY <1>5, Renewing, Failing DEF KernelRestarts
    <2>2. Quieter /\ CallsStay
      BY <1>0, <2>1, CallsStaying DEF Quieter, QueuesInv
    <2>3. QED BY <2>2, Quietly
  <1>6. CASE ApplicationCrashes
    <2>1. /\ jobs' = <<>> /\ doing' = None /\ calls' = <<>>
      BY <1>6, Renewing DEF ApplicationCrashes
    <2>2. QED BY <2>1 DEF QueuesInv, JobsInv, CallsInv
  <1>7. QED BY <1>1, <1>2, <1>3, <1>4, <1>5, <1>6 DEF UserStep

(* How a step of the kernel leaves them.                                   *)
LEMMA KernelQueues ==
  ASSUME Types, Types', QueuesInv, KernelStep
  PROVE  QueuesInv'
  <1>0. count.calls \in Nat /\ count.runs \in Nat /\ JobsInv /\ CallsInv
    BY DEF Types, HistoryTypes, CountRecord, QueuesInv
  <1>1. ASSUME Done, doing' = None, count'.calls = count.calls, count'.runs >= count.runs PROVE Quieter
    BY <1>1 DEF Done, Quieter
  <1>2. CASE SerializesData
    <2>1. PICK at \in Descriptors, failed \in SUBSET Nodes : Serialized(at, failed)
      BY <1>2, Serializing
    <2>2. /\ count'.calls = count.calls /\ count'.runs = count.runs + 1 /\ jobs # <<>>
          /\ Head(jobs).kind \in {"save", "script"}
      BY <2>1 DEF Serialized
    <2>3. CASE backed
      <3>1. UNCHANGED <<jobs, calls>>
        BY <2>1, <2>3 DEF Serialized
      <3>2. Quieter /\ CallsStay
        BY <1>0, <2>2, <3>1, CallsStaying DEF Quieter
      <3>3. QED BY <3>2, Quietly
    <2>4. CASE ~backed
      <3>1. doing' = None /\ Done /\ CallsAnswered(Head(jobs).call, TRUE, TRUE, failed)
        BY <2>1, <2>4 DEF Serialized
      <3>2. Quieter
        BY <1>0, <1>1, <2>2, <3>1
      <3>3. CallsStay
        BY <1>0, <3>1 DEF CallsAnswered, Answered, CallsStay, CallsInv
      <3>4. QED BY <3>2, <3>3, Quietly
    <2>5. QED BY <2>3, <2>4
  <1>3. CASE WritesIndex
    <2>1. doing' = None /\ Done /\ CallsAnswered(Head(jobs).call, TRUE, FALSE, doing.failed) /\ count' = count
      BY <1>0, <1>3, Indexing DEF Indexed
    <2>2. Quieter
      BY <1>0, <1>1, <2>1
    <2>3. CallsStay
      BY <1>0, <2>1 DEF CallsAnswered, Answered, CallsStay, CallsInv
    <2>4. QED BY <2>2, <2>3, Quietly
  <1>4. CASE SaveFails
    <2>1. doing' = None /\ Done /\ CallsAnswered(Head(jobs).call, FALSE, FALSE, {}) /\ count' = count
      BY <1>0, <1>4, JobsMove, Answering DEF SaveFails, JobsInv
    <2>2. Quieter
      BY <1>0, <1>1, <2>1
    <2>3. CallsStay
      BY <1>0, <2>1 DEF CallsAnswered, Answered, CallsStay, CallsInv
    <2>4. QED BY <2>2, <2>3, Quietly
  <1>5. CASE ClearsCache
    <2>1. doing' = None /\ Done /\ calls' = calls /\ count' = count
      BY <1>5, JobsMove DEF ClearsCache
    <2>2. Quieter
      BY <1>0, <1>1, <2>1
    <2>3. CallsStay
      BY <1>0, <2>1, CallsStaying
    <2>4. QED BY <2>2, <2>3, Quietly
  <1>6. CASE Loads
    <2>1. doing' = None /\ Done /\ CallsForget /\ count' = count
      BY <1>6, Loading DEF Loads
    <2>2. Quieter
      BY <1>0, <1>1, <2>1
    <2>3. CallsStay
      BY <1>0, <2>1, CallsStaying
    <2>4. QED BY <2>2, <2>3, Quietly
  <1>7. QED BY <1>2, <1>3, <1>4, <1>5, <1>6 DEF KernelStep

(* How a step of the server leaves them.                                   *)
LEMMA ServerQueues ==
  ASSUME Types, Types', QueuesInv, ServerStep
  PROVE  QueuesInv'
  <1>0. count.calls \in Nat /\ count.runs \in Nat /\ JobsInv /\ CallsInv
    BY DEF Types, HistoryTypes, CountRecord, QueuesInv
  <1>1. ASSUME NEW job \in JobRecord, Queued(job), job.call = 0, job.kind # "script",
               doing' = doing, count' = count
        PROVE  Quieter
    BY <1>0, <1>1 DEF Queued, Quieter, JobsInv
  <1>2. ASSUME UNCHANGED <<jobs, doing, count>> PROVE Quieter
    BY <1>0, <1>2 DEF Quieter, JobsInv
  <1>3. ASSUME NEW i \in DOMAIN calls, SaveStarts(i) PROVE QueuesInv'
    <2>1. /\ (1 \in DOMAIN calls /\ TakesResults) \/ AsksKernel
          /\ UNCHANGED <<doing, count>>
      BY <1>3, Starting
    <2>2. CallsStay
      BY <1>0, <2>1, CallsStaying DEF AsksKernel
    <2>3. CASE TakesResults
      BY <1>2, <2>1, <2>2, <2>3, Quietly DEF TakesResults
    <2>4. CASE AsksKernel
      <3>1. PICK job \in JobRecord :
              /\ Queued(job) /\ job.kind = "save" /\ job.call = calls[1].id
              /\ job.dir = IF calls[1].kind = "autosave" THEN "auto" ELSE "canon"
        BY <2>4 DEF AsksKernel
      <3>2. \A j \in DOMAIN jobs' : jobs'[j] = job \/ (j \in DOMAIN jobs /\ jobs'[j] = jobs[j])
        BY <3>1 DEF Queued
      <3>0. /\ calls \in Seq(CallRecord) /\ DOMAIN calls \subseteq Nat \ {0}
            /\ \A k \in DOMAIN calls : calls[k] \in CallRecord /\ calls[k].id \in Nat
        BY Numbers DEF Types, ServerTypes
      <3>3. \A k \in DOMAIN calls : calls[k].id = calls[1].id => k = 1
        BY <1>0, <2>1, <3>0 DEF CallsInv
      <3>4. calls[1].kind \in {"save", "autosave"} /\ calls[1].id \in Nat /\ calls[1].id <= count.calls
        <4>1. \A c \in CallRecord : c.kind \in {"save", "autosave"}
          BY DEF CallRecord
        <4>2. QED BY <1>0, <2>1, <3>0, <4>1 DEF CallsInv
      <3>5. DOMAIN calls' = DOMAIN calls /\ \A k \in DOMAIN calls :
              calls'[k].id = calls[k].id /\ calls'[k].kind = calls[k].kind
        BY <2>2 DEF CallsStay
      <3>6. \A j \in DOMAIN jobs' :
              /\ jobs'[j].kind = "script" => jobs'[j].dir = "canon" /\ jobs'[j].call = 0
              /\ jobs'[j].call <= count'.calls
              /\ \A k \in DOMAIN calls' : jobs'[j].call = calls'[k].id =>
                   (jobs'[j].dir = "canon" <=> calls'[k].kind = "save")
        <4> TAKE j \in DOMAIN jobs'
        <4>1. CASE jobs'[j] = job
          BY <2>1, <3>1, <3>3, <3>4, <3>5, <4>1
        <4>2. CASE j \in DOMAIN jobs /\ jobs'[j] = jobs[j]
          BY <1>0, <2>1, <3>5, <4>2 DEF JobsInv
        <4>3. QED BY <3>2, <4>1, <4>2
      <3>7. doing' # None => jobs' # <<>> /\ Head(jobs').kind \in {"save", "script"}
        BY <1>0, <2>1, <3>1 DEF JobsInv, Queued
      <3>8. JobsInv'
        BY <3>6, <3>7 DEF JobsInv
      <3>9. CallsInv'
        <4>1. \A k \in DOMAIN calls' : calls'[k].id \in 1 .. count'.calls /\ calls'[k].since <= count'.runs
          BY <1>0, <2>1, <2>2 DEF CallsStay, CallsInv
        <4>2. \A k, l \in DOMAIN calls' : k < l => calls'[k].id < calls'[l].id
          BY <1>0, <2>2 DEF CallsStay, CallsInv
        <4>3. \A k \in DOMAIN calls' : k # 1 => calls'[k].stage \in {"queued", "failed"}
          BY <1>0, <2>2 DEF CallsStay, CallsInv
        <4>4. QED BY <4>1, <4>2, <4>3 DEF CallsInv
      <3>10. QED BY <3>8, <3>9 DEF QueuesInv
    <2>5. QED BY <2>1, <2>3, <2>4
  <1>4. ASSUME NEW i \in DOMAIN calls, CallStep(i), ~SaveStarts(i) PROVE QueuesInv'
    <2>1. CallWrites /\ UNCHANGED <<jobs, doing, count>>
      BY <1>4, CallSteps DEF kernelVars
    <2>2. CallsStay \/ Left1
      BY <1>0, <2>1, CallsStaying DEF CallWrites
    <2>3. QED BY <1>2, <2>1, <2>2, Quietly
  <1>5. ASSUME \/ \E what \in {"files", "index"} : Removes(what)
               \/ ClearGivesUp \/ ClearRemoves \/ CopiesForLoad \/ Overlays \/ BecomesActive
        PROVE  QueuesInv'
    <2>1. UNCHANGED <<jobs, doing, calls, count>>
      BY <1>5 DEF Removes, ClearGivesUp, ClearRemoves, CopiesForLoad, Overlays, BecomesActive,
         kernelVars, serverVars
    <2>2. CallsStay
      BY <1>0, <2>1, CallsStaying
    <2>3. QED BY <1>2, <2>1, <2>2, Quietly
  <1>6. ASSUME AsksToLoad \/ OpenEnds PROVE QueuesInv'
    <2>1. UNCHANGED <<doing, calls, count>> /\ (jobs' = jobs \/ Queued(LoadJob) \/ Queued(ClearJob))
      BY <1>6, Asked, JobsMove DEF AsksToLoad, OpenEnds, LoadJob
    <2>2. CallsStay
      BY <1>0, <2>1, CallsStaying
    <2>3. Quieter
      BY <1>1, <1>2, <2>1, Asked
    <2>4. QED BY <2>2, <2>3, Quietly
  <1>7. QED BY <1>3, <1>4, <1>5, <1>6 DEF ServerStep

----------------------------------------------------------------------------
(* The commit.                                                             *)

(* The numbers and kinds that the invariants compare.                      *)
LEMMA Compared ==
  ASSUME Types
  PROVE  /\ canon.cells \in Nat /\ canon.index.by \in Nat
         /\ canon.manifest.call \in Nat /\ canon.manifest.run \in Nat
         /\ count.calls \in Nat /\ count.runs \in Nat /\ count.edits \in Nat
         /\ \A i \in DOMAIN calls : /\ calls[i].id \in Nat /\ calls[i].run \in Nat
                                    /\ calls[i].since \in Nat /\ i \in Nat \ {0}
                                    /\ calls[i].seen \in [Nodes -> Version]
         /\ results # None => results.run \in Nat /\ results.missing \in BOOLEAN
  <1>1. canon \in CanonRecord /\ count \in CountRecord /\ calls \in Seq(CallRecord)
        /\ results \in LeftRecord \cup {None}
    BY DEF Types, DiskTypes, HistoryTypes, ServerTypes
  <1>2. /\ canon.cells \in Nat /\ canon.index \in Indexes
        /\ canon.manifest \in [call : Nat, run : Nat]
    BY <1>1 DEF CanonRecord
  <1>3. canon.index.by \in Nat
    BY <1>2 DEF Indexes, Descriptors
  <1>4. canon.manifest.call \in Nat /\ canon.manifest.run \in Nat
    BY <1>2
  <1>5. count.calls \in Nat /\ count.runs \in Nat /\ count.edits \in Nat
    BY <1>1 DEF CountRecord
  <1>6. \A i \in DOMAIN calls : /\ calls[i].id \in Nat /\ calls[i].run \in Nat
                                /\ calls[i].since \in Nat /\ i \in Nat \ {0}
                                /\ calls[i].seen \in [Nodes -> Version]
    BY <1>1, Numbers
  <1>7. results # None => results.run \in Nat /\ results.missing \in BOOLEAN
    BY <1>1 DEF LeftRecord
  <1>8. QED BY <1>2, <1>3, <1>4, <1>5, <1>6, <1>7

(* A call whose work is as it was.                                         *)
SameWork(c, d) ==
  c.id = d.id /\ c.kind = d.kind /\ c.stage = d.stage /\ c.missing = d.missing /\ c.run = d.run
(* The calls, none with new work to account for.                           *)
CallsRest ==
  \A i \in DOMAIN calls' : \E k \in DOMAIN calls :
    calls'[i].id = calls[k].id /\ (SameWork(calls'[i], calls[k]) \/ Unwritten(calls'[i]))
(* The project's own files stand but for an index of a later save.         *)
CanonStands ==
  /\ canon'.cells = canon.cells
  /\ canon'.manifest = canon.manifest
  /\ canon'.index = canon.index \/ canon'.index.by = count.runs
ResultsRest ==
  results' = results \/ results' = None \/ results'.missing \/ results'.run = canon'.index.by

(* While they stand and the calls rest, a project.json stays true.         *)
LEMMA CommitRests ==
  ASSUME Types, Types', CommitInv, CallsRest, CanonStands, ResultsRest,
         count'.calls >= count.calls, count'.runs >= count.runs
  PROVE  CommitInv'
  <1>1. /\ canon.cells \in Nat /\ canon.index.by \in Nat
        /\ canon.manifest.call \in Nat /\ canon.manifest.run \in Nat
        /\ count.calls \in Nat /\ count.runs \in Nat
        /\ \A i \in DOMAIN calls : calls[i].id \in Nat /\ calls[i].run \in Nat
        /\ results # None => results.run \in Nat
    BY Compared
  <1>2. /\ canon'.index.by \in Nat /\ count'.calls \in Nat /\ count'.runs \in Nat
        /\ results' # None => results'.run \in Nat /\ results'.missing \in BOOLEAN
    <2>1. canon' \in CanonRecord /\ count' \in CountRecord /\ results' \in LeftRecord \cup {None}
      BY DEF Types, DiskTypes, HistoryTypes, ServerTypes
    <2>2. canon'.index \in Indexes
      BY <2>1 DEF CanonRecord
    <2>3. QED BY <2>1, <2>2 DEF Indexes, CountRecord, LeftRecord
  <1>3. canon.index.by <= canon'.index.by /\ canon'.index.by <= count'.runs
    BY <1>1, <1>2 DEF CanonStands, CommitInv
  <1>4. CommitIsLast'
    BY <1>1, <1>2, <1>3 DEF CommitIsLast, CanonStands, CommitInv
  <1>5. canon'.manifest.call <= count'.calls
    BY <1>1, <1>2 DEF CanonStands, CommitInv
  <1>6. \A i \in DOMAIN calls' : canon'.manifest.call <= calls'[i].id
    BY DEF CallsRest, CanonStands, CommitInv
  <1>7. ASSUME NEW i \in DOMAIN calls' PROVE Written(calls[i])'
    <2>1. PICK k \in DOMAIN calls : SameWork(calls'[i], calls[k]) \/ Unwritten(calls'[i])
      BY DEF CallsRest
    <2>2. CASE SameWork(calls'[i], calls[k])
      <3>1. Written(calls[k])
        BY DEF CommitInv
      <3>2. QED BY <1>1, <1>2, <1>3, <2>2, <3>1 DEF SameWork, Written, CanonStands
    <2>3. CASE Unwritten(calls'[i])
      BY <2>3 DEF Unwritten, Written
    <2>4. QED BY <2>1, <2>2, <2>3
  <1>8. results' # None /\ ~results'.missing => results'.run <= canon'.index.by
    BY <1>1, <1>2, <1>3 DEF ResultsRest, CommitInv
  <1>9. QED BY <1>3, <1>4, <1>5, <1>6, <1>7, <1>8 DEF CommitInv

(* The calls that rest while a step is none of their business.             *)
LEMMA CallsResting ==
  ASSUME Types, CallsInv
  PROVE  /\ calls' = calls => CallsRest
         /\ CallsForget => CallsRest
         /\ CallsFail => CallsRest
         /\ MovedTo("asked") => CallsRest
         /\ Left1 => CallsRest
  <1>1. calls' = calls => CallsRest
    BY DEF CallsRest, SameWork
  <1>2. CallsForget => CallsRest
    BY DEF CallsForget, CallsRest, SameWork
  <1>3. CallsFail => CallsRest
    BY DEF CallsFail, CallsRest, SameWork, SameCall, Unwritten
  <1>4. MovedTo("asked") => CallsRest
    BY DEF MovedTo, CallsRest, SameWork, SameCall, Unwritten
  <1>5. Left1 => CallsRest
    BY DEF Left1, CallsRest, SameWork
  <1>6. QED BY <1>1, <1>2, <1>3, <1>4, <1>5

(* A user's step keeps the project.json true.                              *)
LEMMA UserCommits ==
  ASSUME Types, Types', QueuesInv, CommitInv, UserStep
  PROVE  CommitInv'
  <1>0. /\ count \in CountRecord /\ count.calls \in Nat /\ count.runs \in Nat /\ CallsInv
    BY DEF Types, HistoryTypes, CountRecord, QueuesInv
  <1>1. ASSUME UNCHANGED <<canon, calls, results>>, count'.calls = count.calls, count'.runs = count.runs
        PROVE  CommitInv'
    <2>1. CallsRest /\ CanonStands /\ ResultsRest
      BY <1>0, <1>1, CallsResting DEF CanonStands, ResultsRest
    <2>2. QED BY <1>0, <1>1, <2>1, CommitRests
  <1>2. ASSUME \/ \E n \in Nodes : Edit(n)
               \/ BackingFileChanges \/ RunsSaveProject \/ ClearBegins
               \/ \E r \in BOOLEAN : OpenBegins(r)
        PROVE  CommitInv'
    <2>1. /\ UNCHANGED <<canon, calls, results>>
          /\ count'.calls = count.calls /\ count'.runs = count.runs
      BY <1>0, <1>2, Counting DEF Edit, BackingFileChanges, RunsSaveProject, ClearBegins,
         OpenBegins, serverVars, diskVars
    <2>2. QED BY <1>1, <2>1
  <1>3. ASSUME NEW kind \in {"save", "autosave"}, Ask(kind) PROVE CommitInv'
    <2>0. PICK k : k = Len(calls) + 1
      OBVIOUS
    <2>1. /\ DOMAIN calls' = DOMAIN calls \cup {k}
          /\ \A i \in DOMAIN calls : calls'[i] = calls[i]
          /\ calls'[k].id = count.calls + 1 /\ calls'[k].stage = "queued"
          /\ count'.calls = count.calls + 1 /\ count'.runs = count.runs
      BY <1>3, <2>0, Asking
    <2>2. UNCHANGED <<canon, results>>
      BY <1>3 DEF Ask, diskVars
    <2>3. canon.manifest.call \in Nat /\ canon.manifest.call <= count.calls + 1
      BY <1>0, Compared DEF CommitInv
    <2>4. \A i \in DOMAIN calls' : canon'.manifest.call <= calls'[i].id /\ Written(calls[i])'
      <3>1. \A i \in DOMAIN calls : canon'.manifest.call <= calls'[i].id /\ Written(calls[i])'
        BY <2>1, <2>2 DEF CommitInv, Written
      <3>2. canon'.manifest.call <= calls'[k].id /\ Written(calls[k])'
        BY <2>1, <2>2, <2>3 DEF Written
      <3>3. QED BY <2>1, <3>1, <3>2
    <2>5. canon'.manifest.call <= count'.calls /\ canon'.index.by <= count'.runs /\ CommitIsLast'
      BY <2>1, <2>2, <2>3 DEF CommitInv, CommitIsLast
    <2>6. results' # None /\ ~results'.missing => results'.run <= canon'.index.by
      BY <2>2 DEF CommitInv
    <2>7. QED BY <2>4, <2>5, <2>6 DEF CommitInv
  <1>4. CASE KernelRestarts
    <2>1. /\ UNCHANGED <<canon, results>>
          /\ count'.calls = count.calls /\ count'.runs = count.runs /\ CallsFail
      BY <1>4, Renewing, Failing DEF KernelRestarts, diskVars
    <2>2. CallsRest /\ CanonStands /\ ResultsRest
      BY <1>0, <2>1, CallsResting DEF CanonStands, ResultsRest
    <2>3. QED BY <1>0, <2>1, <2>2, CommitRests
  <1>5. CASE ApplicationCrashes
    <2>1. /\ UNCHANGED <<canon>> /\ results' = None /\ calls' = <<>>
          /\ count'.calls = count.calls /\ count'.runs = count.runs
      BY <1>5, Renewing DEF ApplicationCrashes
    <2>2. CallsRest /\ CanonStands /\ ResultsRest
      BY <2>1 DEF CanonStands, ResultsRest, CallsRest
    <2>3. QED BY <1>0, <2>1, <2>2, CommitRests
  <1>6. QED BY <1>2, <1>3, <1>4, <1>5 DEF UserStep

(* So does a kernel's step: an answer with an index is of that index.      *)
LEMMA KernelCommits ==
  ASSUME Types, Types', QueuesInv, CommitInv, KernelStep
  PROVE  CommitInv'
  <1>0. /\ count.calls \in Nat /\ count.runs \in Nat /\ CallsInv /\ JobsInv
    BY DEF Types, HistoryTypes, CountRecord, QueuesInv
  <1>1. CASE SerializesData
    <2>1. PICK at \in Descriptors, failed \in SUBSET Nodes : Serialized(at, failed)
      BY <1>1, Serializing
    <2>2. /\ CanonApart({"files"}) /\ count'.calls = count.calls /\ count'.runs = count.runs + 1
      BY <2>1 DEF Serialized
    <2>3. CanonStands
      BY <2>2 DEF CanonApart, CanonStands
    <2>4. CallsRest
      <3>1. CASE backed
        BY <1>0, <2>1, <3>1, CallsResting DEF Serialized
      <3>2. CASE ~backed
        <4>1. CallsAnswered(Head(jobs).call, TRUE, TRUE, failed)
          BY <2>1, <3>2 DEF Serialized
        <4>2. QED BY <4>1 DEF CallsAnswered, Answered, CallsRest, SameWork, Unwritten
      <3>3. QED BY <3>1, <3>2
    <2>5. ResultsRest
      BY <2>1 DEF Serialized, ResultsRest
    <2>6. QED BY <1>0, <2>2, <2>3, <2>4, <2>5, CommitRests
  <1>2. CASE WritesIndex
    <2>1. Indexed
      BY <1>0, <1>2, Indexing
    <2>2. CanonStands /\ count' = count
      BY <2>1 DEF Indexed, CanonApart, CanonStands
    <2>3. jobs # <<>> /\ 1 \in DOMAIN jobs /\ jobs[1] = Head(jobs)
      BY <1>0, <2>1, JobsMove DEF Indexed, JobsInv
    <2>4. CASE Explicit
      <3>1. canon'.index.by = count.runs /\ canon' \in CanonRecord
        BY <2>1, <2>4 DEF Indexed, CanonApart
      <3>2. ResultsRest
        BY <2>1, <3>1 DEF Indexed, ResultsRest
      <3>3. /\ DOMAIN calls' = DOMAIN calls
            /\ \A i \in DOMAIN calls : Answered(calls'[i], calls[i], Head(jobs).call, TRUE, FALSE, doing.failed)
        BY <2>1 DEF Indexed, CallsAnswered
      <3>4. /\ canon.cells \in Nat /\ canon.index.by \in Nat
            /\ canon.manifest.call \in Nat /\ canon.manifest.run \in Nat
            /\ \A i \in DOMAIN calls : calls[i].id \in Nat /\ calls[i].run \in Nat
            /\ results # None => results.run \in Nat
        BY Compared
      <3>5. canon.index.by <= canon'.index.by
        BY <3>1 DEF CommitInv
      <3>6. \A i \in DOMAIN calls' : canon'.manifest.call <= calls'[i].id /\ Written(calls[i])'
        <4> TAKE i \in DOMAIN calls'
        <4>0. i \in DOMAIN calls
          BY <3>3
        <4>1. calls'[i].id = calls[i].id
          BY <3>3, <4>0 DEF Answered
        <4>2. canon'.manifest.call <= calls'[i].id
          BY <2>2, <3>3, <4>1 DEF CanonStands, CommitInv
        <4>3. CASE calls'[i] = calls[i]
          <5>1. Written(calls[i]) /\ calls[i].run \in Nat
            BY <3>4, <4>0 DEF CommitInv
          <5>2. canon'.cells = canon.cells
            BY <2>2 DEF CanonStands
          <5>3. calls[i].run <= canon.index.by => calls[i].run <= canon'.index.by
            BY <1>0, <3>1, <3>4, <3>5, <5>1
          <5>4. QED BY <4>2, <4>3, <5>1, <5>2, <5>3 DEF Written
        <4>4. CASE calls'[i].stage = "answered" /\ calls'[i].run = count.runs
          <5>1. calls'[i].run <= canon'.index.by
            BY <1>0, <3>1, <4>4
          <5>2. QED BY <4>2, <4>4, <5>1 DEF Written
        <4>5. QED BY <3>3, <4>0, <4>2, <4>3, <4>4 DEF Answered
      <3>7. CommitIsLast'
        BY <1>0, <2>2, <3>1, <3>4, <3>5 DEF CommitInv, CommitIsLast, CanonStands
      <3>8. canon'.manifest.call <= count'.calls /\ canon'.index.by <= count'.runs
        BY <1>0, <2>2, <3>1 DEF CommitInv, CanonStands
      <3>9. results' # None /\ ~results'.missing => results'.run <= canon'.index.by
        BY <1>0, <2>1, <3>1, <3>4, <3>5 DEF Indexed, CommitInv
      <3>10. QED BY <3>6, <3>7, <3>8, <3>9 DEF CommitInv
    <2>5. CASE ~Explicit
      <3>1. Head(jobs).dir # "canon"
        BY <2>1, <2>5 DEF Explicit, Indexed
      <3>2. results' = results
        BY <1>0, <2>1, <2>3, <3>1 DEF Indexed, JobsInv
      <3>3. \A i \in DOMAIN calls : calls[i].id = Head(jobs).call => calls[i].kind # "save"
        BY <1>0, <2>3, <3>1 DEF JobsInv
      <3>4. CallsRest
        BY <2>1, <3>3 DEF Indexed, CallsAnswered, Answered, CallsRest, SameWork, Unwritten
      <3>5. QED BY <1>0, <2>2, <3>2, <3>4, CommitRests DEF ResultsRest
    <2>6. QED BY <2>4, <2>5
  <1>3. CASE SaveFails
    <2>1. CallsAnswered(Head(jobs).call, FALSE, FALSE, {}) /\ UNCHANGED <<canon, count, results>>
      BY <1>0, <1>3, Answering DEF SaveFails, diskVars
    <2>2. CallsRest /\ CanonStands /\ ResultsRest
      BY <2>1 DEF CallsAnswered, Answered, CallsRest, SameWork, Unwritten, CanonStands, ResultsRest
    <2>3. QED BY <1>0, <2>1, <2>2, CommitRests
  <1>4. CASE ClearsCache \/ Loads
    <2>1. UNCHANGED <<canon, count, results>>
      BY <1>4 DEF ClearsCache, Loads, diskVars
    <2>2. calls' = calls \/ CallsForget
      BY <1>4, Loading DEF ClearsCache
    <2>3. CallsRest /\ CanonStands /\ ResultsRest
      BY <1>0, <2>1, <2>2, CallsResting DEF CanonStands, ResultsRest
    <2>4. QED BY <1>0, <2>1, <2>3, CommitRests
  <1>5. QED BY <1>1, <1>2, <1>3, <1>4 DEF KernelStep

(* So does a server's: cells, modules and project.json come in that order. *)
LEMMA ServerCommits ==
  ASSUME Types, Types', QueuesInv, CommitInv, ServerStep
  PROVE  CommitInv'
  <1>0. /\ count.calls \in Nat /\ count.runs \in Nat /\ CallsInv /\ JobsInv
    BY DEF Types, HistoryTypes, CountRecord, QueuesInv
  <1>1. /\ canon.cells \in Nat /\ canon.index.by \in Nat
        /\ canon.manifest.call \in Nat /\ canon.manifest.run \in Nat
        /\ \A i \in DOMAIN calls : calls[i].id \in Nat /\ calls[i].run \in Nat /\ i \in Nat \ {0}
        /\ results # None => results.run \in Nat
    BY Compared
  <1>2. ASSUME NEW i \in DOMAIN calls, SaveStarts(i) PROVE CommitInv'
    <2>1. /\ TakesResults \/ AsksKernel
          /\ UNCHANGED <<canon, count>> /\ 1 \in DOMAIN calls
      BY <1>2, Starting DEF diskVars
    <2>2. CASE AsksKernel
      <3>1. CallsRest /\ CanonStands /\ ResultsRest
        BY <1>0, <2>1, <2>2, CallsResting DEF AsksKernel, CanonStands, ResultsRest
      <3>2. QED BY <1>0, <2>1, <3>1, CommitRests
    <2>3. CASE TakesResults
      <3>1. \A k \in DOMAIN calls' : canon'.manifest.call <= calls'[k].id /\ Written(calls[k])'
        <4>1. DOMAIN calls' = DOMAIN calls
          BY <2>3 DEF TakesResults
        <4>2. canon'.manifest.call <= calls'[1].id /\ Written(calls[1])'
          BY <2>1, <2>3 DEF TakesResults, CommitInv, Written
        <4>3. \A k \in DOMAIN calls \ {1} : canon'.manifest.call <= calls'[k].id /\ Written(calls[k])'
          BY <2>1, <2>3 DEF TakesResults, CommitInv, Written
        <4>4. QED BY <4>1, <4>2, <4>3
      <3>2. CommitIsLast' /\ canon'.manifest.call <= count'.calls /\ canon'.index.by <= count'.runs
        BY <2>1 DEF CommitInv, CommitIsLast
      <3>3. QED BY <2>3, <3>1, <3>2 DEF CommitInv, TakesResults
    <2>4. QED BY <2>1, <2>2, <2>3
  <1>3. ASSUME NEW i \in DOMAIN calls, CallStep(i), ~SaveStarts(i) PROVE CommitInv'
    <2>1. 1 \in DOMAIN calls /\ CallWrites /\ UNCHANGED <<results, count>>
      BY <1>3, CallSteps
    <2>2. ASSUME Left1, canon' = canon \/ CanonApart({}) PROVE CommitInv'
      <3>1. CallsRest /\ CanonStands /\ ResultsRest
        BY <1>0, <2>1, <2>2, CallsResting DEF CanonApart, CanonStands, ResultsRest
      <3>2. QED BY <1>0, <2>1, <3>1, CommitRests
    <2>3. ASSUME NEW stage, MovedTo(stage), canon'.manifest.call <= calls[1].id,
                 canon'.index = canon.index, Written(calls[1])'
          PROVE  \A k \in DOMAIN calls' : canon'.manifest.call <= calls'[k].id /\ Written(calls[k])'
      <3>1. DOMAIN calls' = DOMAIN calls /\ calls'[1].id = calls[1].id
            /\ \A k \in DOMAIN calls \ {1} : calls'[k] = calls[k]
        BY <2>3 DEF MovedTo, SameCall
      <3>2. \A k \in DOMAIN calls \ {1} : calls[k].stage \in {"queued", "failed"} /\ calls[1].id < calls[k].id
        BY <1>0, <1>1, <2>1 DEF CallsInv
      <3>3. canon'.manifest.call \in Nat
        <4>1. canon' \in CanonRecord
          BY DEF Types, DiskTypes
        <4>2. canon'.manifest \in [call : Nat, run : Nat]
          BY <4>1 DEF CanonRecord
        <4>3. QED BY <4>2
      <3>4. \A k \in DOMAIN calls \ {1} : canon'.manifest.call <= calls'[k].id /\ Written(calls[k])'
        BY <1>1, <2>1, <2>3, <3>1, <3>2, <3>3 DEF Written
      <3>5. QED BY <2>1, <2>3, <3>1, <3>4
    <2>4. Written(calls[1]) /\ canon.manifest.call <= calls[1].id /\ calls[1].id <= count.calls
      BY <1>0, <2>1 DEF CommitInv, CallsInv
    <2>5. results' # None /\ ~results'.missing => results'.run <= canon.index.by
      BY <2>1 DEF CommitInv
    <2>6. ASSUME MovedTo("cells"), calls[1].kind = "save", ~calls[1].missing, calls[1].stage = "answered",
                 CanonApart({"cells"}), canon'.cells = calls[1].id
          PROVE  CommitInv'
      <3>1. canon'.manifest = canon.manifest /\ canon'.index = canon.index
           
        BY <2>6 DEF CanonApart
      <3>2. Written(calls[1])'
        BY <2>4, <2>6, <3>1 DEF Written, MovedTo, SameCall
      <3>3. \A k \in DOMAIN calls' : canon'.manifest.call <= calls'[k].id /\ Written(calls[k])'
        BY <2>3, <2>4, <2>6, <3>1, <3>2
      <3>4. CommitIsLast'
        BY <2>4, <2>6, <3>1 DEF CommitIsLast, CommitInv
      <3>5. canon'.manifest.call <= count'.calls /\ canon'.index.by <= count'.runs
        BY <2>1, <3>1 DEF CommitInv
      <3>6. QED BY <2>5, <3>1, <3>3, <3>4, <3>5 DEF CommitInv
    <2>7. ASSUME MovedTo("modules"), calls[1].stage = "cells",
                 CanonApart({"modules"})
          PROVE  CommitInv'
      <3>1. canon'.manifest = canon.manifest /\ canon'.index = canon.index /\ canon'.cells = canon.cells
        BY <2>7 DEF CanonApart
      <3>2. Written(calls[1])'
        BY <2>4, <2>7, <3>1 DEF Written, MovedTo, SameCall
      <3>3. \A k \in DOMAIN calls' : canon'.manifest.call <= calls'[k].id /\ Written(calls[k])'
        BY <2>3, <2>4, <2>7, <3>1, <3>2
      <3>4. CommitIsLast'
        BY <2>4, <2>7, <3>1 DEF CommitIsLast, CommitInv
      <3>5. canon'.manifest.call <= count'.calls /\ canon'.index.by <= count'.runs
        BY <2>1, <3>1 DEF CommitInv
      <3>6. QED BY <2>5, <3>1, <3>3, <3>4, <3>5 DEF CommitInv
    <2>8. ASSUME MovedTo("committed"), calls[1].stage = "modules", CanonApart({"manifest"}),
                 canon'.manifest.call = calls[1].id, canon'.manifest.run = calls[1].run
          PROVE  CommitInv'
      <3>1. canon'.index = canon.index /\ canon'.cells = canon.cells
        BY <2>8 DEF CanonApart
      <3>2. /\ calls[1].kind = "save" /\ ~calls[1].missing /\ canon.cells = calls[1].id
            /\ calls[1].run <= canon.index.by
        BY <2>4, <2>8 DEF Written
      <3>3. Written(calls[1])'
        BY <2>8, <3>1, <3>2 DEF Written, MovedTo, SameCall
      <3>4. \A k \in DOMAIN calls' : canon'.manifest.call <= calls'[k].id /\ Written(calls[k])'
        BY <1>1, <2>1, <2>3, <2>8, <3>1, <3>3
      <3>5. CommitIsLast'
        BY <1>1, <2>1, <2>8, <3>1, <3>2 DEF CommitIsLast
      <3>6. canon'.manifest.call <= count'.calls /\ canon'.index.by <= count'.runs
        BY <2>1, <2>4, <2>8, <3>1 DEF CommitInv
      <3>7. QED BY <2>5, <3>1, <3>4, <3>5, <3>6 DEF CommitInv
    <2>9. QED BY <2>1, <2>2, <2>6, <2>7, <2>8 DEF CallWrites
  <1>4. ASSUME \/ \E what \in {"files", "index"} : Removes(what)
               \/ ClearGivesUp \/ ClearRemoves \/ CopiesForLoad \/ Overlays \/ BecomesActive
               \/ AsksToLoad \/ OpenEnds
        PROVE  CommitInv'
    <2>1. UNCHANGED <<canon, calls, results, count>>
      BY <1>4 DEF Removes, ClearGivesUp, ClearRemoves, CopiesForLoad, Overlays, BecomesActive,
         AsksToLoad, OpenEnds, serverVars, diskVars
    <2>2. CallsRest /\ CanonStands /\ ResultsRest
      BY <1>0, <2>1, CallsResting DEF CanonStands, ResultsRest
    <2>3. QED BY <1>0, <2>1, <2>2, CommitRests
  <1>5. QED BY <1>2, <1>3, <1>4 DEF ServerStep

----------------------------------------------------------------------------
(* The cache and the snapshot.                                             *)

(* A step in which the kernel takes no part and the files stay in place.   *)
KernelAside ==
  /\ cache' = cache /\ doing' = doing /\ (Explicit' <=> Explicit)
  /\ count'.runs = count.runs /\ stranded' = stranded
  /\ canon'.files = canon.files /\ canon'.index = canon.index
SnapshotAside == UNCHANGED <<auto, removing, unsettled, swept>>
SnapshotTouched == auto' = auto /\ unsettled' = TRUE /\ swept' = TRUE

(* The kernel is at the same save as long as the head of its queue stays.  *)
LEMMA HeadStays ==
  ASSUME JobsInv, doing' = doing, jobs' = jobs \/ \E job \in JobRecord : Queued(job)
  PROVE  Explicit' <=> Explicit
  BY DEF JobsInv, Explicit, Queued

(* The user's steps are aside, but for those that take the kernel away.    *)
LEMMA UserAside ==
  ASSUME Types, QueuesInv, UserStep, ~KernelRestarts, ~ApplicationCrashes
  PROVE  KernelAside /\ SnapshotAside
  <1>0. count \in CountRecord /\ JobsInv
    BY DEF Types, HistoryTypes, QueuesInv
  <1>1. CASE (\E n \in Nodes : Edit(n)) \/ BackingFileChanges \/ \E r \in BOOLEAN : OpenBegins(r)
    <2>1. /\ UNCHANGED <<cache, jobs, doing, diskVars, history>> /\ count'.runs = count.runs
      BY <1>0, <1>1, Counting DEF Edit, BackingFileChanges, OpenBegins, kernelVars
    <2>2. QED
      BY <1>0, <2>1, HeadStays DEF KernelAside, SnapshotAside, diskVars, history
  <1>2. CASE RunsSaveProject
    <2>1. /\ UNCHANGED <<cache, doing, diskVars, history>> /\ count'.runs = count.runs /\ jobs = <<>>
      BY <1>0, <1>2, Counting DEF RunsSaveProject
    <2>2. doing = None
      BY <1>0, <2>1 DEF JobsInv
    <2>3. QED
      BY <2>1, <2>2 DEF KernelAside, SnapshotAside, diskVars, history, Explicit
  <1>3. CASE ClearBegins
    <2>1. /\ UNCHANGED <<cache, doing, diskVars, history>> /\ count'.runs = count.runs
          /\ Queued(ClearJob)
      BY <1>0, <1>3, Counting, Asked, JobsMove DEF ClearBegins
    <2>2. QED
      BY <1>0, <2>1, Asked, HeadStays DEF KernelAside, SnapshotAside, diskVars, history
  <1>4. ASSUME NEW kind \in {"save", "autosave"}, Ask(kind) PROVE KernelAside /\ SnapshotAside
    <2>1. /\ UNCHANGED <<cache, jobs, doing, diskVars, history>> /\ count'.runs = count.runs
      BY <1>4, Asking DEF Ask, kernelVars
    <2>2. QED
      BY <1>0, <2>1, HeadStays DEF KernelAside, SnapshotAside, diskVars, history
  <1>5. QED BY <1>1, <1>2, <1>3, <1>4 DEF UserStep

(* So are the server's; it may begin to remove .autosave, or go on.        *)
LEMMA ServerAside ==
  ASSUME Types, QueuesInv, ServerStep
  PROVE  /\ KernelAside
         /\ \/ SnapshotAside \/ SnapshotTouched
            \/ \E what \in {"files", "index"} : Removes(what)
  <1>0. JobsInv
    BY DEF QueuesInv
  <1>1. ASSUME NEW i \in DOMAIN calls, SaveStarts(i) PROVE KernelAside /\ SnapshotAside
    <2>1. /\ TakesResults \/ AsksKernel
          /\ UNCHANGED <<cache, doing, diskVars, count, history>>
      BY <1>1, Starting
    <2>2. Explicit' <=> Explicit
      BY <1>0, <2>1, HeadStays DEF TakesResults, AsksKernel
    <2>3. QED BY <2>1, <2>2 DEF KernelAside, SnapshotAside, diskVars, history
  <1>2. ASSUME NEW i \in DOMAIN calls, CallStep(i), ~SaveStarts(i)
        PROVE  KernelAside /\ (SnapshotAside \/ SnapshotTouched)
    <2>1. CallWrites /\ UNCHANGED <<cache, jobs, doing, auto, count, stranded>>
      BY <1>2, CallSteps DEF kernelVars
    <2>2. Explicit' <=> Explicit
      BY <1>0, <2>1, HeadStays
    <2>3. canon'.files = canon.files /\ canon'.index = canon.index
      BY <2>1 DEF CallWrites, CanonApart
    <2>4. SnapshotAside \/ SnapshotTouched
      BY <2>1 DEF CallWrites, SnapshotAside, SnapshotTouched
    <2>5. QED BY <2>1, <2>2, <2>3, <2>4 DEF KernelAside
  <1>3. ASSUME NEW what \in {"files", "index"}, Removes(what) PROVE KernelAside
    <2>1. UNCHANGED <<cache, jobs, doing, canon, count, stranded>>
      BY <1>3 DEF Removes, kernelVars, history
    <2>2. QED BY <1>0, <2>1, HeadStays DEF KernelAside
  <1>4. CASE ClearGivesUp \/ CopiesForLoad \/ Overlays \/ BecomesActive
    <2>1. UNCHANGED <<cache, jobs, doing, canon, auto, removing, count, history>>
      BY <1>4 DEF ClearGivesUp, CopiesForLoad, Overlays, BecomesActive, kernelVars, diskVars
    <2>2. QED BY <1>0, <2>1, HeadStays DEF KernelAside, SnapshotAside, history
  <1>5. CASE ClearRemoves
    <2>1. UNCHANGED <<cache, jobs, doing, canon, auto, count, stranded>> /\ unsettled' = TRUE /\ swept' = TRUE
      BY <1>5 DEF ClearRemoves, kernelVars
    <2>2. QED BY <1>0, <2>1, HeadStays DEF KernelAside, SnapshotTouched
  <1>6. CASE AsksToLoad \/ OpenEnds
    <2>1. UNCHANGED <<cache, doing, diskVars, count, history>>
          /\ (jobs' = jobs \/ Queued(LoadJob) \/ Queued(ClearJob))
      BY <1>6, Asked, JobsMove DEF AsksToLoad, OpenEnds, LoadJob
    <2>2. Explicit' <=> Explicit
      BY <1>0, <2>1, Asked, HeadStays
    <2>3. QED BY <2>1, <2>2 DEF KernelAside, SnapshotAside, diskVars, history
  <1>7. QED BY <1>1, <1>2, <1>3, <1>4, <1>5, <1>6 DEF ServerStep

(* The files an index names, and None, are what they are.                  *)
LEMMA Names ==
  ASSUME Types
  PROVE  /\ canon.files \subseteq DataFile /\ auto.files \subseteq DataFile /\ work \subseteq DataFile
         /\ None \notin DataFile /\ None \notin Indexes
         /\ canon.index \in Indexes /\ auto.index \in Indexes \cup {None}
         /\ \A index \in Indexes : \A n \in Nodes : index.at[n] # None => index.at[n] \in Named(index)
         /\ \A index \in Indexes : \A f \in Named(index) :
              f # None /\ \E n \in Nodes : f = index.at[n]
         /\ \A f \in canon.files \cup auto.files : f.run \in Nat /\ f.ver \in Nat
         /\ count.runs \in Nat
  <1>1. canon \in CanonRecord /\ auto \in AutoRecord /\ work \in Files /\ count \in CountRecord
    BY DEF Types, DiskTypes, HistoryTypes
  <1>2. /\ canon.files \subseteq DataFile /\ auto.files \subseteq DataFile /\ work \subseteq DataFile
        /\ canon.index \in Indexes /\ auto.index \in Indexes \cup {None} /\ count.runs \in Nat
    BY <1>1 DEF CanonRecord, AutoRecord, CountRecord, Files
  <1>3. None \notin DataFile /\ None \notin Indexes
    BY NoneAssumption
  <1>4. \A index \in Indexes : Named(index) = {index.at[n] : n \in Nodes} \ {None}
    BY <1>3 DEF Named
  <1>5. \A f \in DataFile : f.run \in Nat /\ f.ver \in Nat
    BY SaveBounds DEF DataFile, Version
  <1>6. QED BY <1>2, <1>3, <1>4, <1>5

(* The cache names no file a save could not find again.                    *)
LEMMA CacheKept ==
  ASSUME Types, Types', QueuesInv, CacheInv, Next
  PROVE  CacheInv'
  <1>0. JobsInv /\ count.runs \in Nat
    BY DEF QueuesInv, Types, HistoryTypes, CountRecord
  <1>1. ASSUME KernelAside, auto'.files \subseteq auto.files PROVE CacheInv'
    BY <1>1 DEF KernelAside, CacheInv
  <1>2. CASE KernelRestarts \/ ApplicationCrashes
    <2>1. /\ UNCHANGED <<canon, auto>> /\ count'.runs = count.runs
          /\ \A n \in Nodes : cache'[n] = None
      BY <1>2, Renewing DEF KernelRestarts, ApplicationCrashes, diskVars
    <2>2. QED BY <2>1, Names DEF CacheInv
  <1>3. CASE UserStep /\ ~KernelRestarts /\ ~ApplicationCrashes
    BY <1>1, <1>3, UserAside DEF SnapshotAside
  <1>4. CASE ServerStep
    <2>1. KernelAside
      BY <1>4, ServerAside
    <2>2. ASSUME NEW what \in {"files", "index"}, Removes(what) PROVE auto'.files \subseteq auto.files
      <3>1. auto \in AutoRecord
        BY DEF Types, DiskTypes
      <3>2. QED BY <2>2, <3>1 DEF Removes, AutoRecord
    <2>3. auto'.files \subseteq auto.files
      BY <1>4, <2>2, ServerAside DEF SnapshotAside, SnapshotTouched
    <2>4. QED BY <1>1, <2>1, <2>3
  <1>5. CASE SerializesData
    <2>1. PICK at \in Descriptors, failed \in SUBSET Nodes : Serialized(at, failed)
      BY <1>5, Serializing
    <2>2. /\ doing = None /\ jobs # <<>> /\ count'.runs = count.runs + 1
          /\ Collects(at, failed, cache, Prior(Head(jobs).dir))
          /\ canon'.index = canon.index
          /\ 1 \in DOMAIN jobs /\ jobs[1] = Head(jobs)
      BY <2>1, JobsMove DEF Serialized, CanonApart
    <2>3. \A f \in canon'.files \cup auto'.files :
            f \in canon.files \cup auto.files \/ f.run = count.runs + 1
      BY <2>1 DEF Serialized, Minted
    <2>4. \A f \in canon'.files \cup auto'.files : f.run <= count'.runs
      BY <2>2, <2>3, Names DEF CacheInv
    <2>5. CASE Head(jobs).dir = "canon"
      <3>1. stranded' \/ Explicit'
        <4>1. CASE backed
          <5>1. doing' = [at |-> at, failed |-> failed] /\ jobs' = jobs
            BY <2>1, <4>1 DEF Serialized
          <5>2. [at |-> at, failed |-> failed] # None
            BY NoneAssumption DEF Collections
          <5>3. QED BY <2>5, <5>1, <5>2 DEF Explicit
        <4>2. CASE ~backed
          BY <2>1, <2>5, <4>2 DEF Serialized
        <4>3. QED BY <4>1, <4>2
      <3>2. QED BY <2>4, <3>1 DEF CacheInv
    <2>6. CASE Head(jobs).dir # "canon"
      <3>1. \A n \in Nodes :
              cache'[n] \in {cache[n], None} \/ (n \notin failed /\ cache'[n] = at[n])
        BY <2>1 DEF Serialized
      <3>2. canon'.files = canon.files /\ (stranded' <=> stranded)
        BY <2>1, <2>6 DEF Serialized
      <3>3. ASSUME ~stranded, NEW n \in Nodes \ failed, at[n] \in canon.files
            PROVE  at[n] \in Named(canon.index)
        <4>1. at[n] # None /\ at[n].run <= count.runs
          BY <3>3, Names DEF CacheInv
        <4>2. at[n] = cache[n]
          BY <1>0, <2>2, <4>1, <3>3, Names DEF Collects
        <4>3. QED BY <2>2, <3>3, <4>2 DEF CacheInv, Explicit
      <3>4. ASSUME ~stranded, NEW n \in Nodes, cache'[n] \in canon.files
            PROVE  cache'[n] \in Named(canon.index)
        <4>1. CASE cache'[n] \in {cache[n], None}
          BY <2>2, <3>4, <3>2, <4>1, Names DEF CacheInv, Explicit
        <4>2. CASE n \notin failed /\ cache'[n] = at[n]
          BY <3>3, <3>4, <3>2, <4>2
        <4>3. QED BY <3>1, <4>1, <4>2
      <3>5. QED BY <2>2, <2>4, <3>4, <3>2 DEF CacheInv
    <2>7. QED BY <2>5, <2>6
  <1>6. CASE WritesIndex
    <2>1. Indexed
      BY <1>0, <1>6, Indexing
    <2>2. canon'.files \subseteq canon.files /\ auto'.files \subseteq auto.files /\ count' = count
      BY <2>1 DEF Indexed
    <2>3. CASE Explicit
      <3>1. canon'.files \subseteq Named(canon'.index)
        BY <2>1, <2>3 DEF Indexed
      <3>2. QED BY <2>2, <3>1 DEF CacheInv
    <2>4. CASE ~Explicit
      <3>1. canon' = canon /\ stranded' = stranded /\ cache' = cache
        BY <2>1, <2>4 DEF Indexed
      <3>2. QED BY <2>2, <2>4, <3>1 DEF CacheInv
    <2>5. QED BY <2>3, <2>4
  <1>7. CASE SaveFails
    <2>1. /\ UNCHANGED <<canon, auto, cache, count>> /\ doing # None
          /\ stranded' = (stranded \/ Head(jobs).dir = "canon")
      BY <1>7 DEF SaveFails, diskVars
    <2>2. QED BY <2>1 DEF CacheInv, Explicit
  <1>8. CASE ClearsCache \/ Loads
    <2>1. /\ UNCHANGED <<canon, auto, count, stranded>> /\ doing = None
          /\ cache' = cache \/ \A n \in Nodes : cache'[n] = None
      BY <1>8 DEF ClearsCache, Loads, diskVars, history, NoCache
    <2>2. QED BY <2>1, Names DEF CacheInv, Explicit
  <1>9. QED BY <1>2, <1>3, <1>4, <1>5, <1>6, <1>7, <1>8 DEF Next, KernelStep

(* A snapshot nothing has touched can be restored.                         *)
LEMMA SnapshotKept ==
  ASSUME Types, Types', QueuesInv, CacheInv, SnapshotInv, Next
  PROVE  SnapshotInv'
  <1>0. JobsInv /\ count.runs \in Nat
    BY DEF QueuesInv, Types, HistoryTypes, CountRecord
  <1>1. ASSUME KernelAside, SnapshotAside PROVE SnapshotInv'
    BY <1>1 DEF KernelAside, SnapshotAside, SnapshotInv, SnapshotRestores, Kept
  <1>2. CASE KernelRestarts \/ ApplicationCrashes
    <2>1. /\ UNCHANGED <<canon, auto, unsettled, swept>> /\ doing' = None
          /\ removing' \subseteq removing
      BY <1>2, Renewing DEF KernelRestarts, ApplicationCrashes, diskVars
    <2>2. QED BY <2>1 DEF SnapshotInv, SnapshotRestores, Explicit
  <1>3. CASE UserStep /\ ~KernelRestarts /\ ~ApplicationCrashes
    BY <1>1, <1>3, UserAside
  <1>4. CASE ServerStep
    <2>1. KernelAside
      BY <1>4, ServerAside
    <2>2. CASE SnapshotAside
      BY <1>1, <2>1, <2>2
    <2>3. CASE SnapshotTouched
      BY <2>3 DEF SnapshotTouched, SnapshotInv, SnapshotRestores
    <2>4. ASSUME NEW what \in {"files", "index"}, Removes(what) PROVE SnapshotInv'
      <3>1. removing # {} /\ UNCHANGED <<unsettled, swept, doing>>
        BY <2>4 DEF Removes, history, kernelVars
      <3>2. unsettled /\ (doing # None => swept)
        BY <3>1 DEF SnapshotInv
      <3>3. QED BY <3>1, <3>2 DEF SnapshotInv, SnapshotRestores
    <2>5. QED BY <1>4, <2>2, <2>3, <2>4, ServerAside
  <1>5. CASE SerializesData
    <2>1. PICK at \in Descriptors, failed \in SUBSET Nodes : Serialized(at, failed)
      BY <1>5, Serializing
    <2>2. /\ doing = None /\ jobs # <<>> /\ removing' = removing
          /\ Collects(at, failed, cache, Prior(Head(jobs).dir))
          /\ swept' = (removing # {}) /\ auto'.index = auto.index /\ canon'.index = canon.index
          /\ unsettled' = (unsettled \/ Head(jobs).dir = "canon")
          /\ stranded' = (stranded \/ (Head(jobs).dir = "canon" /\ ~backed))
      BY <2>1 DEF Serialized, CanonApart
    <2>3. removing' # {} => unsettled' /\ (doing' # None => swept')
      BY <2>2 DEF SnapshotInv
    <2>4. doing' # None => doing'.at = at /\ doing'.failed = failed /\ jobs' = jobs
      <3>1. doing' # None => doing' = [at |-> at, failed |-> failed] /\ jobs' = jobs
        BY <2>1 DEF Serialized
      <3>2. QED BY <3>1
    <2>5. CASE Head(jobs).dir = "canon"
      BY <2>2, <2>3, <2>4, <2>5 DEF SnapshotInv, SnapshotRestores, Explicit
    <2>6. CASE Head(jobs).dir # "canon"
      <3>1. canon'.files = canon.files /\ auto'.files = auto.files \cup Minted(at, failed) /\ ~Explicit'
        BY <2>1, <2>4, <2>6 DEF Serialized, Explicit
      <3>2. ASSUME ~stranded, NEW n \in Nodes \ failed, at[n] # None
            PROVE  at[n] \in auto'.files \cup (canon.files \cap Named(canon.index))
        <4>1. CASE at[n].run = count.runs + 1
          BY <3>1, <3>2, <4>1 DEF Minted, Saved1
        <4>2. CASE at[n] = cache[n] /\ Reachable(at[n])
          BY <2>2, <3>1, <3>2, <4>2 DEF Reachable, CacheInv, Explicit
        <4>3. QED BY <2>2, <3>2, <4>1, <4>2 DEF Collects
      <3>3. ASSUME ~unsettled, NEW n \in failed, at[n] # None
            PROVE  at[n] \in auto'.files \cup (canon.files \cap Named(canon.index))
        <4>1. at[n] = Prior(Head(jobs).dir)[n]
          BY <2>2, <3>3 DEF Collects
        <4>2. auto.index # None /\ at[n] = auto.index.at[n]
          BY <2>6, <3>3, <4>1 DEF Prior, NoCache
        <4>3. at[n] \in Named(auto.index)
          BY <3>3, <4>2 DEF Named
        <4>4. QED BY <3>1, <3>3, <4>2, <4>3 DEF SnapshotInv, SnapshotRestores
      <3>4. doing' # None /\ ~Explicit' /\ ~swept' /\ ~stranded' =>
              \A n \in Nodes : doing'.at[n] # None =>
                Kept(doing.at[n])' \/ (n \in doing'.failed /\ unsettled')
        BY <2>2, <2>4, <2>6, <3>1, <3>2, <3>3 DEF Kept
      <3>5. SnapshotRestores'
        BY <2>2, <3>1 DEF SnapshotInv, SnapshotRestores
      <3>6. QED BY <2>3, <3>1, <3>4, <3>5 DEF SnapshotInv
    <2>7. QED BY <2>5, <2>6
  <1>6. CASE WritesIndex
    <2>1. Indexed
      BY <1>0, <1>6, Indexing
    <2>2. doing # None /\ doing' = None /\ removing' = removing
      BY <2>1 DEF Indexed
    <2>3. CASE Explicit
      <3>1. unsettled'
        BY <2>1, <2>3 DEF Indexed, SnapshotInv
      <3>2. QED BY <2>2, <3>1 DEF SnapshotInv, SnapshotRestores, Explicit
    <2>4. CASE ~Explicit
      <3>1. /\ canon' = canon /\ auto'.index \in Indexes /\ auto'.index.at = doing.at
            /\ auto'.files = auto.files \cap Named(auto'.index)
            /\ unsettled' = (swept \/ stranded \/ (unsettled /\ Preserves(doing)))
        BY <2>1, <2>4 DEF Indexed
      <3>2. removing' # {} => unsettled'
        BY <2>2, <3>1 DEF SnapshotInv
      <3>3. ASSUME ~unsettled', NEW f \in Named(auto'.index)
            PROVE  f \in auto'.files \cup (canon'.files \cap Named(canon'.index))
        <4>1. PICK n \in Nodes : f = doing.at[n] /\ f # None
          BY <3>1, <3>3, Names
        <4>2. Kept(doing.at[n])
          BY <2>2, <2>4, <3>1, <3>3, <4>1 DEF SnapshotInv, Preserves
        <4>3. QED BY <3>1, <3>3, <4>1, <4>2 DEF Kept
      <3>4. QED BY <2>2, <3>2, <3>3 DEF SnapshotInv, SnapshotRestores, Explicit
    <2>5. QED BY <2>3, <2>4
  <1>7. CASE SaveFails
    <2>1. UNCHANGED <<canon, auto, removing, unsettled, swept>> /\ doing # None /\ doing' = None
      BY <1>7 DEF SaveFails, diskVars
    <2>2. QED BY <2>1 DEF SnapshotInv, SnapshotRestores, Explicit
  <1>8. CASE ClearsCache \/ Loads
    <2>1. /\ UNCHANGED <<canon, auto, removing, unsettled, swept>> /\ doing = None /\ doing' = None
      BY <1>8 DEF ClearsCache, Loads, diskVars, history
    <2>2. QED BY <2>1 DEF SnapshotInv, SnapshotRestores, Explicit
  <1>9. QED BY <1>2, <1>3, <1>4, <1>5, <1>6, <1>7, <1>8 DEF Next, KernelStep

----------------------------------------------------------------------------
(* Opening.                                                                *)

(* Nothing of this has changed: what is opened, its files, the snapshot.   *)
OpeningStill ==
  /\ opening' = opening /\ work' = work /\ tree' = tree /\ auto' = auto /\ unsettled' = unsettled
  /\ canon'.files = canon.files /\ canon'.index = canon.index /\ doing' = doing

(* The kernel's queue gets nothing to load, or loses its first.            *)
LEMMA LoadsStay ==
  ASSUME Types, LoadsInv
  PROVE  /\ \A job \in JobRecord : Queued(job) /\ job.kind # "load" =>
              \A j \in DOMAIN jobs' : jobs'[j].kind = "load" =>
                opening.stage = "asked" /\ \A k \in DOMAIN jobs' : jobs'[k].kind = "load" => k = j
         /\ Done =>
              \A j \in DOMAIN jobs' : jobs'[j].kind = "load" =>
                /\ opening.stage = "asked" /\ (jobs # <<>> => Head(jobs).kind # "load")
                /\ \A k \in DOMAIN jobs' : jobs'[k].kind = "load" => k = j
  <1>1. jobs \in Seq(JobRecord)
    BY DEF Types, KernelTypes
  <1>2. ASSUME NEW job \in JobRecord, Queued(job), job.kind # "load"
        PROVE  \A j \in DOMAIN jobs' : jobs'[j].kind = "load" =>
                 opening.stage = "asked" /\ \A k \in DOMAIN jobs' : jobs'[k].kind = "load" => k = j
    BY <1>2 DEF Queued, LoadsInv
  <1>3. ASSUME Done, NEW j \in DOMAIN jobs', jobs'[j].kind = "load"
        PROVE  /\ opening.stage = "asked" /\ (jobs # <<>> => Head(jobs).kind # "load")
               /\ \A k \in DOMAIN jobs' : jobs'[k].kind = "load" => k = j
    <2>1. DOMAIN jobs' \subseteq Nat \ {0} /\ DOMAIN jobs \subseteq Nat \ {0}
      BY <1>1, <1>3, Numbers DEF Done
    <2>2. \A k \in DOMAIN jobs' : k + 1 \in DOMAIN jobs /\ jobs'[k] = jobs[k + 1]
      BY <1>3 DEF Done
    <2>3. opening.stage = "asked" /\ \A k \in DOMAIN jobs : jobs[k].kind = "load" => k = j + 1
      BY <1>3, <2>2 DEF LoadsInv
    <2>4. \A k \in DOMAIN jobs' : jobs'[k].kind = "load" => k + 1 = j + 1
      BY <2>2, <2>3
    <2>5. \A k \in DOMAIN jobs' : jobs'[k].kind = "load" => k = j
      BY <1>3, <2>1, <2>4
    <2>6. jobs # <<>> => Head(jobs).kind # "load"
      <3>1. j + 1 # 1
        BY <1>3, <2>1
      <3>2. QED BY <2>3, <3>1, JobsMove
    <2>7. QED BY <2>3, <2>5, <2>6
  <1>4. QED BY <1>2, <1>3

(* No project is opened while the kernel has anything else to do.          *)
LEMMA NotOpening ==
  ASSUME Types, OpeningInv,
         doing # None \/ (jobs # <<>> /\ Head(jobs).kind # "load")
  PROVE  ~Undisturbed
  <1>1. \A s : s = <<LoadJob>> => Head(s) = LoadJob
    OBVIOUS
  <1>2. Undisturbed => doing = None /\ (jobs = <<LoadJob>> \/ jobs = <<>>)
    BY DEF OpeningInv
  <1>3. jobs = <<LoadJob>> => Head(jobs).kind = "load"
    BY <1>1, Asked
  <1>4. QED BY <1>2, <1>3

(* A step after which nothing is being opened, or what is has been         *)
(* crossed.                                                                *)
LEMMA StaysOpening ==
  ASSUME Types, OpeningInv, LoadsInv', ~Undisturbed'
  PROVE  OpeningInv'
  BY DEF OpeningInv, Undisturbed, RestoreIsFaithful
(* A step that leaves all of it alone keeps the opening as it was.         *)
LEMMA StillOpening ==
  ASSUME Types, OpeningInv, LoadsInv', OpeningStill, jobs' = jobs
  PROVE  OpeningInv'
  <1>1. Undisturbed' <=> Undisturbed
    BY DEF OpeningStill, Undisturbed
  <1>2. RestoreIsFaithful'
    BY DEF OpeningStill, OpeningInv, RestoreIsFaithful
  <1>3. CASE ~Undisturbed
    BY <1>1, <1>3, StaysOpening
  <1>4. CASE Undisturbed
    BY <1>1, <1>2, <1>4 DEF OpeningStill, OpeningInv
  <1>5. QED BY <1>3, <1>4

(* What a step of the user opens is undisturbed.                           *)
LEMMA UserOpens ==
  ASSUME Types, Types', QueuesInv, OpeningInv, UserStep
  PROVE  OpeningInv'
  <1>0. /\ count \in CountRecord /\ JobsInv /\ LoadsInv /\ opening \in OpeningRecord
        /\ opening = Idle => opening.stage = "no" /\ ~opening.crossed
    <2>1. TRUE \in BOOLEAN
      OBVIOUS
    <2>2. Idle.stage = "no" /\ ~Idle.crossed
      BY <2>1, Opening
    <2>3. QED BY <2>2 DEF Types, HistoryTypes, QueuesInv, OpeningInv, ServerTypes
  <1>1. ASSUME NEW n \in Nodes, Edit(n) PROVE OpeningInv'
    <2>1. UNCHANGED <<jobs, calls, opening, active>> /\ opening = Idle
      BY <1>1 DEF Edit, serverVars
    <2>2. LoadsInv' /\ ~Undisturbed'
      BY <1>0, <2>1 DEF LoadsInv, Undisturbed
    <2>3. QED BY <2>2, StaysOpening
  <1>2. CASE BackingFileChanges
    <2>1. UNCHANGED <<jobs, calls, opening, active, tree, doing, work, auto, canon, unsettled>>
      BY <1>2 DEF BackingFileChanges, serverVars, diskVars, history
    <2>2. LoadsInv' /\ OpeningStill
      BY <1>0, <2>1 DEF LoadsInv, OpeningStill
    <2>3. QED BY <2>1, <2>2, StillOpening
  <1>3. CASE RunsSaveProject \/ ClearBegins
    <2>1. UNCHANGED <<calls, opening, active>> /\ opening = Idle /\ active
      BY <1>3 DEF RunsSaveProject, ClearBegins, serverVars
    <2>2. \A j \in DOMAIN jobs' : jobs'[j].kind = "load" =>
            opening.stage = "asked" /\ \A k \in DOMAIN jobs' : jobs'[k].kind = "load" => k = j
      <3>1. CASE RunsSaveProject
        BY <3>1 DEF RunsSaveProject
      <3>2. CASE ClearBegins
        <4>1. Queued(ClearJob) /\ ClearJob \in JobRecord /\ ClearJob.kind # "load"
          BY <3>2, Asked, JobsMove DEF ClearBegins
        <4>2. QED BY <1>0, <4>1, LoadsStay
      <3>3. QED BY <1>3, <3>1, <3>2
    <2>3. LoadsInv' /\ ~Undisturbed'
      BY <1>0, <2>1, <2>2 DEF LoadsInv, Undisturbed
    <2>4. QED BY <2>3, StaysOpening
  <1>4. ASSUME NEW kind \in {"save", "autosave"}, Ask(kind) PROVE OpeningInv'
    <2>1. UNCHANGED <<jobs, opening, active, tree, doing, work, auto, canon, unsettled>> /\ active
      BY <1>4 DEF Ask, kernelVars, diskVars, history
    <2>2. LoadsInv' /\ OpeningStill
      BY <1>0, <2>1 DEF LoadsInv, OpeningStill
    <2>3. QED BY <2>1, <2>2, StillOpening
  <1>5. ASSUME NEW restore \in BOOLEAN, opening' \in OpeningRecord, opening'.stage = "copy",
               opening'.restore = restore, opening'.chosen = Chosen(restore),
               restore => auto.index # None, jobs' = <<>>, doing' = None, auto' = auto,
               unsettled' = unsettled, active' \/ calls' = <<>>
        PROVE  OpeningInv'
    <2>1. LoadsInv'
      BY <1>5 DEF LoadsInv
    <2>2. RestoreIsFaithful'
      BY <1>5 DEF RestoreIsFaithful
    <2>3. opening'.chosen # Absent =>
            restore /\ ~unsettled /\ auto.index # None /\ opening'.chosen = Versions(auto.index)
      BY <1>5 DEF Chosen
    <2>4. Versions(auto.index)' = Versions(auto.index)
      BY <1>5 DEF Versions
    <2>5. QED BY <1>5, <2>1, <2>2, <2>3, <2>4 DEF OpeningInv
  <1>6. ASSUME NEW restore \in BOOLEAN, OpenBegins(restore) PROVE OpeningInv'
    <2>1. /\ ~active /\ opening = Idle /\ (restore => auto.index # None)
          /\ opening' = [Idle EXCEPT !.stage = "copy", !.restore = restore, !.chosen = Chosen(restore)]
          /\ UNCHANGED <<jobs, doing, calls, auto, unsettled>>
      BY <1>6 DEF OpenBegins, kernelVars, diskVars, history
    <2>2. jobs = <<>> /\ calls = <<>> /\ doing = None
      BY <1>0, <2>1 DEF LoadsInv, JobsInv
    <2>3. opening' \in OpeningRecord
      BY DEF Types, ServerTypes
    <2>4. Idle \in OpeningRecord /\ Chosen(restore) \in [Nodes -> Version]
      BY Opening DEF OpeningRecord
    <2>5. opening'.stage = "copy" /\ opening'.restore = restore /\ opening'.chosen = Chosen(restore)
      BY <2>1, <2>4 DEF OpeningRecord
    <2>6. QED BY <1>5, <2>1, <2>2, <2>3, <2>5
  <1>7. CASE KernelRestarts
    <2>1. /\ active /\ UNCHANGED <<active, auto, unsettled>>
          /\ opening' = [Idle EXCEPT !.stage = "copy", !.restart = TRUE,
                             !.restore = auto.index # None, !.chosen = Chosen(auto.index # None)]
      BY <1>7 DEF KernelRestarts, diskVars
    <2>2. jobs' = <<>> /\ doing' = None
      BY <1>7, Renewing DEF KernelRestarts
    <2>3. PICK restore \in BOOLEAN : restore = (auto.index # None)
      OBVIOUS
    <2>4. opening' = Opens(restore, TRUE, Chosen(restore))
      <3>1. opening' = [Idle EXCEPT !.stage = "copy", !.restart = TRUE,
                                    !.restore = restore, !.chosen = Chosen(restore)]
        BY <2>1, <2>3
      <3>2. QED BY <3>1 DEF Idle, Opens
    <2>5. opening'.stage = "copy" /\ opening'.restore = restore /\ opening'.chosen = Chosen(restore)
      BY <2>4, Opening
    <2>6. opening' \in OpeningRecord
      BY DEF Types, ServerTypes
    <2>7. QED BY <1>5, <2>1, <2>2, <2>3, <2>5, <2>6
  <1>8. CASE ApplicationCrashes
    <2>1. jobs' = <<>> /\ calls' = <<>> /\ opening' = Idle
      BY <1>8, Renewing DEF ApplicationCrashes
    <2>2. Idle.stage = "no"
      <3>1. TRUE \in BOOLEAN
        OBVIOUS
      <3>2. QED BY <3>1, Opening
    <2>3. LoadsInv' /\ ~Undisturbed'
      BY <2>1, <2>2 DEF LoadsInv, Undisturbed
    <2>4. QED BY <2>3, StaysOpening
  <1>9. QED BY <1>1, <1>2, <1>3, <1>4, <1>6, <1>7, <1>8 DEF UserStep

(* A step of the kernel that is not the load means something crossed it;   *)
(* the load puts what was chosen into the tree.                            *)
LEMMA KernelOpens ==
  ASSUME Types, Types', QueuesInv, OpeningInv, KernelStep
  PROVE  OpeningInv'
  <1>0. JobsInv /\ LoadsInv
    BY DEF QueuesInv, OpeningInv
  <1>1. CASE ~Loads
    <2>1. doing # None \/ (jobs # <<>> /\ Head(jobs).kind # "load")
      BY <1>1 DEF KernelStep, SerializesData, WritesIndex, SaveFails, ClearsCache
    <2>2. ~Undisturbed
      BY <2>1, NotOpening
    <2>3. UNCHANGED <<opening, active>> /\ jobs # <<>>
      BY <1>0, <1>1 DEF KernelStep, SerializesData, WritesIndex, SaveFails, ClearsCache, JobsInv
    <2>4. jobs' = jobs \/ Done
      BY <1>0, <1>1, JobsMove
      DEF KernelStep, SerializesData, WritesIndex, SaveFails, ClearsCache, JobsInv
    <2>5. active
      BY <1>0, <2>3 DEF LoadsInv
    <2>6. LoadsInv'
      <3>1. \A j \in DOMAIN jobs' : jobs'[j].kind = "load" =>
              opening.stage = "asked" /\ \A k \in DOMAIN jobs' : jobs'[k].kind = "load" => k = j
        BY <1>0, <2>4, LoadsStay DEF LoadsInv
      <3>2. QED BY <2>3, <2>5, <3>1 DEF LoadsInv
    <2>7. ~Undisturbed'
      BY <2>2, <2>3 DEF Undisturbed
    <2>8. QED BY <2>6, <2>7, StaysOpening
  <1>2. CASE Loads
    <2> DEFINE index == IF opening.restore /\ auto.index # None THEN auto.index ELSE canon.index
    <2>1. /\ Done /\ doing = None /\ jobs # <<>> /\ Head(jobs).kind = "load"
          /\ opening' = [opening EXCEPT !.stage = "loaded"] /\ index \in Indexes /\ LoadedFrom(index)
      BY <1>2, Loading
    <2>2. /\ OpeningKeeps /\ opening'.stage = "loaded" /\ opening'.crossed = opening.crossed
      BY <2>1, OpeningMoves
    <2>3. UNCHANGED <<active, doing, auto, canon>>
      BY <1>2 DEF Loads, diskVars
    <2>4. opening.stage = "asked" /\ active
      BY <1>0, <2>1, JobsMove DEF LoadsInv
    <2>5. \A j \in DOMAIN jobs' : jobs'[j].kind # "load"
      BY <1>0, <2>1, LoadsStay
    <2>6. LoadsInv'
      BY <2>2, <2>3, <2>4, <2>5 DEF LoadsInv
    <2>7. CASE opening.crossed
      <3>1. ~Undisturbed'
        BY <2>2, <2>7 DEF Undisturbed
      <3>2. QED BY <2>6, <3>1, StaysOpening
    <2>8. CASE ~opening.crossed
      <3>1. Undisturbed
        BY <2>4, <2>8 DEF Undisturbed
      <3>2. jobs = <<LoadJob>> /\ opening' \in OpeningRecord
        BY <2>4, <3>1 DEF OpeningInv, Types, ServerTypes
      <3>3. jobs' = <<>>
        <4>1. \A s : s = <<LoadJob>> => Tail(s) = <<>>
          OBVIOUS
        <4>2. jobs' = Tail(jobs)
          BY <1>2 DEF Loads
        <4>3. QED BY <3>2, <4>1, <4>2
      <3>4. \A n \in Nodes : tree'[n] >= opening.chosen[n]
        <4>1. \A n \in Nodes : tree'[n] \in Nat
          <5>1. tree' \in [Nodes -> Version] /\ Version \subseteq Nat
            BY SaveBounds DEF Types, KernelTypes, Version
          <5>2. QED BY <5>1
        <4>2. CASE opening.chosen = Absent
          <5>1. \A n \in Nodes : opening.chosen[n] = 0
            BY <4>2 DEF Absent
          <5>2. QED BY <4>1, <5>1
        <4>3. CASE opening.chosen # Absent
          <5>1. /\ opening.restore /\ auto.index # None /\ opening.chosen = Versions(auto.index)
                /\ Named(auto.index) \subseteq work
            BY <2>4, <3>1, <4>3 DEF OpeningInv
          <5>2. auto.index \in Indexes /\ LoadedFrom(auto.index)
            BY <2>1, <5>1
          <5>3. \A n \in Nodes : auto.index.at[n] # None => auto.index.at[n] \in work
            BY <5>1, <5>2, Names
          <5>4. \A n \in Nodes : auto.index.at[n] # None => tree'[n] = Versions(auto.index)[n]
            BY <5>1, <5>2, <5>3 DEF LoadedFrom, Versions
          <5>5. \A n \in Nodes : auto.index.at[n] = None => Versions(auto.index)[n] = 0
            BY DEF Versions
          <5>6. \A n \in Nodes : opening.chosen[n] = tree'[n] \/ opening.chosen[n] = 0
            BY <5>1, <5>4, <5>5
          <5>7. QED BY <4>1, <5>6
        <4>4. QED BY <4>2, <4>3
      <3>5. RestoreIsFaithful'
        BY <2>2, <3>4 DEF RestoreIsFaithful, OpeningKeeps
      <3>6. QED BY <2>1, <2>2, <2>3, <2>6, <3>3, <3>5 DEF OpeningInv
    <2>9. QED BY <2>7, <2>8
  <1>3. QED BY <1>1, <1>2

(* A step of the server takes the opening on, or crosses it.               *)
LEMMA ServerOpens ==
  ASSUME Types, Types', QueuesInv, SnapshotInv, OpeningInv, ServerStep
  PROVE  OpeningInv'
  <1>0. JobsInv /\ LoadsInv /\ SnapshotRestores
    BY DEF QueuesInv, OpeningInv, SnapshotInv
  <1>a. ASSUME CrossesOpening
        PROVE  ~Undisturbed' /\ opening'.stage = opening.stage
    <2>1. TRUE \in BOOLEAN
      OBVIOUS
    <2>2. Idle.stage = "no"
      BY <2>1, Opening
    <2>3. /\ opening'.stage = opening.stage /\ opening'.crossed = (opening # Idle)
      BY <1>a, OpeningMoves
    <2>4. QED BY <2>2, <2>3 DEF Undisturbed
  <1>1. ASSUME NEW i \in DOMAIN calls, SaveStarts(i) PROVE OpeningInv'
    <2>1. 1 \in DOMAIN calls /\ (TakesResults \/ AsksKernel) /\ CrossesOpening /\ active' = active
      BY <1>1, Starting
    <2>2. active
      BY <1>0, <2>1 DEF LoadsInv
    <2>3. \A j \in DOMAIN jobs' : jobs'[j].kind = "load" =>
            opening.stage = "asked" /\ \A k \in DOMAIN jobs' : jobs'[k].kind = "load" => k = j
      <3>1. CASE TakesResults
        BY <1>0, <3>1 DEF TakesResults, LoadsInv
      <3>2. CASE AsksKernel
        <4>1. PICK job \in JobRecord : Queued(job) /\ job.kind = "save"
          BY <3>2 DEF AsksKernel
        <4>2. QED BY <1>0, <4>1, LoadsStay
      <3>3. QED BY <2>1, <3>1, <3>2
    <2>4. LoadsInv' /\ ~Undisturbed'
      BY <1>a, <2>1, <2>2, <2>3 DEF LoadsInv
    <2>5. QED BY <2>4, StaysOpening
  <1>2. ASSUME NEW i \in DOMAIN calls, CallStep(i), ~SaveStarts(i) PROVE OpeningInv'
    <2>1. /\ 1 \in DOMAIN calls /\ CallWrites
          /\ UNCHANGED <<tree, cache, jobs, doing, active, auto, work>>
      BY <1>2, CallSteps DEF kernelVars
    <2>2. active
      BY <1>0, <2>1 DEF LoadsInv
    <2>3. CASE UNCHANGED <<opening, unsettled>>
      <3>1. canon'.files = canon.files /\ canon'.index = canon.index
        BY <2>1 DEF CallWrites, CanonApart
      <3>2. LoadsInv' /\ OpeningStill
        BY <1>0, <2>1, <2>2, <2>3, <3>1 DEF LoadsInv, OpeningStill
      <3>3. QED BY <2>1, <3>2, StillOpening
    <2>4. CASE CrossesOpening
      <3>1. LoadsInv' /\ ~Undisturbed'
        BY <1>0, <1>a, <2>1, <2>2, <2>4 DEF LoadsInv
      <3>2. QED BY <3>1, StaysOpening
    <2>5. QED BY <2>1, <2>3, <2>4 DEF CallWrites
  <1>3. ASSUME NEW what \in {"files", "index"}, Removes(what) PROVE OpeningInv'
    <2>1. /\ removing # {} /\ UNCHANGED <<tree, jobs, doing, calls, opening, active, work, canon, unsettled>>
      BY <1>3 DEF Removes, kernelVars, serverVars, history
    <2>2. unsettled
      BY <2>1 DEF SnapshotInv
    <2>3. LoadsInv'
      BY <1>0, <2>1 DEF LoadsInv
    <2>4. Undisturbed' <=> Undisturbed
      BY <2>1 DEF Undisturbed
    <2>5. Undisturbed /\ opening.stage # "loaded" => opening.chosen = Absent
      BY <2>2 DEF OpeningInv
    <2>6. RestoreIsFaithful'
      BY <2>1 DEF OpeningInv, RestoreIsFaithful
    <2>7. CASE Undisturbed
      BY <2>1, <2>3, <2>5, <2>6, <2>7 DEF OpeningInv
    <2>8. CASE ~Undisturbed
      BY <2>3, <2>4, <2>8, StaysOpening
    <2>9. QED BY <2>7, <2>8
  <1>4. CASE ClearGivesUp
    <2>1. UNCHANGED <<jobs, opening, active, tree, doing, work, auto, canon, unsettled, calls>>
      BY <1>4 DEF ClearGivesUp, kernelVars, diskVars, history
    <2>2. LoadsInv' /\ OpeningStill
      BY <1>0, <2>1 DEF LoadsInv, OpeningStill
    <2>3. QED BY <2>1, <2>2, StillOpening
  <1>5. CASE ClearRemoves
    <2>1. UNCHANGED <<jobs, active, calls>> /\ CrossesOpening
      BY <1>5 DEF ClearRemoves, kernelVars
    <2>2. LoadsInv' /\ ~Undisturbed'
      BY <1>0, <1>a, <2>1 DEF LoadsInv
    <2>3. QED BY <2>2, StaysOpening
  <1>6. ASSUME NEW stage \in {"overlay", "copied", "active", "asked"},
               opening' = [opening EXCEPT !.stage = stage], opening.stage \notin {"no", "loaded"},
               UNCHANGED <<doing, auto, canon, unsettled>>, LoadsInv',
               jobs' = IF stage = "asked" THEN Append(jobs, LoadJob) ELSE jobs,
               opening.stage \in {"copy", "overlay", "copied", "active"},
               stage = "overlay" => Named(canon.index) \cap canon.files \subseteq work',
               stage \in {"copied", "active", "asked"} /\ Undisturbed /\ opening.chosen # Absent =>
                 Named(auto.index) \subseteq work'
        PROVE  OpeningInv'
    <2>1. OpeningKeeps /\ opening'.stage = stage /\ opening'.crossed = opening.crossed
      BY <1>6, OpeningMoves
    <2>2. Undisturbed' <=> Undisturbed
      BY <1>6, <2>1 DEF Undisturbed
    <2>3. RestoreIsFaithful'
      BY <2>1 DEF RestoreIsFaithful
    <2>4. CASE ~Undisturbed
      BY <1>6, <2>2, <2>4, StaysOpening
    <2>5. CASE Undisturbed
      <3>1. /\ doing = None /\ jobs = <<>>
            /\ opening.chosen # Absent =>
                 /\ opening.restore /\ ~unsettled /\ auto.index # None
                 /\ opening.chosen = Versions(auto.index)
        BY <1>6, <2>5 DEF OpeningInv
      <3>2. jobs' = IF stage = "asked" THEN <<LoadJob>> ELSE <<>>
        <4>1. \A s, job : s = <<>> => Append(s, job) = <<job>>
          OBVIOUS
        <4>2. QED BY <1>6, <3>1, <4>1
      <3>3. Versions(auto.index)' = Versions(auto.index)
        BY <1>6 DEF Versions
      <3>4. Named(canon.index)' = Named(canon.index) /\ Named(auto.index)' = Named(auto.index)
        BY <1>6 DEF Named
      <3>5. QED BY <1>6, <2>1, <2>3, <2>5, <3>1, <3>2, <3>3, <3>4 DEF OpeningInv, OpeningKeeps
    <2>6. QED BY <2>4, <2>5
  <1>7. CASE CopiesForLoad
    <2>1. PICK stage \in {"overlay", "copied"} : stage = IF opening.restore THEN "overlay" ELSE "copied"
      OBVIOUS
    <2>2. /\ opening.stage = "copy" /\ opening' = [opening EXCEPT !.stage = stage]
          /\ work' = Named(canon.index) \cap canon.files
          /\ UNCHANGED <<jobs, doing, calls, active, auto, canon, unsettled>>
      BY <1>7, <2>1 DEF CopiesForLoad, kernelVars, history
    <2>3. opening'.stage = stage
      BY <2>2, OpeningMoves
    <2>4. LoadsInv'
      BY <1>0, <2>2, <2>3 DEF LoadsInv
    <2>5. Undisturbed /\ opening.chosen # Absent => opening.restore
      BY <2>2 DEF OpeningInv
    <2>6. QED BY <1>6, <2>1, <2>2, <2>4, <2>5
  <1>8. CASE Overlays
    <2>1. /\ opening.stage = "overlay" /\ opening' = [opening EXCEPT !.stage = "copied"]
          /\ work' = work \cup auto.files
          /\ UNCHANGED <<jobs, doing, calls, active, auto, canon, unsettled>>
      BY <1>8 DEF Overlays, kernelVars, history
    <2>2. opening'.stage = "copied"
      BY <2>1, OpeningMoves
    <2>3. LoadsInv'
      BY <1>0, <2>1, <2>2 DEF LoadsInv
    <2>4. Undisturbed /\ opening.chosen # Absent => Named(auto.index) \subseteq work'
      <3>1. Undisturbed /\ opening.chosen # Absent =>
              ~unsettled /\ auto.index # None /\ Named(canon.index) \cap canon.files \subseteq work
        BY <2>1 DEF OpeningInv
      <3>2. QED BY <1>0, <2>1, <3>1 DEF SnapshotRestores
    <2>5. QED BY <1>6, <2>1, <2>3, <2>4
  <1>9. CASE BecomesActive
    <2>1. /\ opening.stage = "copied" /\ opening' = [opening EXCEPT !.stage = "active"] /\ active'
          /\ UNCHANGED <<jobs, doing, calls, auto, canon, unsettled, work>>
      BY <1>9 DEF BecomesActive, kernelVars, diskVars, history
    <2>2. opening'.stage = "active"
      BY <2>1, OpeningMoves
    <2>3. LoadsInv'
      BY <1>0, <2>1, <2>2 DEF LoadsInv
    <2>4. Undisturbed /\ opening.chosen # Absent => Named(auto.index) \subseteq work'
      BY <2>1 DEF OpeningInv
    <2>5. QED BY <1>6, <2>1, <2>3, <2>4
  <1>10. CASE AsksToLoad
    <2>1. /\ opening.stage = "active" /\ opening' = [opening EXCEPT !.stage = "asked"]
          /\ jobs' = Append(jobs, LoadJob)
          /\ UNCHANGED <<doing, calls, active, auto, canon, unsettled, work>>
      BY <1>10 DEF AsksToLoad, diskVars, history, LoadJob
    <2>2. opening'.stage = "asked"
      BY <2>1, OpeningMoves
    <2>3. active /\ \A j \in DOMAIN jobs : jobs[j].kind # "load"
      BY <1>0, <2>1 DEF LoadsInv
    <2>4. \A j, k \in DOMAIN jobs' : jobs'[j].kind = "load" /\ jobs'[k].kind = "load" => k = j
      <3>1. jobs \in Seq(JobRecord) /\ LoadJob \in JobRecord
        BY Asked DEF Types, KernelTypes
      <3>2. \A j \in DOMAIN jobs' : j # Len(jobs) + 1 => j \in DOMAIN jobs /\ jobs'[j] = jobs[j]
        BY <2>1, <3>1
      <3>3. QED BY <2>3, <3>2
    <2>5. LoadsInv'
      BY <2>1, <2>2, <2>3, <2>4 DEF LoadsInv
    <2>6. Undisturbed /\ opening.chosen # Absent => Named(auto.index) \subseteq work'
      BY <2>1 DEF OpeningInv
    <2>7. QED BY <1>6, <2>1, <2>5, <2>6
  <1>11. CASE OpenEnds
    <2>1. TRUE \in BOOLEAN
      OBVIOUS
    <2>2. opening' = Idle /\ Idle.stage = "no" /\ opening.stage = "loaded" /\ UNCHANGED <<active, calls>>
      BY <1>11, <2>1, Opening DEF OpenEnds
    <2>3. active /\ \A j \in DOMAIN jobs : jobs[j].kind # "load"
      BY <1>0, <2>2 DEF LoadsInv
    <2>4. \A j \in DOMAIN jobs' : jobs'[j].kind # "load"
      <3>1. jobs' = jobs \/ (Queued(ClearJob) /\ ClearJob.kind = "clear")
        BY <1>11, Asked, JobsMove DEF OpenEnds
      <3>2. QED BY <2>3, <3>1 DEF Queued
    <2>5. LoadsInv' /\ ~Undisturbed'
      BY <2>2, <2>3, <2>4 DEF LoadsInv, Undisturbed
    <2>6. QED BY <2>5, StaysOpening
  <1>12. QED BY <1>1, <1>2, <1>3, <1>4, <1>5, <1>7, <1>8, <1>9, <1>10, <1>11 DEF ServerStep

----------------------------------------------------------------------------
(* The versions.                                                           *)

(* The versions in an index, and in what a save has collected.             *)
LEMMA IndexVersions ==
  /\ \A index \in Indexes : \A n \in Nodes : Versions(index)[n] = VersionOf(index.at, n)
  /\ \A n \in Nodes : Versions(None)[n] = 0
  /\ \A at \in Descriptors : \A n \in Nodes : VersionOf(at, n) \in Nat
  /\ \A index \in Indexes : index.at \in Descriptors /\ index # None
  /\ \A c \in Collections : c.at \in Descriptors /\ c.failed \in SUBSET Nodes /\ c # None
  <1>1. \A f \in DataFile : f.ver \in Nat /\ f # None
    BY SaveBounds, NoneAssumption DEF DataFile, Version
  <1>2. \A index \in Indexes : index.at \in Descriptors /\ index # None
    BY NoneAssumption DEF Indexes, Descriptors
  <1>3. \A at \in Descriptors : \A n \in Nodes : VersionOf(at, n) \in Nat
    BY <1>1 DEF Descriptors, VersionOf
  <1>4. \A index \in Indexes : \A n \in Nodes : Versions(index)[n] = VersionOf(index.at, n)
    BY <1>2 DEF Versions, VersionOf
  <1>5. \A n \in Nodes : Versions(None)[n] = 0
    BY DEF Versions
  <1>6. \A c \in Collections : c.at \in Descriptors /\ c.failed \in SUBSET Nodes /\ c # None
    BY NoneAssumption DEF Collections
  <1>7. QED BY <1>2, <1>3, <1>4, <1>5, <1>6

(* No version is ahead of the last one written.                            *)
LEMMA VersionsKept ==
  ASSUME Types, Types', QueuesInv, VersionsInv, Next
  PROVE  VersionsInv'
  <1>0. /\ count \in CountRecord /\ count.edits \in Nat /\ JobsInv /\ tree \in [Nodes -> Version]
        /\ Version \subseteq Nat
        /\ canon.index \in Indexes /\ auto.index \in Indexes \cup {None} /\ doing \in Collections \cup {None}
    BY SaveBounds, Names DEF Types, HistoryTypes, CountRecord, QueuesInv, KernelTypes, Version
  <1>1. /\ \A n \in Nodes : tree[n] \in Nat /\ Versions(canon.index)[n] \in Nat
                            /\ Versions(auto.index)[n] \in Nat
        /\ doing # None => \A n \in Nodes : VersionOf(doing.at, n) \in Nat
    <2>1. \A n \in Nodes : tree[n] \in Nat
      BY <1>0
    <2>2. \A index \in Indexes \cup {None} : \A n \in Nodes : Versions(index)[n] \in Nat
      BY IndexVersions
    <2>3. doing # None => \A n \in Nodes : VersionOf(doing.at, n) \in Nat
      BY <1>0, IndexVersions
    <2>4. QED BY <1>0, <2>1, <2>2, <2>3
  <1>2. ASSUME count'.edits >= count.edits, count'.edits \in Nat,
               \A n \in Nodes : tree'[n] = tree[n] \/ tree'[n] <= count.edits + 1
                                \/ tree'[n] = count'.edits + 1,
               canon'.index = canon.index \/ (doing # None /\ canon'.index \in Indexes
                                                /\ canon'.index.at = doing.at),
               auto'.index \in {auto.index, None} \/ (doing # None /\ auto'.index \in Indexes
                                                        /\ auto'.index.at = doing.at),
               \/ doing' \in {doing, None}
               \/ \A n \in Nodes : VersionOf(doing'.at, n) \in
                    {tree[n], Versions(canon.index)[n], Versions(auto.index)[n], 0},
               \A n \in Nodes : tree'[n] \in Nat
        PROVE  VersionsInv'
    <2>1. ASSUME NEW n \in Nodes
          PROVE  /\ tree'[n] <= count'.edits + 1
                 /\ Versions(canon'.index)[n] <= count'.edits + 1
                 /\ Versions(auto'.index)[n] <= count'.edits + 1
                 /\ doing' # None => VersionOf(doing'.at, n) <= count'.edits + 1
      <3>1. tree'[n] <= count'.edits + 1
        BY <1>0, <1>1, <1>2 DEF VersionsInv
      <3>2. Versions(canon'.index)[n] <= count'.edits + 1
        BY <1>0, <1>1, <1>2, IndexVersions DEF VersionsInv
      <3>3. Versions(auto'.index)[n] <= count'.edits + 1
        BY <1>0, <1>1, <1>2, IndexVersions DEF VersionsInv
      <3>4. doing' # None => VersionOf(doing'.at, n) <= count'.edits + 1
        BY <1>0, <1>1, <1>2 DEF VersionsInv
      <3>5. QED BY <3>1, <3>2, <3>3, <3>4 
    <2>2. QED BY <2>1 DEF VersionsInv
  <1>3. \A n \in Nodes : tree'[n] \in Nat
    BY <1>0 DEF Types, KernelTypes
  <1>4. CASE KernelRestarts \/ ApplicationCrashes
    <2>1. /\ doing' = None /\ UNCHANGED <<canon, auto>> /\ count'.edits = count.edits
          /\ \A n \in Nodes : tree'[n] = 0
      BY <1>4, Renewing DEF KernelRestarts, ApplicationCrashes, diskVars
    <2>2. QED BY <1>0, <1>2, <1>3, <2>1
  <1>5. CASE UserStep /\ ~KernelRestarts /\ ~ApplicationCrashes
    <2>1. KernelAside /\ SnapshotAside
      BY <1>5, UserAside
    <2>2. \/ tree' = tree /\ count'.edits \in {count.edits, count.edits + 1}
          \/ \E n \in Nodes : Edit(n) /\ count'.edits = count.edits + 1
      <3>1. ASSUME NEW n \in Nodes, Edit(n) PROVE count'.edits = count.edits + 1
        BY <1>0, <3>1, Counting DEF Edit
      <3>2. ASSUME NEW kind \in {"save", "autosave"}, Ask(kind)
            PROVE  count'.edits = count.edits /\ tree' = tree
        BY <3>2, Asking DEF Ask, kernelVars
      <3>3. ASSUME BackingFileChanges \/ RunsSaveProject \/ ClearBegins \/ \E r \in BOOLEAN : OpenBegins(r)
            PROVE  tree' = tree /\ count'.edits \in {count.edits, count.edits + 1}
        BY <1>0, <3>3, Counting DEF BackingFileChanges, RunsSaveProject, ClearBegins, OpenBegins, kernelVars
      <3>4. QED BY <1>5, <3>1, <3>2, <3>3 DEF UserStep
    <2>3. CASE tree' = tree /\ count'.edits \in {count.edits, count.edits + 1}
      BY <1>0, <1>2, <1>3, <2>1, <2>3 DEF KernelAside, SnapshotAside
    <2>4. ASSUME NEW n \in Nodes, Edit(n), count'.edits = count.edits + 1 PROVE VersionsInv'
      <3>1. \A m \in Nodes : tree'[m] = tree[m] \/ tree'[m] = count'.edits + 1
        BY <1>0, <2>4 DEF Edit
      <3>2. QED BY <1>0, <1>2, <1>3, <2>1, <2>4, <3>1 DEF KernelAside, SnapshotAside
    <2>5. QED BY <2>2, <2>3, <2>4
  <1>6. CASE ServerStep
    <2>1. KernelAside /\ auto'.index \in {auto.index, None}
      <3>1. auto \in AutoRecord
        BY DEF Types, DiskTypes
      <3>2. ASSUME NEW what \in {"files", "index"}, Removes(what) PROVE auto'.index \in {auto.index, None}
        BY <3>1, <3>2 DEF Removes, AutoRecord
      <3>3. QED BY <1>6, <3>2, ServerAside DEF SnapshotAside, SnapshotTouched
    <2>2. tree' = tree /\ count'.edits = count.edits
      <3>1. ASSUME NEW i \in DOMAIN calls, CallStep(i) PROVE tree' = tree /\ count' = count
        BY <3>1, Starting, CallSteps DEF kernelVars
      <3>2. QED
        BY <1>6, <3>1 DEF ServerStep, Removes, ClearGivesUp, ClearRemoves, CopiesForLoad, Overlays,
           BecomesActive, AsksToLoad, OpenEnds, kernelVars
    <2>3. QED BY <1>0, <1>2, <1>3, <2>1, <2>2 DEF KernelAside
  <1>7. CASE SerializesData
    <2>1. PICK at \in Descriptors, failed \in SUBSET Nodes : Serialized(at, failed)
      BY <1>7, Serializing
    <2>2. /\ tree' = tree /\ canon'.index = canon.index /\ auto'.index = auto.index
          /\ count'.edits = count.edits /\ (doing'.at = at \/ doing' = None)
          /\ \A n \in Nodes \ failed : VersionOf(at, n) = tree[n]
          /\ \A n \in failed : at[n] = Prior(Head(jobs).dir)[n]
      <3>1. doing' = [at |-> at, failed |-> failed] \/ doing' = None
        BY <2>1 DEF Serialized
      <3>2. Collects(at, failed, cache, Prior(Head(jobs).dir))
        BY <2>1 DEF Serialized
      <3>3. tree' = tree /\ canon'.index = canon.index /\ auto'.index = auto.index
            /\ count'.edits = count.edits
        BY <2>1 DEF Serialized, CanonApart
      <3>4. doing'.at = at \/ doing' = None
        BY <3>1
      <3>5. QED BY <3>2, <3>3, <3>4 DEF Collects
    <2>3. \A n \in Nodes : VersionOf(Prior(Head(jobs).dir), n) \in
                             {Versions(canon.index)[n], Versions(auto.index)[n], 0}
      BY <1>0, IndexVersions DEF Prior, NoCache, VersionOf
    <2>4. \A n \in Nodes : VersionOf(at, n) \in
                             {tree[n], Versions(canon.index)[n], Versions(auto.index)[n], 0}
      BY <2>2, <2>3 DEF VersionOf
    <2>5. QED BY <1>0, <1>2, <1>3, <2>2, <2>4
  <1>8. CASE WritesIndex
    <2>1. Indexed
      BY <1>0, <1>8, Indexing
    <2>2. /\ tree' = tree /\ count' = count /\ doing # None /\ doing' = None
      BY <2>1 DEF Indexed
    <2>3. canon'.index = canon.index \/ (canon'.index \in Indexes /\ canon'.index.at = doing.at)
      BY <2>1, Names DEF Indexed, CanonApart, CanonRecord
    <2>4. auto'.index = auto.index \/ (auto'.index \in Indexes /\ auto'.index.at = doing.at)
      BY <2>1 DEF Indexed
    <2>5. QED BY <1>0, <1>2, <1>3, <2>2, <2>3, <2>4
  <1>9. CASE SaveFails \/ ClearsCache
    <2>1. UNCHANGED <<tree, canon, auto, count>> /\ doing' \in {doing, None}
      BY <1>9 DEF SaveFails, ClearsCache, diskVars
    <2>2. QED BY <1>0, <1>2, <1>3, <2>1
  <1>10. CASE Loads
    <2> DEFINE index == IF opening.restore /\ auto.index # None THEN auto.index ELSE canon.index
    <2>1. UNCHANGED <<canon, auto, count, doing>> /\ index \in Indexes /\ LoadedFrom(index)
      BY <1>10, Loading DEF Loads, diskVars
    <2>2. \A n \in Nodes : Versions(index)[n] <= count.edits + 1
      BY DEF VersionsInv
    <2>3. \A n \in Nodes : index.at[n] \in work => index.at[n] # None
      BY Names
    <2>4. \A n \in Nodes : tree'[n] = 0 \/ tree'[n] = Versions(index)[n]
      BY <2>1, <2>3, IndexVersions DEF LoadedFrom, VersionOf
    <2>5. \A n \in Nodes : tree'[n] <= count.edits + 1
      BY <1>0, <2>2, <2>4
    <2>6. QED BY <1>0, <1>2, <1>3, <2>1, <2>5
  <1>11. QED BY <1>4, <1>5, <1>6, <1>7, <1>8, <1>9, <1>10 DEF Next, KernelStep

----------------------------------------------------------------------------
(* What a call has seen.                                                   *)

(* The calls, none but of one that had seen the same, or nothing, before.  *)
Follows(c, d) ==
  /\ d.stage # "failed" /\ c.seen = d.seen /\ c.since = d.since
  /\ c.stage \in {"queued", "asked"} => d.stage \in {"queued", "asked"}
CallsFollow ==
  \A i \in DOMAIN calls' :
    calls'[i].stage = "failed" \/ \E k \in DOMAIN calls : Follows(calls'[i], calls[k])
(* The ways in which calls move on all follow.                             *)
LEMMA CallsFollowing ==
  /\ calls' = calls => CallsFollow
  /\ CallsFail => CallsFollow
  /\ MovedTo("asked") /\ calls[1].stage = "queued" => CallsFollow
  /\ \A stage \in {"cells", "modules", "committed"} :
       MovedTo(stage) /\ calls[1].stage # "failed" => CallsFollow
  /\ Left1 => CallsFollow
  /\ TakesResults /\ calls[1].stage = "queued" => CallsFollow
  <1>1. calls' = calls => CallsFollow
    BY DEF CallsFollow, Follows
  <1>2. CallsFail => CallsFollow
    BY DEF CallsFail, SameCall, CallsFollow, Follows
  <1>3. MovedTo("asked") /\ calls[1].stage = "queued" => CallsFollow
    BY DEF MovedTo, SameCall, CallsFollow, Follows
  <1>4. ASSUME NEW stage \in {"cells", "modules", "committed"}, MovedTo(stage), calls[1].stage # "failed"
        PROVE  CallsFollow
    BY <1>4 DEF MovedTo, SameCall, CallsFollow, Follows
  <1>5. Left1 => CallsFollow
    BY DEF Left1, CallsFollow, Follows
  <1>6. TakesResults /\ calls[1].stage = "queued" => CallsFollow
    BY DEF TakesResults, CallsFollow, Follows
  <1>7. QED BY <1>1, <1>2, <1>3, <1>4, <1>5, <1>6

(* A step that no save or load takes, and that leaves no tree behind.      *)
LEMMA SeenStays ==
  ASSUME Types, SeenInv, CallsFollow,
         \A n \in Nodes : tree'[n] \in Nat /\ tree'[n] >= tree[n],
         doing' \in {doing, None}, count'.runs = count.runs,
         \/ Reloading => Reloading'
         \/ \A k \in DOMAIN calls : calls[k].stage \in {"queued", "asked", "failed"}
  PROVE  SeenInv'
  <1>1. ASSUME NEW i \in DOMAIN calls', calls'[i].stage # "failed"
        PROVE  Remembered(calls[i])'
    <2>1. PICK k \in DOMAIN calls : Follows(calls'[i], calls[k])
      BY <1>1 DEF CallsFollow
    <2>2. Remembered(calls[k])
      BY <2>1 DEF SeenInv, Follows
    <2>3. \A n \in Nodes : calls[k].seen[n] \in Nat /\ tree[n] \in Nat
      <3>1. calls[k].seen \in [Nodes -> Version] /\ tree \in [Nodes -> Version] /\ Version \subseteq Nat
        BY SaveBounds, Compared DEF Types, KernelTypes, Version
      <3>2. QED BY <3>1
    <2>4. (\A n \in Nodes : tree'[n] >= calls'[i].seen[n])
          \/ (calls'[i].stage \notin {"queued", "asked"} /\ Reloading')
      <3>1. CASE \A n \in Nodes : tree[n] >= calls[k].seen[n]
        BY <2>1, <2>3, <3>1 DEF Follows
      <3>2. CASE calls[k].stage \notin {"queued", "asked"} /\ Reloading
        BY <2>1, <3>2 DEF Follows
      <3>3. QED BY <2>2, <3>1, <3>2 DEF Remembered
    <2>5. doing' # None /\ calls'[i].since < count'.runs =>
            \A n \in Nodes \ doing'.failed : VersionOf(doing'.at, n) >= calls'[i].seen[n]
      BY <2>1, <2>2 DEF Remembered, Follows
    <2>6. QED BY <2>4, <2>5 DEF Remembered
  <1>2. QED BY <1>1 DEF SeenInv

(* Whatever the user does, what a call has seen is not lost.               *)
LEMMA UserRemembers ==
  ASSUME Types, Types', QueuesInv, CommitInv, OpeningInv, VersionsInv, SeenInv, UserStep
  PROVE  SeenInv'
  <1>0. /\ count \in CountRecord /\ count.edits \in Nat /\ tree \in [Nodes -> Version]
        /\ Version \subseteq Nat
        /\ \A n \in Nodes : tree[n] \in Nat /\ tree'[n] \in Nat
        /\ opening = Idle => ~Reloading
    <2>1. /\ count \in CountRecord /\ count.edits \in Nat /\ tree \in [Nodes -> Version]
          /\ tree' \in [Nodes -> Version] /\ Version \subseteq Nat
      BY SaveBounds DEF Types, HistoryTypes, CountRecord, KernelTypes, Version
    <2>2. TRUE \in BOOLEAN
      OBVIOUS
    <2>3. Idle.stage = "no"
      BY <2>2, Opening
    <2>4. opening = Idle => ~Reloading
      BY <2>3 DEF Reloading
    <2>5. QED BY <2>1, <2>4
  <1>1. ASSUME NEW n \in Nodes, Edit(n) PROVE SeenInv'
    <2>1. /\ UNCHANGED <<doing, calls, canon>> /\ count'.runs = count.runs /\ opening = Idle
      BY <1>0, <1>1, Counting DEF Edit, serverVars, diskVars
    <2>2. \A m \in Nodes : tree'[m] >= tree[m]
      <3>1. \A m \in Nodes : tree[m] <= count.edits + 1
        BY DEF VersionsInv
      <3>2. \A m \in Nodes : tree'[m] = tree[m] \/ tree'[m] = count.edits + 2
        BY <1>0, <1>1 DEF Edit
      <3>3. QED BY <1>0, <3>1, <3>2
    <2>3. CallsFollow
      BY <2>1, CallsFollowing
    <2>4. QED BY <1>0, <2>1, <2>2, <2>3, SeenStays
  <1>2. CASE BackingFileChanges \/ RunsSaveProject \/ ClearBegins
    <2>1. /\ UNCHANGED <<doing, calls, canon, tree, opening>> /\ count'.runs = count.runs
          /\ opening = Idle \/ jobs' = jobs
      BY <1>0, <1>2, Counting DEF BackingFileChanges, RunsSaveProject, ClearBegins, serverVars, diskVars
    <2>2. Reloading => Reloading'
      BY <1>0, <2>1 DEF Reloading
    <2>3. \A m \in Nodes : tree'[m] >= tree[m]
      BY <1>0, <2>1
    <2>4. CallsFollow
      BY <2>1, CallsFollowing
    <2>5. QED BY <1>0, <2>1, <2>2, <2>3, <2>4, SeenStays
  <1>3. ASSUME NEW kind \in {"save", "autosave"}, Ask(kind) PROVE SeenInv'
    <2>0. PICK k : k = Len(calls) + 1
      OBVIOUS
    <2>1. /\ DOMAIN calls' = DOMAIN calls \cup {k}
          /\ \A i \in DOMAIN calls : calls'[i] = calls[i]
          /\ calls'[k].stage = "queued" /\ calls'[k].seen = tree /\ calls'[k].since = count.runs
          /\ count'.runs = count.runs
      BY <1>3, <2>0, Asking
    <2>2. UNCHANGED <<canon, tree, doing, jobs, opening>>
      BY <1>3 DEF Ask, kernelVars, diskVars
    <2>3. ASSUME NEW i \in DOMAIN calls, calls'[i].stage # "failed" PROVE Remembered(calls[i])'
      <3>1. Remembered(calls[i])
        BY <2>1, <2>3 DEF SeenInv
      <3>2. QED BY <2>1, <2>2, <3>1 DEF Remembered, Reloading
    <2>4. Remembered(calls[k])'
      <3>1. count.runs \in Nat
        BY Compared
      <3>2. QED BY <1>0, <2>1, <2>2, <3>1 DEF Remembered
    <2>5. QED BY <2>1, <2>3, <2>4 DEF SeenInv
  <1>4. ASSUME NEW restore \in BOOLEAN, OpenBegins(restore) PROVE SeenInv'
    <2>1. calls' = <<>>
      BY <1>4 DEF OpenBegins, OpeningInv, LoadsInv
    <2>2. QED BY <2>1 DEF SeenInv
  <1>5. CASE KernelRestarts
    <2>1. /\ UNCHANGED <<canon>> /\ doing' = None /\ jobs' = <<>> /\ CallsFail
      BY <1>5, Renewing, Failing DEF KernelRestarts, diskVars
    <2>2. PICK restore \in BOOLEAN : restore = (auto.index # None)
      OBVIOUS
    <2>3. opening' = Opens(restore, TRUE, Chosen(restore))
      <3>1. opening' = [Idle EXCEPT !.stage = "copy", !.restart = TRUE,
                                    !.restore = restore, !.chosen = Chosen(restore)]
        BY <1>5, <2>2 DEF KernelRestarts
      <3>2. QED BY <3>1 DEF Idle, Opens
    <2>4. opening'.stage = "copy"
      BY <2>3, Opening
    <2>5. Reloading'
      BY <2>1, <2>4 DEF Reloading
    <2>6. ASSUME NEW i \in DOMAIN calls', calls'[i].stage # "failed" PROVE Remembered(calls[i])'
      <3>1. i \in DOMAIN calls /\ calls'[i] = calls[i] /\ calls[i].stage \notin {"queued", "asked"}
        BY <2>1, <2>6 DEF CallsFail
      <3>2. Remembered(calls[i])
        BY <2>6, <3>1 DEF SeenInv
      <3>3. QED BY <2>1, <2>5, <3>1, <3>2 DEF Remembered
    <2>7. QED BY <2>6 DEF SeenInv
  <1>6. CASE ApplicationCrashes
    BY <1>6 DEF ApplicationCrashes, SeenInv
  <1>7. QED BY <1>1, <1>2, <1>3, <1>4, <1>5, <1>6 DEF UserStep

(* A save collects what the calls before it have seen, and its index holds *)
(* that; a load forgets what they had seen.                                *)
LEMMA KernelRemembers ==
  ASSUME Types, Types', QueuesInv, SeenInv, KernelStep
  PROVE  SeenInv'
  <1>0. /\ JobsInv /\ CallsInv /\ count.runs \in Nat /\ canon.index \in Indexes
        /\ \A i \in DOMAIN calls : calls[i].since \in Nat /\ calls[i].since <= count.runs
    BY Compared, Names DEF QueuesInv, CallsInv
  <1>1. \A n \in Nodes : tree'[n] \in Nat
    <2>1. tree' \in [Nodes -> Version] /\ Version \subseteq Nat
      BY SaveBounds DEF Types, KernelTypes, Version
    <2>2. QED BY <2>1
  <1>2. ASSUME doing # None \/ (jobs # <<>> /\ Head(jobs).kind # "load"),
               NEW i \in DOMAIN calls, calls[i].stage # "failed"
        PROVE  \A n \in Nodes : tree[n] >= calls[i].seen[n]
    <2>1. ~Reloading
      BY <1>2, JobsMove DEF Reloading
    <2>2. QED BY <1>2, <2>1 DEF SeenInv, Remembered
  <1>3. CASE SerializesData
    <2>1. PICK at \in Descriptors, failed \in SUBSET Nodes : Serialized(at, failed)
      BY <1>3, Serializing
    <2>2. /\ jobs # <<>> /\ Head(jobs).kind \in {"save", "script"} /\ tree' = tree
          /\ count'.runs = count.runs + 1
          /\ doing' = None \/ (doing'.at = at /\ doing'.failed = failed)
          /\ \A n \in Nodes \ failed : VersionOf(at, n) = tree[n]
      <3>1. doing' = [at |-> at, failed |-> failed] \/ doing' = None
        BY <2>1 DEF Serialized
      <3>2. Collects(at, failed, cache, Prior(Head(jobs).dir))
        BY <2>1 DEF Serialized
      <3>3. /\ jobs # <<>> /\ Head(jobs).kind \in {"save", "script"} /\ tree' = tree
            /\ count'.runs = count.runs + 1
        BY <2>1 DEF Serialized
      <3>4. doing' = None \/ (doing'.at = at /\ doing'.failed = failed)
        BY <3>1
      <3>5. QED BY <3>2, <3>3, <3>4 DEF Collects
    <2>3. /\ DOMAIN calls' = DOMAIN calls
          /\ \A i \in DOMAIN calls : /\ calls'[i].seen = calls[i].seen /\ calls'[i].since = calls[i].since
                                     /\ calls[i].stage = "failed" => calls'[i].stage = "failed"
      <3>1. CASE backed
        BY <2>1, <3>1 DEF Serialized
      <3>2. CASE ~backed
        <4>1. CallsAnswered(Head(jobs).call, TRUE, TRUE, failed)
          BY <2>1, <3>2 DEF Serialized
        <4>2. QED BY <4>1 DEF CallsAnswered, Answered
      <3>3. QED BY <3>1, <3>2
    <2>4. ASSUME NEW i \in DOMAIN calls', calls'[i].stage # "failed" PROVE Remembered(calls[i])'
      <3>1. i \in DOMAIN calls /\ calls[i].stage # "failed"
        BY <2>3, <2>4
      <3>2. \A n \in Nodes : tree[n] >= calls[i].seen[n]
        BY <1>2, <2>2, <3>1
      <3>3. doing' # None => \A n \in Nodes \ doing'.failed : VersionOf(doing'.at, n) >= calls'[i].seen[n]
        BY <2>2, <2>3, <3>1, <3>2
      <3>4. QED BY <2>2, <2>3, <3>1, <3>2, <3>3 DEF Remembered
    <2>5. QED BY <2>4 DEF SeenInv
  <1>4. CASE WritesIndex
    <2>1. Indexed
      BY <1>0, <1>4, Indexing
    <2>2. doing # None /\ doing' = None /\ tree' = tree
      BY <2>1 DEF Indexed
    <2>3. /\ DOMAIN calls' = DOMAIN calls
          /\ \A i \in DOMAIN calls : /\ calls'[i].seen = calls[i].seen /\ calls'[i].since = calls[i].since
                                     /\ calls[i].stage = "failed" => calls'[i].stage = "failed"
      BY <2>1 DEF Indexed, CallsAnswered, Answered
    <2>4. ASSUME NEW i \in DOMAIN calls', calls'[i].stage # "failed" PROVE Remembered(calls[i])'
      <3>1. i \in DOMAIN calls /\ calls[i].stage # "failed"
        BY <2>3, <2>4
      <3>2. \A n \in Nodes : tree[n] >= calls[i].seen[n]
        BY <1>2, <2>2, <3>1
      <3>3. QED BY <2>2, <2>3, <3>1, <3>2 DEF Remembered
    <2>5. QED BY <2>4 DEF SeenInv
  <1>5. CASE SaveFails \/ ClearsCache
    <2>1. /\ tree' = tree /\ doing' = None /\ canon' = canon
          /\ doing # None \/ (jobs # <<>> /\ Head(jobs).kind # "load")
      BY <1>5 DEF SaveFails, ClearsCache, diskVars
    <2>2. /\ DOMAIN calls' = DOMAIN calls
          /\ \A i \in DOMAIN calls : /\ calls'[i].seen = calls[i].seen /\ calls'[i].since = calls[i].since
                                     /\ calls[i].stage = "failed" => calls'[i].stage = "failed"
      <3>1. CASE SaveFails
        <4>1. CallsAnswered(Head(jobs).call, FALSE, FALSE, {})
          BY <3>1, Answering DEF SaveFails
        <4>2. QED BY <4>1 DEF CallsAnswered, Answered
      <3>2. CASE ClearsCache
        BY <3>2 DEF ClearsCache
      <3>3. QED BY <1>5, <3>1, <3>2
    <2>3. ASSUME NEW i \in DOMAIN calls', calls'[i].stage # "failed" PROVE Remembered(calls[i])'
      <3>1. i \in DOMAIN calls /\ calls[i].stage # "failed"
        BY <2>2, <2>3
      <3>2. (\A n \in Nodes : tree[n] >= calls[i].seen[n]) /\ Remembered(calls[i])
        BY <1>2, <2>1, <3>1 DEF SeenInv
      <3>3. QED BY <2>1, <2>2, <3>1, <3>2 DEF Remembered
    <2>4. QED BY <2>3 DEF SeenInv
  <1>6. CASE Loads
    <2>1. CallsForget /\ UNCHANGED <<canon, doing>> /\ doing = None
      BY <1>6, Loading DEF Loads, diskVars
    <2>2. \A n \in Nodes : Absent[n] = 0 /\ Versions(canon.index)[n] \in Nat
      BY <1>0, IndexVersions DEF Absent
    <2>3. ASSUME NEW i \in DOMAIN calls' PROVE Remembered(calls[i])'
      <3>1. calls'[i].seen = Absent
        BY <2>1, <2>3 DEF CallsForget
      <3>2. QED BY <1>1, <2>1, <2>2, <3>1 DEF Remembered
    <2>4. QED BY <2>3 DEF SeenInv
  <1>7. QED BY <1>3, <1>4, <1>5, <1>6 DEF KernelStep

(* Nor does the server lose it.                                            *)
LEMMA ServerRemembers ==
  ASSUME Types, Types', QueuesInv, SeenInv, ServerStep
  PROVE  SeenInv'
  <1>0. /\ CallsInv /\ opening \in OpeningRecord
        /\ \A n \in Nodes : tree[n] \in Nat /\ tree'[n] \in Nat
    <2>1. /\ tree \in [Nodes -> Version] /\ tree' \in [Nodes -> Version] /\ Version \subseteq Nat
      BY SaveBounds DEF Types, KernelTypes, Version
    <2>2. QED BY <2>1 DEF QueuesInv, Types, ServerTypes
  <1>1. ASSUME NEW i \in DOMAIN calls, SaveStarts(i) PROVE SeenInv'
    <2>1. /\ 1 \in DOMAIN calls /\ calls[1].stage = "queued" /\ (TakesResults \/ AsksKernel)
          /\ UNCHANGED <<tree, doing, canon, count>>
      BY <1>1, Starting DEF diskVars
    <2>2. \A k \in DOMAIN calls : calls[k].stage \in {"queued", "asked", "failed"}
      BY <1>0, <2>1 DEF CallsInv
    <2>3. CallsFollow
      BY <2>1, CallsFollowing DEF AsksKernel
    <2>4. \A n \in Nodes : tree'[n] >= tree[n]
      BY <1>0, <2>1
    <2>5. QED BY <1>0, <2>1, <2>2, <2>3, <2>4, SeenStays
  <1>2. ASSUME NEW i \in DOMAIN calls, CallStep(i), ~SaveStarts(i) PROVE SeenInv'
    <2>1. 1 \in DOMAIN calls /\ CallWrites /\ UNCHANGED <<tree, doing, jobs, count>>
      BY <1>2, CallSteps DEF kernelVars
    <2>3. opening'.stage = opening.stage
      BY <2>1, OpeningMoves DEF CallWrites
    <2>4. Reloading => Reloading'
      BY <2>1, <2>3 DEF Reloading
    <2>5. CallsFollow
      BY <2>1, CallsFollowing DEF CallWrites
    <2>6. \A n \in Nodes : tree'[n] >= tree[n]
      BY <1>0, <2>1
    <2>7. QED BY <1>0, <2>1, <2>4, <2>5, <2>6, SeenStays
  <1>3. ASSUME \/ \E what \in {"files", "index"} : Removes(what)
               \/ ClearGivesUp \/ ClearRemoves \/ CopiesForLoad \/ Overlays \/ BecomesActive
               \/ AsksToLoad \/ OpenEnds
        PROVE  SeenInv'
    <2>1. UNCHANGED <<tree, doing, calls, canon, count>>
      BY <1>3 DEF Removes, ClearGivesUp, ClearRemoves, CopiesForLoad, Overlays, BecomesActive,
         AsksToLoad, OpenEnds, serverVars, diskVars, kernelVars
    <2>2. Reloading => Reloading'
      <3>1. CASE (\E what \in {"files", "index"} : Removes(what)) \/ ClearGivesUp \/ ClearRemoves
        <4>1. jobs' = jobs /\ opening'.stage = opening.stage
          BY <3>1, OpeningMoves DEF Removes, ClearGivesUp, ClearRemoves, kernelVars, serverVars
        <4>2. QED BY <2>1, <4>1 DEF Reloading
      <3>2. CASE CopiesForLoad \/ Overlays \/ BecomesActive
        <4>1. jobs' = jobs
          BY <3>2 DEF CopiesForLoad, Overlays, BecomesActive, kernelVars
        <4>2. opening'.stage \in {"overlay", "copied", "active"}
          BY <3>2, OpeningMoves DEF CopiesForLoad, Overlays, BecomesActive
        <4>3. QED BY <2>1, <4>1, <4>2 DEF Reloading
      <3>3. CASE AsksToLoad
        <4>1. Queued(LoadJob) /\ LoadJob.kind = "load"
          BY <3>3, Asked, JobsMove DEF AsksToLoad, LoadJob
        <4>2. opening'.stage = "asked"
          BY <3>3, OpeningMoves DEF AsksToLoad
        <4>3. QED BY <2>1, <4>1, <4>2 DEF Reloading, Queued
      <3>4. CASE OpenEnds
        BY <3>4 DEF OpenEnds, Reloading
      <3>5. QED BY <1>3, <3>1, <3>2, <3>3, <3>4
    <2>3. CallsFollow
      BY <2>1, CallsFollowing
    <2>4. \A n \in Nodes : tree'[n] >= tree[n]
      BY <1>0, <2>1
    <2>5. QED BY <1>0, <2>1, <2>2, <2>3, <2>4, SeenStays
  <1>4. QED BY <1>1, <1>2, <1>3 DEF ServerStep

----------------------------------------------------------------------------
(* What the index holds of what a call has seen.                           *)

(* The calls, none but of one that had written the same, or nothing.       *)
Carries(c, d) ==
  /\ d.stage # "failed" /\ c.since = d.since /\ (c.seen = d.seen \/ c.seen = Absent)
  /\ Unwritten(c) \/ (~Unwritten(d) /\ c.run = d.run /\ c.failed = d.failed)
CallsCarry ==
  \A i \in DOMAIN calls' :
    calls'[i].stage = "failed" \/ \E k \in DOMAIN calls : Carries(calls'[i], calls[k])

(* The ways in which calls move on without new work all carry on.          *)
LEMMA CallsCarrying ==
  /\ calls' = calls => CallsCarry
  /\ CallsFail => CallsCarry
  /\ CallsForget => CallsCarry
  /\ MovedTo("asked") /\ calls[1].stage = "queued" => CallsCarry
  /\ \A stage \in {"cells", "modules", "committed"} :
       MovedTo(stage) /\ ~Unwritten(calls[1]) => CallsCarry
  /\ Left1 => CallsCarry
  <1>1. calls' = calls => CallsCarry
    BY DEF CallsCarry, Carries
  <1>2. CallsFail => CallsCarry
    BY DEF CallsFail, CallsCarry, Carries
  <1>3. ASSUME CallsForget PROVE CallsCarry
    <2>1. ASSUME NEW i \in DOMAIN calls', calls'[i].stage # "failed" PROVE Carries(calls'[i], calls[i])
      <3>1. /\ calls'[i].seen = Absent /\ calls'[i].since = calls[i].since
            /\ calls'[i].stage = calls[i].stage /\ calls'[i].kind = calls[i].kind
            /\ calls'[i].missing = calls[i].missing /\ calls'[i].run = calls[i].run
            /\ calls'[i].failed = calls[i].failed
        BY <1>3, <2>1 DEF CallsForget
      <3>2. Unwritten(calls'[i]) <=> Unwritten(calls[i])
        BY <3>1 DEF Unwritten
      <3>3. QED BY <2>1, <3>1, <3>2 DEF Carries
    <2>2. QED BY <1>3, <2>1 DEF CallsCarry, CallsForget
  <1>4. ASSUME MovedTo("asked"), calls[1].stage = "queued" PROVE CallsCarry
    BY <1>4 DEF MovedTo, SameCall, CallsCarry, Carries, Unwritten
  <1>5. ASSUME NEW stage \in {"cells", "modules", "committed"}, MovedTo(stage), ~Unwritten(calls[1])
        PROVE  CallsCarry
    <2>1. calls[1].stage # "failed"
      BY <1>5 DEF Unwritten
    <2>2. Carries(calls'[1], calls[1])
      BY <1>5, <2>1 DEF MovedTo, SameCall, Carries
    <2>3. \A i \in DOMAIN calls \ {1} : calls'[i].stage = "failed" \/ Carries(calls'[i], calls[i])
      BY <1>5 DEF MovedTo, Carries
    <2>4. QED BY <1>5, <2>2, <2>3 DEF MovedTo, CallsCarry
  <1>6. ASSUME Left1 PROVE CallsCarry
    <2>1. \A i \in DOMAIN calls' :
            calls'[i].stage = "failed" \/ Carries(calls'[i], calls[i + 1])
      BY <1>6 DEF Left1, Carries
    <2>2. QED BY <1>6, <2>1 DEF Left1, CallsCarry
  <1>7. QED BY <1>1, <1>2, <1>3, <1>4, <1>5, <1>6

(* An answer is no work when it is an error, reports missing files, or is  *)
(* of an autosave.                                                         *)
LEMMA AnswersCarry ==
  ASSUME NEW call, NEW ok \in BOOLEAN, NEW missing, NEW failed,
         CallsAnswered(call, ok, missing, failed),
         ~ok \/ missing \/ \A i \in DOMAIN calls : calls[i].id = call => calls[i].kind # "save"
  PROVE  CallsCarry
  <1>1. ASSUME NEW i \in DOMAIN calls', calls'[i].stage # "failed" PROVE Carries(calls'[i], calls[i])
    <2>1. i \in DOMAIN calls /\ Answered(calls'[i], calls[i], call, ok, missing, failed)
      BY DEF CallsAnswered
    <2>2. CASE calls'[i] = calls[i]
      BY <1>1, <2>2 DEF Carries
    <2>3. CASE calls'[i] # calls[i]
      <3>1. /\ calls[i].id = call /\ calls[i].stage = "asked" /\ ok /\ calls'[i].stage = "answered"
            /\ calls'[i].kind = calls[i].kind /\ calls'[i].seen = calls[i].seen
            /\ calls'[i].since = calls[i].since /\ calls'[i].missing = missing
        BY <1>1, <2>1, <2>3 DEF Answered
      <3>2. Unwritten(calls'[i])
        BY <2>1, <3>1 DEF Unwritten
      <3>3. QED BY <3>1, <3>2 DEF Carries
    <2>4. QED BY <2>2, <2>3
  <1>2. DOMAIN calls' = DOMAIN calls
    BY DEF CallsAnswered
  <1>3. QED BY <1>1, <1>2 DEF CallsCarry

(* A step that writes no index of the project, and leaves no new results.  *)
LEMMA StoredStays ==
  ASSUME Types, StoredInv, CallsCarry, canon'.index = canon.index,
         results' \in {results, None} \/ results'.missing
  PROVE  StoredInv'
  <1>1. \A n \in Nodes : Versions(canon.index)[n] \in Nat /\ Absent[n] = 0
    <2>1. canon.index \in Indexes
      BY Names
    <2>2. QED BY <2>1, IndexVersions DEF Absent
  <1>2. ASSUME NEW i \in DOMAIN calls', calls'[i].stage # "failed"
        PROVE  /\ results' # None /\ ~results'.missing /\ calls'[i].since < results'.run =>
                    Stored(calls[i], results.failed)'
               /\ ~Unwritten(calls'[i]) /\ calls'[i].since < calls'[i].run =>
                    Stored(calls[i], calls[i].failed)'
    <2>1. PICK k \in DOMAIN calls : Carries(calls'[i], calls[k])
      BY <1>2 DEF CallsCarry
    <2>2. /\ calls[k].stage # "failed" /\ calls'[i].since = calls[k].since
          /\ calls'[i].seen = calls[k].seen \/ calls'[i].seen = Absent
      BY <2>1 DEF Carries
    <2>3. \A skipped : Stored(calls[k], skipped) =>
            \A n \in Nodes \ skipped : Versions(canon'.index)[n] >= calls'[i].seen[n]
      BY <1>1, <2>2 DEF Stored
    <2>4. results' # None /\ ~results'.missing /\ calls'[i].since < results'.run =>
            Stored(calls[i], results.failed)'
      BY <2>2, <2>3 DEF StoredInv, Stored
    <2>5. ASSUME ~Unwritten(calls'[i]), calls'[i].since < calls'[i].run
          PROVE  Stored(calls[i], calls[i].failed)'
      <3>1. ~Unwritten(calls[k]) /\ calls'[i].run = calls[k].run /\ calls'[i].failed = calls[k].failed
        BY <2>1, <2>5 DEF Carries
      <3>2. Stored(calls[k], calls[k].failed)
        BY <2>2, <2>5, <3>1 DEF StoredInv
      <3>3. QED BY <2>3, <3>1, <3>2 DEF Stored
    <2>6. QED BY <2>4, <2>5
  <1>3. QED BY <1>2 DEF StoredInv, Unwritten

(* The user takes nothing out of the index.                                *)
LEMMA UserStores ==
  ASSUME Types, QueuesInv, CommitInv, StoredInv, UserStep
  PROVE  StoredInv'
  <1>1. ASSUME \/ \E n \in Nodes : Edit(n)
               \/ BackingFileChanges \/ RunsSaveProject \/ ClearBegins
               \/ \E r \in BOOLEAN : OpenBegins(r)
        PROVE  StoredInv'
    <2>1. UNCHANGED <<canon, calls, results>>
      BY <1>1 DEF Edit, BackingFileChanges, RunsSaveProject, ClearBegins, OpenBegins,
         serverVars, diskVars
    <2>2. QED BY <2>1, CallsCarrying, StoredStays
  <1>2. ASSUME NEW kind \in {"save", "autosave"}, Ask(kind) PROVE StoredInv'
    <2>0. PICK k : k = Len(calls) + 1
      OBVIOUS
    <2>1. /\ DOMAIN calls' = DOMAIN calls \cup {k}
          /\ \A i \in DOMAIN calls : calls'[i] = calls[i]
          /\ calls'[k].stage = "queued" /\ calls'[k].since = count.runs
      BY <1>2, <2>0, Asking
    <2>2. UNCHANGED <<canon, results>>
      BY <1>2 DEF Ask, diskVars
    <2>3. results # None /\ ~results.missing => ~(count.runs < results.run)
      BY Compared DEF CommitInv
    <2>4. Unwritten(calls'[k])
      BY <2>1 DEF Unwritten
    <2>5. QED BY <2>1, <2>2, <2>3, <2>4 DEF StoredInv, Stored, Unwritten
  <1>3. CASE KernelRestarts
    <2>1. CallsFail /\ UNCHANGED <<canon, results>>
      BY <1>3, Failing DEF KernelRestarts, diskVars
    <2>2. QED BY <2>1, CallsCarrying, StoredStays
  <1>4. CASE ApplicationCrashes
    BY <1>4 DEF ApplicationCrashes, StoredInv
  <1>5. QED BY <1>1, <1>2, <1>3, <1>4 DEF UserStep

(* An explicit save puts into the index what it has collected, and keeps   *)
(* what was there of the nodes it skips.                                   *)
LEMMA IndexStores ==
  ASSUME Types, QueuesInv, CommitInv, SeenInv, StoredInv, CopiesInv, Indexed, Explicit
  PROVE  StoredInv'
  <1>1. /\ canon'.index \in Indexes /\ canon'.index.at = doing.at /\ doing \in Collections
        /\ canon.index \in Indexes /\ doing # None
    BY Names DEF Indexed, CanonApart, CanonRecord, Types, KernelTypes
  <1>2. \A n \in Nodes : /\ Versions(canon'.index)[n] = VersionOf(doing.at, n)
                         /\ Versions(canon.index)[n] = VersionOf(canon.index.at, n)
    BY <1>1, IndexVersions
  <1>3. \A n \in doing.failed : n \in Nodes => Versions(canon'.index)[n] = Versions(canon.index)[n]
    BY <1>2 DEF CopiesInv, VersionOf
  <1>4. /\ DOMAIN calls' = DOMAIN calls
        /\ \A i \in DOMAIN calls :
             Answered(calls'[i], calls[i], Head(jobs).call, TRUE, FALSE, doing.failed)
    BY DEF Indexed, CallsAnswered
  <1>5. /\ count.runs \in Nat /\ canon.index.by \in Nat /\ canon.index.by <= count.runs
        /\ results # None => results.run \in Nat
        /\ \A i \in DOMAIN calls : calls[i].run \in Nat /\ calls[i].since \in Nat
    BY Compared DEF CommitInv
  <1>6. ASSUME NEW i \in DOMAIN calls', calls'[i].stage # "failed"
        PROVE  /\ results' # None /\ ~results'.missing /\ calls'[i].since < results'.run =>
                    Stored(calls[i], results.failed)'
               /\ ~Unwritten(calls'[i]) /\ calls'[i].since < calls'[i].run =>
                    Stored(calls[i], calls[i].failed)'
    <2>1. /\ i \in DOMAIN calls /\ calls[i].stage # "failed"
          /\ calls'[i].seen = calls[i].seen /\ calls'[i].since = calls[i].since
          /\ \/ calls'[i] = calls[i]
             \/ calls'[i].run = count.runs /\ calls'[i].failed = doing.failed
      BY <1>4, <1>6 DEF Answered
    <2>2. calls[i].since < count.runs =>
            \A n \in Nodes \ doing.failed : Versions(canon'.index)[n] >= calls'[i].seen[n]
      <3>1. Remembered(calls[i])
        BY <2>1 DEF SeenInv
      <3>2. QED BY <1>1, <1>2, <2>1, <3>1 DEF Remembered
    <2>3. ASSUME NEW skipped, calls[i].since < count.runs, Stored(calls[i], skipped)
          PROVE  \A n \in Nodes \ skipped : Versions(canon'.index)[n] >= calls'[i].seen[n]
      BY <1>3, <2>1, <2>2, <2>3 DEF Stored
    <2>4. ASSUME results' # None, ~results'.missing, calls'[i].since < results'.run
          PROVE  Stored(calls[i], results.failed)'
      <3>1. CASE Head(jobs).kind = "script"
        BY <2>1, <2>2, <2>4, <3>1 DEF Indexed, Stored
      <3>2. CASE Head(jobs).kind # "script"
        <4>1. results' = results
          BY <3>2 DEF Indexed
        <4>2. results.run <= canon.index.by
          BY <2>4, <4>1 DEF CommitInv
        <4>3. calls[i].since < count.runs
          BY <1>5, <2>1, <2>4, <4>1, <4>2
        <4>4. Stored(calls[i], results.failed)
          BY <2>1, <2>4, <4>1 DEF StoredInv
        <4>5. QED BY <2>3, <4>1, <4>3, <4>4 DEF Stored
      <3>3. QED BY <3>1, <3>2
    <2>5. ASSUME ~Unwritten(calls'[i]), calls'[i].since < calls'[i].run
          PROVE  Stored(calls[i], calls[i].failed)'
      <3>1. CASE calls'[i].run = count.runs /\ calls'[i].failed = doing.failed
        BY <2>1, <2>2, <2>5, <3>1 DEF Stored
      <3>2. CASE calls'[i] = calls[i]
        <4>1. calls[i].run <= canon.index.by
          <5>1. Written(calls[i]) /\ calls[i] \in CallRecord
            BY <2>1 DEF CommitInv, Types, ServerTypes
          <5>2. QED BY <2>5, <3>2, <5>1 DEF Written, Unwritten, CallRecord
        <4>2. calls[i].since < count.runs
          BY <1>5, <2>1, <2>5, <3>2, <4>1
        <4>3. Stored(calls[i], calls[i].failed)
          BY <2>1, <2>5, <3>2 DEF StoredInv
        <4>4. QED BY <2>3, <3>2, <4>2, <4>3 DEF Stored
      <3>3. QED BY <2>1, <3>1, <3>2
    <2>6. QED BY <2>4, <2>5
  <1>7. QED BY <1>6 DEF StoredInv, Unwritten

(* Nor does the kernel lose what a call has stored.                        *)
LEMMA KernelStores ==
  ASSUME Types, QueuesInv, CommitInv, SeenInv, StoredInv, CopiesInv, KernelStep
  PROVE  StoredInv'
  <1>0. JobsInv
    BY DEF QueuesInv
  <1>1. CASE SerializesData
    <2>1. PICK at \in Descriptors, failed \in SUBSET Nodes : Serialized(at, failed)
      BY <1>1, Serializing
    <2>2. canon'.index = canon.index
      BY <2>1 DEF Serialized, CanonApart
    <2>3. CASE backed
      BY <2>1, <2>2, <2>3, CallsCarrying, StoredStays DEF Serialized
    <2>4. CASE ~backed
      <3>1. CallsAnswered(Head(jobs).call, TRUE, TRUE, failed)
            /\ (results' = results \/ results'.missing)
        BY <2>1, <2>4 DEF Serialized
      <3>2. QED BY <2>2, <3>1, AnswersCarry, StoredStays
    <2>5. QED BY <2>3, <2>4
  <1>2. CASE WritesIndex
    <2>1. Indexed
      BY <1>0, <1>2, Indexing
    <2>2. CASE Explicit
      BY <2>1, <2>2, IndexStores
    <2>3. CASE ~Explicit
      <3>1. jobs # <<>> /\ 1 \in DOMAIN jobs /\ jobs[1] = Head(jobs)
        BY <1>0, <2>1, JobsMove DEF Indexed, JobsInv
      <3>2. Head(jobs).dir # "canon" /\ canon' = canon
        BY <2>1, <2>3 DEF Explicit, Indexed
      <3>3. results' = results
        BY <1>0, <2>1, <3>1, <3>2 DEF Indexed, JobsInv
      <3>4. \A i \in DOMAIN calls : calls[i].id = Head(jobs).call => calls[i].kind # "save"
        BY <1>0, <3>1, <3>2 DEF JobsInv
      <3>5. CallsAnswered(Head(jobs).call, TRUE, FALSE, doing.failed)
        BY <2>1 DEF Indexed
      <3>6. QED BY <3>2, <3>3, <3>4, <3>5, AnswersCarry, StoredStays
    <2>4. QED BY <2>2, <2>3
  <1>3. CASE SaveFails
    <2>1. CallsAnswered(Head(jobs).call, FALSE, FALSE, {}) /\ UNCHANGED <<canon, results>>
      BY <1>3, Answering DEF SaveFails, diskVars
    <2>2. QED BY <2>1, AnswersCarry, StoredStays
  <1>4. CASE ClearsCache \/ Loads
    <2>1. UNCHANGED <<canon, results>> /\ (calls' = calls \/ CallsForget)
      BY <1>4, Loading DEF ClearsCache, Loads, diskVars
    <2>2. QED BY <2>1, CallsCarrying, StoredStays
  <1>5. QED BY <1>1, <1>2, <1>3, <1>4 DEF KernelStep

(* A project:save takes the results a cell left as they are stored.        *)
LEMMA ServerStores ==
  ASSUME Types, QueuesInv, CommitInv, StoredInv, ServerStep
  PROVE  StoredInv'
  <1>1. ASSUME NEW i \in DOMAIN calls, SaveStarts(i) PROVE StoredInv'
    <2>1. /\ 1 \in DOMAIN calls /\ calls[1].stage = "queued" /\ (TakesResults \/ AsksKernel)
          /\ canon' = canon
      BY <1>1, Starting DEF diskVars
    <2>2. CASE TakesResults
      <3>1. /\ DOMAIN calls' = DOMAIN calls /\ results # None /\ results' = None
            /\ \A k \in DOMAIN calls \ {1} : calls'[k] = calls[k]
            /\ calls'[1].kind = "save" /\ calls'[1].stage = "answered"
            /\ calls'[1].seen = calls[1].seen /\ calls'[1].since = calls[1].since
            /\ calls'[1].missing = results.missing /\ calls'[1].run = results.run
            /\ calls'[1].failed = results.failed
        BY <2>2 DEF TakesResults
      <3>2. ASSUME ~Unwritten(calls'[1]), calls'[1].since < calls'[1].run
            PROVE  Stored(calls[1], calls[1].failed)'
        <4>1. ~results.missing
          BY <3>1, <3>2 DEF Unwritten
        <4>2. Stored(calls[1], results.failed)
          BY <2>1, <3>1, <3>2, <4>1 DEF StoredInv
        <4>3. QED BY <2>1, <3>1, <4>2 DEF Stored
      <3>3. QED BY <2>1, <3>1, <3>2 DEF StoredInv, Stored, Unwritten
    <2>3. CASE AsksKernel
      BY <2>1, <2>3, CallsCarrying, StoredStays DEF AsksKernel
    <2>4. QED BY <2>1, <2>2, <2>3
  <1>2. ASSUME NEW i \in DOMAIN calls, CallStep(i), ~SaveStarts(i) PROVE StoredInv'
    <2>1. 1 \in DOMAIN calls /\ CallWrites /\ results' = results
      BY <1>2, CallSteps
    <2>2. canon'.index = canon.index
      BY <2>1 DEF CallWrites, CanonApart
    <2>3. CallsCarry
      <3>1. CASE Left1
        BY <3>1, CallsCarrying
      <3>2. CASE ~Left1
        <4>1. /\ \E stage \in {"cells", "modules", "committed"} : MovedTo(stage)
              /\ ~Unwritten(calls[1])
          BY <2>1, <3>2 DEF CallWrites, Unwritten
        <4>2. QED BY <4>1, CallsCarrying
      <3>3. QED BY <3>1, <3>2
    <2>4. QED BY <2>1, <2>2, <2>3, StoredStays
  <1>3. ASSUME \/ \E what \in {"files", "index"} : Removes(what)
               \/ ClearGivesUp \/ ClearRemoves \/ CopiesForLoad \/ Overlays \/ BecomesActive
               \/ AsksToLoad \/ OpenEnds
        PROVE  StoredInv'
    <2>1. UNCHANGED <<calls, results, canon>>
      BY <1>3 DEF Removes, ClearGivesUp, ClearRemoves, CopiesForLoad, Overlays, BecomesActive,
         AsksToLoad, OpenEnds, serverVars, diskVars
    <2>2. QED BY <2>1, CallsCarrying, StoredStays
  <1>4. QED BY <1>1, <1>2, <1>3 DEF ServerStep

----------------------------------------------------------------------------
(* What the project has of the tree.                                       *)

(* The project has the files its index names, and an explicit save those   *)
(* it has collected.                                                       *)
LEMMA CopiesKept ==
  ASSUME Types, Types', QueuesInv, CopiesInv, Next
  PROVE  CopiesInv'
  <1>0. /\ JobsInv /\ tree \in [Nodes -> Version] /\ Version \subseteq Nat
        /\ doing \in Collections \cup {None} /\ canon.index \in Indexes
    BY SaveBounds, Names DEF QueuesInv, Types, KernelTypes, Version
  <1>1. ASSUME KernelAside, doing = None \/ tree' = tree PROVE CopiesInv'
    <2>1. /\ doing' = doing /\ (Explicit' <=> Explicit)
          /\ canon'.files = canon.files /\ canon'.index = canon.index
      BY <1>1 DEF KernelAside
    <2>2. Explicit => tree' = tree
      BY <1>1 DEF Explicit
    <2>3. QED BY <2>1, <2>2 DEF CopiesInv
  <1>2. CASE KernelRestarts \/ ApplicationCrashes
    <2>1. canon' = canon /\ doing' = None
      BY <1>2, Renewing DEF KernelRestarts, ApplicationCrashes, diskVars
    <2>2. QED BY <2>1 DEF CopiesInv, Explicit
  <1>3. CASE UserStep /\ ~KernelRestarts /\ ~ApplicationCrashes
    <2>1. doing = None \/ tree' = tree
      BY <1>3 DEF UserStep, Edit, BackingFileChanges, RunsSaveProject, Ask, ClearBegins, OpenBegins,
         kernelVars
    <2>2. QED BY <1>0, <1>1, <1>3, <2>1, UserAside
  <1>4. CASE ServerStep
    <2>1. tree' = tree
      <3>1. ASSUME NEW i \in DOMAIN calls, CallStep(i) PROVE tree' = tree
        BY <3>1, Starting, CallSteps DEF kernelVars
      <3>2. QED
        BY <1>4, <3>1 DEF ServerStep, Removes, ClearGivesUp, ClearRemoves, CopiesForLoad, Overlays,
           BecomesActive, AsksToLoad, OpenEnds, kernelVars
    <2>2. QED BY <1>0, <1>1, <1>4, <2>1, ServerAside
  <1>5. CASE SerializesData
    <2>1. PICK at \in Descriptors, failed \in SUBSET Nodes : Serialized(at, failed)
      BY <1>5, Serializing
    <2>2. /\ doing = None /\ tree' = tree /\ canon'.index = canon.index
          /\ Collects(at, failed, cache, Prior(Head(jobs).dir))
      BY <2>1 DEF Serialized, CanonApart
    <2>3. canon.files \subseteq canon'.files
      BY <2>1 DEF Serialized
    <2>4. \A n \in Nodes : canon'.index.at[n] # None => canon'.index.at[n] \in canon'.files
      BY <2>2, <2>3 DEF CopiesInv
    <2>5. ASSUME Explicit', NEW n \in Nodes
          PROVE  /\ n \in doing'.failed => doing'.at[n] = canon'.index.at[n]
                 /\ doing'.at[n] # None => doing'.at[n] \in canon'.files
                 /\ tree'[n] # 0 => doing'.at[n] # None \/ canon'.index.at[n] = None
      <3>1. doing' = [at |-> at, failed |-> failed] /\ jobs' = jobs
        BY <2>1, <2>5 DEF Serialized, Explicit
      <3>2. doing'.at = at /\ doing'.failed = failed /\ Head(jobs).dir = "canon"
        BY <2>5, <3>1 DEF Explicit
      <3>3. CASE n \in failed
        <4>1. at[n] = canon.index.at[n]
          BY <2>2, <3>2, <3>3 DEF Collects, Prior
        <4>2. QED BY <2>2, <2>4, <3>2, <3>3, <4>1
      <3>4. CASE n \notin failed
        <4>1. at[n] # None => at[n] \in canon'.files
          BY <2>1, <3>2, <3>4 DEF Serialized
        <4>2. tree[n] # 0 => at[n] # None
          BY <2>2, <3>4 DEF Collects, VersionOf
        <4>3. QED BY <2>2, <3>2, <3>4, <4>1, <4>2
      <3>5. QED BY <3>3, <3>4
    <2>6. QED BY <2>4, <2>5 DEF CopiesInv
  <1>6. CASE WritesIndex
    <2>1. Indexed
      BY <1>0, <1>6, Indexing
    <2>2. doing' = None
      BY <2>1 DEF Indexed
    <2>3. CASE Explicit
      <3>1. canon' = [canon EXCEPT !.index = [by |-> count.runs, at |-> doing.at],
                      !.files = canon.files \cap Named([by |-> count.runs, at |-> doing.at])]
        BY <1>6, <2>3 DEF WritesIndex, Explicit
      <3>2. /\ canon'.index = [by |-> count.runs, at |-> doing.at]
            /\ canon'.files = canon.files \cap Named(canon'.index)
        <4>1. canon \in CanonRecord
          BY DEF Types, DiskTypes
        <4>2. QED BY <3>1, <4>1 DEF CanonRecord
      <3>3. canon'.index \in Indexes
        BY Names DEF Types, DiskTypes, CanonRecord
      <3>4. ASSUME NEW n \in Nodes, canon'.index.at[n] # None
            PROVE  canon'.index.at[n] \in canon'.files
        <4>1. canon'.index.at[n] = doing.at[n]
          BY <3>2
        <4>2. doing.at[n] \in canon.files
          BY <2>3, <3>4, <4>1 DEF CopiesInv
        <4>3. canon'.index # None
          BY <3>3, IndexVersions
        <4>4. canon'.index.at[n] \in Named(canon'.index)
          BY <3>4, <4>3 DEF Named
        <4>5. QED BY <3>2, <4>1, <4>2, <4>4
      <3>5. QED BY <2>2, <3>4 DEF CopiesInv, Explicit
    <2>4. CASE ~Explicit
      <3>1. canon' = canon
        BY <2>1, <2>4 DEF Indexed
      <3>2. QED BY <2>2, <3>1 DEF CopiesInv, Explicit
    <2>5. QED BY <2>3, <2>4
  <1>7. CASE SaveFails \/ ClearsCache \/ Loads
    <2>1. canon' = canon /\ doing' = None
      BY <1>7 DEF SaveFails, ClearsCache, Loads, diskVars
    <2>2. QED BY <2>1 DEF CopiesInv, Explicit
  <1>8. QED BY <1>2, <1>3, <1>4, <1>5, <1>6, <1>7 DEF Next, KernelStep

(* The descriptor of a node in the tree is taken out by no step, and the   *)
(* file it names is there.                                                 *)
LEMMA CopiesStay ==
  ASSUME Types, QueuesInv, CopiesInv, CopiesInv', Next,
         NEW n \in Nodes, tree[n] # 0, canon.index.at[n] \in canon.files
  PROVE  canon'.index.at[n] \in canon'.files
  <1>1. JobsInv /\ canon.index.at[n] # None
    <2>1. canon.files \in Files
      BY DEF Types, DiskTypes, CanonRecord
    <2>2. QED BY <2>1, NoneAssumption DEF Files, QueuesInv
  <1>2. ASSUME canon'.index = canon.index PROVE canon'.index.at[n] # None
    BY <1>1, <1>2
  <1>3. canon'.index.at[n] # None
    <2>1. CASE UserStep \/ ServerStep
      <3>1. canon'.index = canon.index
        <4>1. CASE KernelRestarts \/ ApplicationCrashes
          BY <4>1 DEF KernelRestarts, ApplicationCrashes, diskVars
        <4>2. CASE ~(KernelRestarts \/ ApplicationCrashes)
          BY <1>1, <2>1, <4>2, UserAside, ServerAside DEF KernelAside
        <4>3. QED BY <4>1, <4>2
      <3>2. QED BY <1>2, <3>1
    <2>2. CASE SerializesData
      <3>1. PICK at \in Descriptors, failed \in SUBSET Nodes : Serialized(at, failed)
        BY <2>2, Serializing
      <3>2. QED BY <1>2, <3>1 DEF Serialized, CanonApart
    <2>3. CASE WritesIndex
      <3>1. Indexed
        BY <1>1, <2>3, Indexing
      <3>2. CASE Explicit
        BY <1>1, <3>1, <3>2 DEF Indexed, CopiesInv
      <3>3. CASE ~Explicit
        BY <1>2, <3>1, <3>3 DEF Indexed
      <3>4. QED BY <3>2, <3>3
    <2>4. CASE SaveFails \/ ClearsCache \/ Loads
      BY <1>2, <2>4 DEF SaveFails, ClearsCache, Loads, diskVars
    <2>5. QED BY <2>1, <2>2, <2>3, <2>4 DEF Next, KernelStep
  <1>4. QED BY <1>3 DEF CopiesInv

----------------------------------------------------------------------------
(* The invariant, and what it gives.                                       *)

SaveInv ==
  /\ Types /\ JobsInv /\ CallsInv /\ CommitInv /\ CacheInv /\ SnapshotInv /\ OpeningInv
  /\ VersionsInv /\ SeenInv /\ StoredInv /\ CopiesInv

(* It holds of a project that has just been saved and is open.             *)
LEMMA InitSaved ==
  ASSUME InitSave
  PROVE  SaveInv
  <1> DEFINE first == [n \in Nodes |-> [node |-> n, ver |-> 1, run |-> 0]]
             index == [by |-> 0, at |-> first]
             files == {first[n] : n \in Nodes}
  <1>1. 1 \in Version /\ 1 \in Version \ {0} /\ 0 \in Version /\ Version \subseteq Nat
    BY SaveBounds DEF Version
  <1>2. \A n \in Nodes : [node |-> n, ver |-> 1, run |-> 0] \in DataFile
    BY <1>1 DEF DataFile
  <1>3. /\ first \in Descriptors /\ files \in Files
        /\ \A n \in Nodes : first[n] # None /\ first[n].ver = 1 /\ first[n].run = 0
    BY <1>2, NoneAssumption DEF Descriptors, Files
  <1>4. /\ index \in Indexes /\ index # None /\ Named(index) = files
        /\ \A n \in Nodes : Versions(index)[n] = 1
    <2>1. index \in Indexes
      BY <1>3 DEF Indexes, Descriptors
    <2>2. index # None
      BY <2>1, NoneAssumption
    <2>3. Named(index) = files
      BY <1>3, <2>2 DEF Named
    <2>4. \A n \in Nodes : Versions(index)[n] = 1
      BY <1>3, <2>2 DEF Versions
    <2>5. QED BY <2>1, <2>2, <2>3, <2>4
  <1>5. /\ canon = [files |-> files, index |-> index, cells |-> 0, modules |-> 0, env |-> 0,
                    manifest |-> [call |-> 0, run |-> 0]]
        /\ auto = [files |-> {}, index |-> None] /\ index.by = 0
    BY DEF InitSave
  <1> HIDE DEF first, index, files
  <1>6. /\ canon \in CanonRecord /\ canon.files = files /\ canon.index = index
        /\ canon.cells = 0 /\ canon.manifest.call = 0 /\ canon.manifest.run = 0
        /\ auto \in AutoRecord /\ auto.files = {} /\ auto.index = None
    BY <1>3, <1>4, <1>5 DEF CanonRecord, AutoRecord, Files
  <1>7. /\ count \in CountRecord /\ count.edits = 0 /\ count.calls = 0 /\ count.runs = 0
    BY DEF InitSave, CountRecord
  <1>8. /\ tree = [n \in Nodes |-> 1] /\ cache = [n \in Nodes |-> None] /\ jobs = <<>> /\ doing = None
        /\ calls = <<>> /\ results = None /\ opening = Idle /\ active = TRUE /\ work = {} /\ removing = {}
    BY DEF InitSave
  <1>9. Types
    <2>1. tree \in [Nodes -> Version] /\ cache \in Descriptors
      BY <1>1, <1>8 DEF Descriptors
    <2>2. <<>> \in Seq(JobRecord) /\ <<>> \in Seq(CallRecord)
      OBVIOUS
    <2>3. KernelTypes
      BY <1>8, <2>1, <2>2 DEF KernelTypes, InitSave
    <2>4. \A b, c, d \in BOOLEAN :
            [stage |-> "no", restore |-> b, restart |-> c, chosen |-> Absent, crossed |-> d]
              \in OpeningRecord
      BY <1>1 DEF OpeningRecord, Absent
    <2>5. Idle \in OpeningRecord
      BY <2>4 DEF Idle
    <2>6. ServerTypes
      BY <1>8, <2>2, <2>5 DEF ServerTypes, InitSave
    <2>7. DiskTypes /\ HistoryTypes
      BY <1>6, <1>7, <1>8 DEF DiskTypes, HistoryTypes, InitSave, Files
    <2>8. QED BY <2>3, <2>6, <2>7 DEF Types
  <1>10. JobsInv /\ CallsInv
    BY <1>8 DEF JobsInv, CallsInv
  <1>11. CommitInv
    BY <1>5, <1>6, <1>7, <1>8 DEF CommitInv, CommitIsLast
  <1>12. CacheInv
    <2>1. \A f \in files : f.run = 0
      BY <1>3 DEF files
    <2>2. QED BY <1>4, <1>6, <1>7, <2>1 DEF CacheInv
  <1>13. SnapshotInv
    BY <1>6, <1>8 DEF SnapshotInv, SnapshotRestores, Explicit
  <1>14. OpeningInv
    <2>1. TRUE \in BOOLEAN
      OBVIOUS
    <2>2. Idle.stage = "no"
      BY <1>9, <2>1, Opening
    <2>3. QED BY <1>8, <2>2 DEF OpeningInv, LoadsInv, Undisturbed, RestoreIsFaithful
  <1>15. VersionsInv
    <2>1. \A n \in Nodes : tree[n] = 1 /\ Versions(canon.index)[n] = 1 /\ Versions(auto.index)[n] = 0
      BY <1>4, <1>6, <1>8, IndexVersions
    <2>2. QED BY <1>7, <1>8, <2>1 DEF VersionsInv
  <1>16. SeenInv /\ StoredInv
    BY <1>8 DEF SeenInv, StoredInv
  <1>17. CopiesInv
    <2>1. \A n \in Nodes : index.at[n] # None => index.at[n] \in files
      BY <1>4 DEF Named
    <2>2. QED BY <1>6, <1>8, <2>1 DEF CopiesInv, Explicit
  <1>18. QED
    BY <1>17, <1>9, <1>10, <1>11, <1>12, <1>13, <1>14, <1>15, <1>16 DEF SaveInv

(* Every step keeps it.                                                    *)
LEMMA SaveKept ==
  ASSUME SaveInv, [Next]_vars
  PROVE  SaveInv'
  <1>1. CASE UNCHANGED vars
    BY <1>1 DEF vars, kernelVars, serverVars, diskVars, history, SaveInv, Types, KernelTypes,
       ServerTypes, DiskTypes, HistoryTypes, JobsInv, CallsInv, CommitInv, CommitIsLast, Written,
       CacheInv, SnapshotInv, SnapshotRestores, Kept, Explicit, OpeningInv, LoadsInv, Undisturbed,
       RestoreIsFaithful, VersionsInv, SeenInv, Remembered, Reloading, StoredInv, Stored, Unwritten,
       CopiesInv
  <1>2. CASE Next
    <2>1. Types' /\ QueuesInv
      BY <1>2, TypesKept DEF SaveInv, QueuesInv
    <2>2. QueuesInv'
      BY <1>2, <2>1, UserQueues, KernelQueues, ServerQueues DEF SaveInv, Next
    <2>3. CommitInv'
      BY <1>2, <2>1, UserCommits, KernelCommits, ServerCommits DEF SaveInv, Next
    <2>4. CacheInv' /\ SnapshotInv' /\ VersionsInv'
      BY <1>2, <2>1, CacheKept, SnapshotKept, VersionsKept DEF SaveInv
    <2>5. OpeningInv'
      BY <1>2, <2>1, UserOpens, KernelOpens, ServerOpens DEF SaveInv, Next
    <2>6. SeenInv'
      BY <1>2, <2>1, UserRemembers, KernelRemembers, ServerRemembers DEF SaveInv, Next
    <2>7. StoredInv'
      BY <1>2, <2>1, UserStores, KernelStores, ServerStores DEF SaveInv, Next
    <2>8. CopiesInv'
      BY <1>2, <2>1, CopiesKept DEF SaveInv
    <2>9. QED BY <2>1, <2>2, <2>3, <2>4, <2>5, <2>6, <2>7, <2>8 DEF SaveInv, QueuesInv
  <1>3. QED BY <1>1, <1>2

(* When a project:save commits, the index holds what it has seen.          *)
LEMMA Persisted ==
  ASSUME SaveInv, NEW i \in DOMAIN calls, calls[i].stage = "modules", calls[i].run > calls[i].since
  PROVE  \A n \in Nodes \ calls[i].failed : Versions(canon.index)[n] >= calls[i].seen[n]
  <1>1. ~Unwritten(calls[i]) /\ calls[i].stage # "failed"
    BY DEF Unwritten
  <1>2. calls[i].run \in Nat /\ calls[i].since \in Nat
    BY Compared DEF SaveInv
  <1>3. Stored(calls[i], calls[i].failed)
    BY <1>1, <1>2 DEF SaveInv, StoredInv
  <1>4. QED BY <1>3 DEF Stored

(* Spec keeps the invariant, whatever the nodes and the bounds.            *)
THEOREM SaveInvariant == Spec => []SaveInv
  <1>1. InitSave => SaveInv
    BY InitSaved
  <1>2. SaveInv /\ [Next]_vars => SaveInv'
    BY SaveKept
  <1>3. QED BY <1>1, <1>2, PTL DEF Spec

(* The variables of the kernel, the server and the disk have their types.  *)
THEOREM TypeCorrectness == Spec => []TypeOK
  <1>1. SaveInv => TypeOK
    BY TypesOK DEF SaveInv
  <1>2. QED BY <1>1, SaveInvariant, PTL

(* A project.json on disk stands for a save whose index and code cells are *)
(* on disk (project:save); of its modules nothing is promised.             *)
THEOREM Commit == Spec => []CommitIsLast
  <1>1. SaveInv => CommitIsLast
    BY DEF SaveInv, CommitInv
  <1>2. QED BY <1>1, SaveInvariant, PTL

(* An autosave that nothing has touched since can be restored: its index   *)
(* names no file that opening the project would not find                   *)
(* (_verify_or_relocate_cached_file, overlayAutosaveTreeFiles).            *)
THEOREM Snapshot == Spec => []SnapshotRestores
  <1>1. SaveInv => SnapshotRestores
    BY DEF SaveInv, SnapshotInv
  <1>2. QED BY <1>1, SaveInvariant, PTL

(* Restoring brings back every node as the snapshot held it when it was    *)
(* chosen, or newer, unless a save or a clear crossed it.                  *)
THEOREM Restore == Spec => []RestoreIsFaithful
  <1>1. SaveInv => RestoreIsFaithful
    BY DEF SaveInv, OpeningInv
  <1>2. QED BY <1>1, SaveInvariant, PTL

(* A project:save that commits has on disk every node the user saw when    *)
(* asking for it, or a newer one, but for those its answer lists as failed *)
(* (handle_project_save, failed_nodes).                                    *)
THEOREM Saved == Spec => SavedIsPersisted
  <1>1. SaveInv =>
          \A i \in DOMAIN calls :
            calls[i].stage = "modules" /\ canon'.manifest.call = calls[i].id
              /\ canon.manifest.call # calls[i].id /\ calls[i].run > calls[i].since
            => \A n \in Nodes \ calls[i].failed :
                 Versions(canon.index)[n] >= calls[i].seen[n]
    BY Persisted
  <1>2. QED BY <1>1, SaveInvariant, PTL DEF SavedIsPersisted

(* No step takes the project's last copy of a node that is in the tree: a  *)
(* save that cannot serialize the node keeps its descriptor and its file   *)
(* (_preserve_prior_descriptors, _purge_orphaned_tree_files).              *)
THEOREM LastCopy == Spec => LastCopyIsKept
  <1>1. SaveInv /\ SaveInv' /\ [Next]_vars =>
          \A n \in Nodes : tree[n] # 0 /\ canon.index.at[n] \in canon.files
                            => canon'.index.at[n] \in canon'.files
    <2>1. CASE UNCHANGED vars
      BY <2>1 DEF vars, diskVars
    <2>2. ASSUME SaveInv, SaveInv', Next, NEW n \in Nodes, tree[n] # 0,
                 canon.index.at[n] \in canon.files
          PROVE  canon'.index.at[n] \in canon'.files
      BY <2>2, CopiesStay DEF SaveInv, QueuesInv
    <2>3. QED BY <2>1, <2>2
  <1>2. QED BY <1>1, SaveInvariant, PTL DEF Spec, LastCopyIsKept
====
