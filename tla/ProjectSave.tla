---- MODULE ProjectSave ----
(***************************************************************************)
(* Saving, autosaving and reopening one project directory.                 *)
(*                                                                         *)
(* project:save and autosave:run queue on ProjectManager's save lock.  The *)
(* kernel serializes the tree in two steps, data files then index, reusing *)
(* through its cache the file of an unchanged node wherever an earlier     *)
(* save left it; the server then writes code cells and modules, and for a  *)
(* project:save commits project.json last and removes .autosave without    *)
(* waiting.  pdv.save_project() serializes from a running cell and leaves  *)
(* its results behind for the next project:save.  Opening a project copies *)
(* files first and asks the kernel to load afterwards.  The application,   *)
(* or the kernel alone, may go away between any two steps.                 *)
(*                                                                         *)
(* A value nothing can serialize is skipped: its node keeps the descriptor *)
(* the directory's previous index has for it, if any.                      *)
(*                                                                         *)
(* A data file is named by its node, the version of the value it holds and *)
(* the serialization that minted its UUID.  Version 0 of a node is its     *)
(* absence from the tree.                                                  *)
(***************************************************************************)
EXTENDS Naturals, Sequences, FiniteSets

CONSTANTS Nodes,          \* data nodes of the tree
          None,           \* no file, no index, nothing under way
          MaxEdits,       \* bound on versions written by the user
          MaxCalls,       \* bound on project:save and autosave:run calls
          MaxScripts,     \* bound on pdv.save_project() and on cache clears
          MaxRestarts     \* bound on kernel restarts and application crashes

ASSUME SaveBounds == {MaxEdits, MaxCalls, MaxScripts, MaxRestarts} \subseteq Nat

Absent == [n \in Nodes |-> 0]
Idle == [stage |-> "no", restore |-> FALSE, restart |-> FALSE,
         chosen |-> Absent, crossed |-> FALSE]

VARIABLES
  tree, backed,        \* kernel: versions of the nodes; a file-backed node has its file
  cache, jobs, doing,  \* kernel: _autosave_cache, the shell queue, the save under way
  calls, results, dirty, clearing, opening, active,   \* server
  canon, auto, work, removing,                        \* disk; a running fs.rm of .autosave
  count,               \* edits, calls, serializations, scripts, restarts so far
  unsettled, stranded, swept   \* history: why the snapshot may not be restorable

kernelVars == <<tree, backed, cache, jobs, doing>>
serverVars == <<calls, results, dirty, clearing, opening, active>>
diskVars == <<canon, auto, work, removing>>
history == <<unsettled, stranded, swept>>
vars == <<kernelVars, serverVars, diskVars, count, history>>

Version == 0 .. MaxEdits + 1
DataFile == [node : Nodes, ver : Version \ {0}, run : Nat]
\* A tree-index.json: the file of each node (None when absent) and its writer.
Descriptors == [Nodes -> DataFile \cup {None}]
Indexes == [by : Nat, at : Descriptors]
\* What a serialization under way has collected, and the nodes it skipped.
Collections == [at : Descriptors, failed : SUBSET Nodes]
Named(index) == IF index = None THEN {} ELSE {index.at[n] : n \in Nodes} \ {None}
Versions(index) ==
  [n \in Nodes |-> IF index = None \/ index.at[n] = None THEN 0 ELSE index.at[n].ver]

ASSUME NoneAssumption == None \notin DataFile \cup Indexes \cup Collections

InitSave ==
  /\ tree = [n \in Nodes |-> 1] /\ backed = TRUE
  /\ cache = [n \in Nodes |-> None] /\ jobs = <<>> /\ doing = None
  /\ calls = <<>> /\ results = None /\ dirty = FALSE /\ clearing = "no"
  /\ opening = Idle /\ active = TRUE
  /\ LET first == [n \in Nodes |-> [node |-> n, ver |-> 1, run |-> 0]]
     IN  canon = [files |-> {first[n] : n \in Nodes}, index |-> [by |-> 0, at |-> first],
                  cells |-> 0, modules |-> 0, env |-> 0, manifest |-> [call |-> 0, run |-> 0]]
  /\ auto = [files |-> {}, index |-> None]
  /\ work = {} /\ removing = {}
  /\ count = [edits |-> 0, calls |-> 0, runs |-> 0, scripts |-> 0, restarts |-> 0]
  /\ unsettled = FALSE /\ stranded = FALSE /\ swept = FALSE

Counted(what) == count' = [count EXCEPT ![what] = @ + 1]

-----------------------------------------------------------------------------
(* The kernel *)

\* A running cell writes a node, or a backing file disappears or returns.
Edit(n) ==
  /\ doing = None /\ active /\ opening = Idle /\ count.edits < MaxEdits
  /\ tree' = [tree EXCEPT ![n] = count.edits + 2]
  /\ Counted("edits")
  /\ UNCHANGED <<backed, cache, jobs, doing, serverVars, diskVars, history>>

BackingFileChanges ==
  /\ doing = None /\ active /\ count.edits < MaxEdits
  /\ backed' = ~backed
  /\ Counted("edits")
  /\ UNCHANGED <<tree, cache, jobs, doing, serverVars, diskVars, history>>

ReachableAssumed(f) == TRUE                              \* mutant

\* _verify_or_relocate_cached_file: the file is where this save, or the other
\* kind of save, has put it.
Reachable(f) == f \in canon.files \cup auto.files

HitsAnyVersion(n, cached) ==                              \* mutant
  LET f == cached[n] IN f # None /\ Reachable(f)

\* _try_autosave_cache: an unchanged value whose file still exists.
Hits(n, cached) ==
  LET f == cached[n] IN f # None /\ f.ver = tree[n] /\ Reachable(f)

NoCache == [n \in Nodes |-> None]

\* prior_index: what the same directory's index holds before this save.
Prior(dir) == IF dir = "canon" THEN canon.index.at
              ELSE IF auto.index # None THEN auto.index.at ELSE NoCache

\* The values even the pickle fallback may refuse; a cache hit writes nothing.
Refusable(cached) == {n \in Nodes : tree[n] # 0 /\ ~Hits(n, cached)}

CollectedUnpreserved(cached, failed, prior) ==            \* mutant
  [n \in Nodes |-> IF tree[n] = 0 \/ n \in failed THEN None
                   ELSE IF Hits(n, cached) THEN cached[n]
                   ELSE [node |-> n, ver |-> tree[n], run |-> count.runs + 1]]

\* The descriptors _collect_nodes returns, those of failed_nodes preserved.
Collected(cached, failed, prior) ==
  [n \in Nodes |->
     IF tree[n] = 0 THEN None
     ELSE IF n \in failed THEN prior[n]
     ELSE IF Hits(n, cached) THEN cached[n]
     ELSE [node |-> n, ver |-> tree[n], run |-> count.runs + 1]]

Answer(call, ok, missing, failed) ==
  calls' = [i \in DOMAIN calls |->
              IF calls[i].id = call /\ calls[i].stage = "asked"
              THEN [calls[i] EXCEPT !.stage = IF ok THEN "answered" ELSE "failed",
                                    !.missing = missing, !.failed = failed,
                                    !.run = count.runs]
              ELSE calls[i]]

\* What the save_completed push makes cacheKernelSaveResults keep.
Left(missing, failed) == [run |-> count.runs, missing |-> missing, failed |-> failed,
                          session |-> count.restarts]

\* serialize_tree_to_dir up to its missing-files check: an explicit save moves
\* the files an autosave wrote, and a missing backing file ends it with no index.
SerializesData ==
  /\ jobs # <<>> /\ doing = None /\ Head(jobs).kind \in {"save", "script"}
  /\ LET job == Head(jobs)
         cached == IF job.kind = "script" \/ job.clear THEN NoCache ELSE cache
         explicit == job.dir = "canon"
     IN  \E failed \in SUBSET Refusable(cached) :
         LET at == Collected(cached, failed, Prior(job.dir))
             files == {at[n] : n \in Nodes \ failed} \ {None}
             minted == {f \in files : f.run = count.runs + 1}
         IN  /\ cache' = IF job.kind = "script" THEN cache
                         ELSE [n \in Nodes |-> IF n \in failed THEN cached[n] ELSE at[n]]
             /\ canon' = [canon EXCEPT !.files =
                            IF explicit THEN @ \cup minted \cup (files \cap auto.files) ELSE @]
             /\ auto' = [auto EXCEPT !.files = IF explicit THEN @ \ files ELSE @ \cup minted]
             /\ IF backed
                THEN /\ doing' = [at |-> at, failed |-> failed]
                     /\ UNCHANGED <<jobs, calls, results>>
                ELSE /\ doing' = None /\ jobs' = Tail(jobs)
                     /\ Answer(job.call, TRUE, TRUE, failed)
                     /\ results' = IF job.kind = "script" THEN Left(TRUE, failed) ELSE results
         /\ unsettled' = (unsettled \/ explicit)
         /\ stranded' = (stranded \/ (explicit /\ ~backed))
         /\ swept' = (removing # {})
  /\ Counted("runs")
  /\ UNCHANGED <<tree, backed, dirty, clearing, opening, active, work, removing>>

\* The index will hold descriptors taken from the one before it.
Preserves(collection) == \E n \in collection.failed : collection.at[n] # None

\* tree-index.json is replaced, unreferenced files are purged, and the results
\* are answered or, for pdv.save_project(), pushed and kept by the server.
WritesIndex ==
  /\ doing # None
  /\ LET job == Head(jobs)
         index == [by |-> count.runs, at |-> doing.at]
         explicit == job.dir = "canon"
     IN  /\ IF explicit
            THEN /\ canon' = [canon EXCEPT !.index = index, !.files = @ \cap Named(index)]
                 /\ stranded' = FALSE
                 /\ UNCHANGED <<auto, unsettled>>
            ELSE /\ auto' = [auto EXCEPT !.index = index, !.files = @ \cap Named(index)]
                 /\ unsettled' = (swept \/ stranded \/ (unsettled /\ Preserves(doing)))
                 /\ UNCHANGED <<canon, stranded>>
         /\ Answer(job.call, TRUE, FALSE, doing.failed)
         /\ results' = IF job.kind = "script" THEN Left(FALSE, doing.failed) ELSE results
  /\ doing' = None /\ jobs' = Tail(jobs)
  /\ UNCHANGED <<tree, backed, cache, dirty, clearing, opening, active, work, removing,
                 count, swept>>

\* Serialization raises: an unwritable file, a value JSON refuses.
SaveFails ==
  /\ doing # None
  /\ doing' = None /\ jobs' = Tail(jobs)
  /\ Answer(Head(jobs).call, FALSE, FALSE, {})
  /\ stranded' = (stranded \/ Head(jobs).dir = "canon")
  /\ UNCHANGED <<tree, backed, cache, results, dirty, clearing, opening, active,
                 diskVars, count, unsettled, swept>>

\* handle_project_clear_autosave_cache.
ClearsCache ==
  /\ jobs # <<>> /\ doing = None /\ Head(jobs).kind = "clear"
  /\ cache' = NoCache /\ jobs' = Tail(jobs)
  /\ clearing' = IF clearing = "asked" THEN "answered" ELSE clearing
  /\ UNCHANGED <<tree, backed, doing, calls, results, dirty, opening, active,
                 diskVars, count, history>>

\* handle_project_load: the index of .autosave when there is one; a node whose
\* file was not copied is skipped.
Loads ==
  /\ jobs # <<>> /\ doing = None /\ Head(jobs).kind = "load"
  /\ LET index == IF opening.restore /\ auto.index # None THEN auto.index ELSE canon.index
     IN  tree' = [n \in Nodes |-> IF index.at[n] \in work THEN index.at[n].ver ELSE 0]
  /\ backed' = TRUE /\ jobs' = Tail(jobs)
  /\ opening' = [opening EXCEPT !.stage = "loaded"]
  /\ calls' = [i \in DOMAIN calls |-> [calls[i] EXCEPT !.seen = Absent]]
  /\ UNCHANGED <<cache, doing, results, dirty, clearing, active, diskVars, count, history>>

\* A cell calls pdv.save_project(): no cache, and no request to answer.
RunsSaveProject ==
  /\ active /\ opening = Idle /\ jobs = <<>> /\ count.scripts < MaxScripts
  /\ jobs' = <<[kind |-> "script", dir |-> "canon", call |-> 0, clear |-> FALSE]>>
  /\ Counted("scripts")
  /\ UNCHANGED <<tree, backed, cache, doing, serverVars, diskVars, history>>

-----------------------------------------------------------------------------
(* project:save and autosave:run *)

\* The renderer saves, or answers autosaveTrigger, which waits for an idle
\* kernel; either call joins the queue of the save lock.
Ask(kind) ==
  /\ active /\ count.calls < MaxCalls
  /\ IF kind = "autosave"
     THEN \A i \in DOMAIN jobs : jobs[i].kind # "script"
     ELSE opening = Idle
  /\ calls' = Append(calls, [id |-> count.calls + 1, kind |-> kind, stage |-> "queued",
                             seen |-> tree, since |-> count.runs,
                             missing |-> FALSE, failed |-> {}, run |-> 0])
  /\ Counted("calls")
  /\ UNCHANGED <<kernelVars, results, dirty, clearing, opening, active, diskVars, history>>

HoldsUnlocked(i) == TRUE                                  \* mutant

\* runWithSaveLock: a call works once every earlier one has ended.
Holds(i) == i = 1

At(i, stage) == i \in DOMAIN calls /\ Holds(i) /\ calls[i].stage = stage
Moves(i, stage) == calls' = [calls EXCEPT ![i].stage = stage]
Leaves(i) == calls' = SubSeq(calls, 1, i - 1) \o SubSeq(calls, i + 1, Len(calls))

\* History: something touched .autosave or the tree while a project was opened.
CrossesOpening == opening' = [opening EXCEPT !.crossed = opening # Idle]

\* A project:save takes the results pdv.save_project() left; any other call
\* asks the kernel, an autosave handing on the flag of a cleared cache.
SaveStarts(i) ==
  /\ At(i, "queued")
  /\ IF calls[i].kind = "save" /\ results # None
     THEN /\ calls' = [calls EXCEPT ![i].stage = "answered", ![i].run = results.run,
                                    ![i].missing = results.missing,
                                    ![i].failed = results.failed]
          /\ results' = None
          /\ UNCHANGED <<jobs, dirty>>
     ELSE LET auto_ == calls[i].kind = "autosave"
          IN  /\ Moves(i, "asked")
              /\ jobs' = Append(jobs, [kind |-> "save", dir |-> IF auto_ THEN "auto" ELSE "canon",
                                       call |-> calls[i].id, clear |-> auto_ /\ dirty])
              /\ dirty' = (dirty /\ ~auto_)
              /\ UNCHANGED results
  /\ CrossesOpening
  /\ UNCHANGED <<tree, backed, cache, doing, clearing, active, diskVars, count, history>>

\* The request times out; the kernel will still do the work.
SaveGivesUp(i) ==
  /\ At(i, "asked")
  /\ Leaves(i)
  /\ UNCHANGED <<kernelVars, results, dirty, clearing, opening, active, diskVars, count, history>>

\* The kernel's error, or for a project:save its missing files, end the call.
SaveIsRefused(i) ==
  /\ At(i, "failed") \/ (At(i, "answered") /\ calls[i].kind = "save" /\ calls[i].missing)
  /\ Leaves(i)
  /\ UNCHANGED <<kernelVars, results, dirty, clearing, opening, active, diskVars, count, history>>

\* autosave writes code-cells.json, mirrorAutosaveSidecars the rest: the
\* answer's missing files are not looked at, and {saved: true} is returned.
AutosaveEnds(i) ==
  /\ At(i, "answered") /\ calls[i].kind = "autosave"
  /\ Leaves(i)
  /\ UNCHANGED <<kernelVars, results, dirty, clearing, opening, active, diskVars, count, history>>

WritesCells(i) ==
  /\ At(i, "answered") /\ calls[i].kind = "save" /\ ~calls[i].missing
  /\ Moves(i, "cells")
  /\ canon' = [canon EXCEPT !.cells = calls[i].id]
  /\ UNCHANGED <<kernelVars, results, dirty, clearing, opening, active,
                 auto, work, removing, count, history>>

\* syncModuleOwnedFilesToSaveDir and writeModuleManifestsToSaveDir: what they
\* could not write is warned about, and the save goes on.
WritesModules(i) ==
  /\ At(i, "cells")
  /\ Moves(i, "modules")
  /\ \E written \in {canon.modules, calls[i].id} : canon' = [canon EXCEPT !.modules = written]
  /\ UNCHANGED <<kernelVars, results, dirty, clearing, opening, active,
                 auto, work, removing, count, history>>

\* commitProjectManifest.
Commits(i) ==
  /\ At(i, "modules")
  /\ Moves(i, "committed")
  /\ canon' = [canon EXCEPT !.manifest = [call |-> calls[i].id, run |-> calls[i].run]]
  /\ UNCHANGED <<kernelVars, results, dirty, clearing, opening, active,
                 auto, work, removing, count, history>>

\* copyEnvFilesForSave, then onExplicitSaveCompleted starts the removal of
\* .autosave and does not wait for it.
WritesEnvironment(i) ==
  /\ At(i, "committed")
  /\ Leaves(i)
  /\ canon' = [canon EXCEPT !.env = calls[i].id]
  /\ removing' = {"files", "index"} /\ unsettled' = TRUE /\ swept' = TRUE
  /\ CrossesOpening
  /\ UNCHANGED <<kernelVars, results, dirty, clearing, active, auto, work, count, stranded>>

\* fs.rm takes the entries of .autosave in any order.
Removes(what) ==
  /\ what \in removing
  /\ removing' = removing \ {what}
  /\ auto' = IF what = "files" THEN [auto EXCEPT !.files = {}] ELSE [auto EXCEPT !.index = None]
  /\ UNCHANGED <<kernelVars, serverVars, canon, work, count, history>>

-----------------------------------------------------------------------------
(* Clearing, opening, restarting *)

ClearJob == [kind |-> "clear", dir |-> "auto", call |-> 0, clear |-> FALSE]

\* autosave:clear asks the kernel to drop its cache first.
ClearBegins ==
  /\ active /\ opening = Idle /\ clearing = "no" /\ count.scripts < MaxScripts
  /\ clearing' = "asked" /\ jobs' = Append(jobs, ClearJob)
  /\ Counted("scripts")
  /\ UNCHANGED <<tree, backed, cache, doing, calls, results, dirty, opening, active,
                 diskVars, history>>

ClearGivesUp ==
  /\ clearing = "asked"
  /\ clearing' = "answered"
  /\ UNCHANGED <<kernelVars, calls, results, dirty, opening, active, diskVars, count, history>>

\* markAutosaveCacheDirty, and .autosave goes outside the save lock.
ClearRemoves ==
  /\ clearing = "answered"
  /\ clearing' = "no" /\ dirty' = TRUE
  /\ removing' = {"files", "index"} /\ unsettled' = TRUE /\ swept' = TRUE
  /\ CrossesOpening
  /\ UNCHANGED <<kernelVars, calls, results, active, canon, auto, work, count, stranded>>

Chosen(restore) == IF restore /\ ~unsettled THEN Versions(auto.index) ELSE Absent

\* The user opens the project and restores its autosaved changes, if any.
OpenBegins(restore) ==
  /\ ~active /\ opening = Idle
  /\ restore => auto.index # None
  /\ opening' = [Idle EXCEPT !.stage = "copy", !.restore = restore, !.chosen = Chosen(restore)]
  /\ UNCHANGED <<kernelVars, calls, results, dirty, clearing, active, diskVars, count, history>>

\* copyFilesForLoad: the files the project's own index names.
CopiesForLoad ==
  /\ opening.stage = "copy"
  /\ work' = Named(canon.index) \cap canon.files
  /\ opening' = [opening EXCEPT !.stage = IF opening.restore THEN "overlay" ELSE "copied"]
  /\ UNCHANGED <<kernelVars, calls, results, dirty, clearing, active,
                 canon, auto, removing, count, history>>

OverlaysAlone ==                                          \* mutant
  /\ opening.stage = "overlay"
  /\ work' = auto.files
  /\ opening' = [opening EXCEPT !.stage = "copied"]
  /\ UNCHANGED <<kernelVars, calls, results, dirty, clearing, active,
                 canon, auto, removing, count, history>>

\* overlayAutosaveTreeFiles.
Overlays ==
  /\ opening.stage = "overlay"
  /\ work' = work \cup auto.files
  /\ opening' = [opening EXCEPT !.stage = "copied"]
  /\ UNCHANGED <<kernelVars, calls, results, dirty, clearing, active,
                 canon, auto, removing, count, history>>

\* setActiveProjectDir, some awaits before the kernel is asked to load.
BecomesActive ==
  /\ opening.stage = "copied"
  /\ active' = TRUE
  /\ opening' = [opening EXCEPT !.stage = "active"]
  /\ UNCHANGED <<kernelVars, calls, results, dirty, clearing, diskVars, count, history>>

AsksToLoad ==
  /\ opening.stage = "active"
  /\ opening' = [opening EXCEPT !.stage = "asked"]
  /\ jobs' = Append(jobs, [ClearJob EXCEPT !.kind = "load"])
  /\ UNCHANGED <<tree, backed, cache, doing, calls, results, dirty, clearing, active,
                 diskVars, count, history>>

\* A restored project's .autosave is cleared; a restarted kernel's is kept.
OpenEnds ==
  /\ opening.stage = "loaded"
  /\ opening' = Idle
  /\ IF opening.restore /\ ~opening.restart /\ clearing = "no"
     THEN clearing' = "asked" /\ jobs' = Append(jobs, ClearJob)
     ELSE UNCHANGED <<clearing, jobs>>
  /\ UNCHANGED <<tree, backed, cache, doing, calls, results, dirty, active,
                 diskVars, count, history>>

KernelIsNew ==
  /\ tree' = Absent /\ backed' = TRUE /\ cache' = NoCache
  /\ jobs' = <<>> /\ doing' = None /\ stranded' = FALSE
  /\ count.restarts < MaxRestarts /\ Counted("restarts")

\* kernels:restart: requests are rejected while no kernel is attached, the
\* project is reloaded from its snapshot when there is one, and the results
\* pdv.save_project() left are not dropped.
KernelRestarts ==
  /\ active /\ opening = Idle
  /\ KernelIsNew
  /\ calls' = [i \in DOMAIN calls |->
                 [calls[i] EXCEPT !.stage = IF @ \in {"queued", "asked"} THEN "failed" ELSE @]]
  /\ clearing' = IF clearing = "asked" THEN "answered" ELSE clearing
  /\ opening' = [Idle EXCEPT !.stage = "copy", !.restart = TRUE,
                             !.restore = auto.index # None, !.chosen = Chosen(auto.index # None)]
  /\ UNCHANGED <<results, dirty, active, diskVars, unsettled, swept>>

\* The application dies; what is left is the disk.
ApplicationCrashes ==
  /\ KernelIsNew
  /\ calls' = <<>> /\ results' = None /\ dirty' = FALSE /\ clearing' = "no"
  /\ opening' = Idle /\ active' = FALSE /\ removing' = {} /\ work' = {}
  /\ UNCHANGED <<canon, auto, unsettled, swept>>

-----------------------------------------------------------------------------
UserStep ==
  \/ \E n \in Nodes : Edit(n)
  \/ BackingFileChanges
  \/ RunsSaveProject
  \/ \E kind \in {"save", "autosave"} : Ask(kind)
  \/ ClearBegins
  \/ \E restore \in BOOLEAN : OpenBegins(restore)
  \/ KernelRestarts
  \/ ApplicationCrashes

KernelStep == SerializesData \/ WritesIndex \/ SaveFails \/ ClearsCache \/ Loads

CallStep(i) ==
  \/ SaveStarts(i) \/ SaveGivesUp(i) \/ SaveIsRefused(i) \/ AutosaveEnds(i)
  \/ WritesCells(i) \/ WritesModules(i) \/ Commits(i)
  \/ WritesEnvironment(i)

ServerStep ==
  \/ \E i \in DOMAIN calls : CallStep(i)
  \/ \E what \in {"files", "index"} : Removes(what)
  \/ ClearGivesUp \/ ClearRemoves
  \/ CopiesForLoad \/ Overlays \/ BecomesActive \/ AsksToLoad \/ OpenEnds

Next == UserStep \/ KernelStep \/ ServerStep
Spec == InitSave /\ [][Next]_vars

-----------------------------------------------------------------------------
Files == SUBSET DataFile

\* The types of the variables.
TypeOK ==
  /\ tree \in [Nodes -> Version] /\ backed \in BOOLEAN
  /\ cache \in Descriptors /\ doing \in Collections \cup {None}
  /\ \A i \in DOMAIN jobs : jobs[i].kind \in {"save", "script", "clear", "load"}
  /\ \A i \in DOMAIN calls :
       /\ calls[i].kind \in {"save", "autosave"} /\ calls[i].seen \in [Nodes -> Version]
       /\ calls[i].failed \subseteq Nodes
       /\ calls[i].stage \in {"queued", "asked", "answered", "failed", "cells", "modules",
                              "committed"}
  /\ canon.files \in Files /\ auto.files \in Files /\ work \in Files
  /\ canon.index \in Indexes /\ auto.index \in Indexes \cup {None}
  /\ removing \subseteq {"files", "index"}
  /\ \A b \in {dirty, active, unsettled, stranded, swept} : b \in BOOLEAN

\* A project.json on disk stands for a finished save, whatever was interrupted
\* since: the index and code cells beside it are of that save or of a later one
\* (the commit gate of project:save).  The modules are not, see CommitHasModules.
CommitIsLast ==
  /\ canon.cells >= canon.manifest.call
  /\ canon.index.by >= canon.manifest.run

\* A snapshot can be restored: each file its index names is in .autosave or is
\* one the project's own index makes the load copy.  Excepted are a snapshot an
\* explicit save or a removal has touched since, one written while an explicit
\* save that ended without its index has left files behind, and one that
\* preserves descriptors of a snapshot excepted itself
\* (_verify_or_relocate_cached_file, _preserve_prior_descriptors,
\* overlayAutosaveTreeFiles).
SnapshotRestores ==
  auto.index # None /\ ~unsettled =>
    Named(auto.index) \subseteq auto.files \cup (canon.files \cap Named(canon.index))

\* Restoring, on opening a project or restarting a kernel, brings back every
\* node at least as the snapshot held it when it was chosen, unless a save or a
\* clear ran between the choice and the load.
RestoreIsFaithful ==
  opening.stage = "loaded" /\ ~opening.crossed =>
    \A n \in Nodes : tree[n] >= opening.chosen[n]

\* A save that skips a node it cannot serialize keeps the node's last good copy:
\* while a node is in the tree, no step takes its descriptor out of the
\* project's index or its file out of the project (_preserve_prior_descriptors,
\* _purge_orphaned_tree_files).
LastCopyIsKept ==
  [][ \A n \in Nodes :
        tree[n] # 0 /\ canon.index.at[n] \in canon.files
          => canon'.index.at[n] \in canon'.files ]_vars

\* When project:save reports success, the index on disk holds every node as
\* the tree had it when the user asked, or newer, but for the nodes the answer
\* lists as failed; results a cell left before the user asked are excepted.
SavedIsPersisted ==
  [][ \A i \in DOMAIN calls :
        calls[i].stage = "modules" /\ canon'.manifest.call = calls[i].id
          /\ canon.manifest.call # calls[i].id /\ calls[i].run > calls[i].since
        => \A n \in Nodes \ calls[i].failed :
             Versions(canon.index)[n] >= calls[i].seen[n] ]_vars

(* Refuted: what the documentation says and the code does not keep. *)

\* "tree-index.json never references a missing file": of a snapshot written
\* with nothing being removed, and not touched since.
IndexNeverDangles ==
  [][ auto'.index # auto.index /\ auto'.index # None /\ removing = {} =>
        Named(auto'.index) \subseteq auto'.files \cup (canon.files \cap Named(canon.index)) ]_vars

\* Once project.json is there, "every other persistent artifact of the save is
\* already on disk": the environment's files are, too (project:save).
CommitIsComplete == canon.env >= canon.manifest.call

\* The modules beside a project.json are of its save or of a later one.
CommitHasModules == canon.modules >= canon.manifest.call

\* An autosave that skips a node keeps the last good copy in the snapshot: a
\* node of the tree that the project holds is in the snapshot, too.
SnapshotPreserves ==
  [][ auto'.index # auto.index /\ auto'.index # None =>
        \A n \in Nodes : tree[n] # 0 /\ canon.index.at[n] # None
                          => auto'.index.at[n] # None ]_vars

\* An autosave that answers {saved: true} has saved the tree it was asked for,
\* so that the idle policy may stop the session.
AutosavedIsPersisted ==
  [][ \A i \in DOMAIN calls :
        AutosaveEnds(i) /\ ~unsettled
          => \A n \in Nodes \ calls[i].failed :
               Versions(auto.index)[n] >= calls[i].seen[n] ]_vars

\* Results an abandoned pdv.save_project() left do not survive into the
\* session of another kernel.
ResultsDieWithTheirKernel == results # None => results.session = count.restarts

\* A restore brings back what the snapshot held, whatever else runs meanwhile.
RestoreIsUndisturbed ==
  opening.stage = "loaded" => \A n \in Nodes : tree[n] >= opening.chosen[n]
====
