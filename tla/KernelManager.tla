--------------------------- MODULE KernelManager ---------------------------
(***************************************************************************)
(* The kernel processes of a session and what runs on them: the map of     *)
(* kernels the manager hosts, the process exits, the executions that wait  *)
(* for the kernel's idle status or for its crash, and the query channel,   *)
(* a request-reply socket behind a queue.                                  *)
(*                                                                         *)
(* The actions are conjuncts of KernelSession's.  Kernels are numbered in  *)
(* the order they are spawned.  The iopub loop, which stops once the       *)
(* kernel is being shut down, is the guard "Heard".                        *)
(***************************************************************************)
EXTENDS Integers, Sequences

CONSTANTS
  MaxKernels,  \* bound: kernels spawned
  Execs,       \* the calls of execute()
  Queries      \* the calls of sendQueryRequest()

Kernels == 1 .. MaxKernels
NoKernel == 0

VARIABLES
  proc,       \* per kernel: "none", "fresh" (spawned, not listened to yet),
              \* "booting", "up", "gone", or "lost": it exited while fresh
  hosted,     \* the kernels in the manager's map
  stopping,   \* those whose shuttingDown is set
  signalled,  \* those whose process.killed is set, by a signal of interrupt()
  exec,       \* per execution: its kernel, how it stands, and its crash listener
  query,      \* per query: "new", "queued", "sent", "recreating", "answered",
              \* "failed"
  queryQueue, \* per kernel: its queries, the first one using the socket
  socket      \* per kernel: "ready", "awaiting" a reply, or "closed"

execVars == <<exec>>
queryVars == <<query, queryQueue, socket>>
processVars == <<proc, hosted, stopping, signalled>>
managerVars == <<processVars, execVars, queryVars>>

InitManager ==
  /\ proc = [k \in Kernels |-> "none"]
  /\ hosted = {} /\ stopping = {} /\ signalled = {}
  /\ exec = [x \in Execs |-> [kernel |-> NoKernel, state |-> "new", armed |-> FALSE]]
  /\ query = [q \in Queries |-> "new"]
  /\ queryQueue = [k \in Kernels |-> <<>>]
  /\ socket = [k \in Kernels |-> "closed"]

Living == {k \in Kernels : proc[k] \in {"fresh", "booting", "up"}}
Heard(k) == k \in hosted \ stopping

(* A client may know the kernel: it is, or was, in what list() returns.    *)
Known(k) == k \in hosted \/ proc[k] \in {"booting", "up", "gone"}

----------------------------------------------------------------------------
(* start(): the process is spawned, and the sockets are connected; only    *)
(* then is it put into the map and its exit listened to.  Nobody knows yet *)
(* whether it will ever be ready.                                          *)
Spawn(k) ==
  /\ proc[k] = "none" /\ \A j \in Kernels : j < k => proc[j] # "none"
  /\ proc' = [proc EXCEPT ![k] = "fresh"]
  /\ UNCHANGED <<hosted, stopping, signalled, exec, queryVars>>

Lists(k) ==
  /\ proc[k] \in {"fresh", "lost"} /\ k \notin hosted
  /\ proc' = [proc EXCEPT ![k] = IF @ = "fresh" THEN "booting" ELSE "lost"]
  /\ hosted' = hosted \cup {k}
  /\ socket' = [socket EXCEPT ![k] = "ready"]
  /\ UNCHANGED <<stopping, signalled, exec, query, queryQueue>>

(* waitForKernelReady() is over: the kernel reported idle.                 *)
BecomesReady(k) ==
  /\ proc[k] = "booting"
  /\ proc' = [proc EXCEPT ![k] = "up"]
  /\ UNCHANGED <<hosted, stopping, signalled, exec, queryVars>>

(* The listeners of "kernel:crashed" that execute() left.  Each is taken   *)
(* off by the first crash there is, but heeds its own kernel's only.       *)
Running(x) == exec[x].state = "running"
Settled(x) == [exec[x] EXCEPT !.state = "settled", !.armed = FALSE]

(* Mutant: a crash settles nothing.                                        *)
HeardCrashNone(k) == exec

HeardCrash(k) ==
  [x \in Execs |->
     IF ~Running(x) \/ ~exec[x].armed THEN exec[x]
     ELSE IF exec[x].kernel = k THEN Settled(x)
     ELSE [exec[x] EXCEPT !.armed = FALSE]]

(* The process exits.  Only one that is listened to, and that nobody is    *)
(* stopping, counts as crashed.                                            *)
Crashes(k) == k \in hosted \ stopping

ProcessExits(k) ==
  /\ k \in Living
  /\ proc' = [proc EXCEPT ![k] = IF @ = "fresh" THEN "lost" ELSE "gone"]
  /\ exec' = IF Crashes(k) THEN HeardCrash(k) ELSE exec
  /\ UNCHANGED <<hosted, stopping, signalled, queryVars>>

(* interrupt(): a SIGINT.  That it was sent is what process.killed says.   *)
Interrupt(k) ==
  /\ k \in hosted \cap Living
  /\ signalled' = signalled \cup {k}
  /\ UNCHANGED <<proc, hosted, stopping, exec, queryVars>>

(* stop(): the flag that ends the iopub loop, and in the end, three        *)
(* seconds later at most, closed sockets and a process that is killed.     *)
(* One that was signalled before is neither waited for nor killed.         *)
BeginStop(k) ==
  /\ k \in hosted
  /\ stopping' = stopping \cup {k}
  /\ UNCHANGED <<proc, hosted, signalled, exec, queryVars>>

EndStop(k) ==
  /\ k \in stopping \cap hosted
  /\ proc' = [proc EXCEPT ![k] = IF k \in Living \cap signalled THEN @ ELSE "gone"]
  /\ hosted' = hosted \ {k}
  /\ socket' = [socket EXCEPT ![k] = "closed"]
  /\ UNCHANGED <<stopping, signalled, exec, query, queryQueue>>

----------------------------------------------------------------------------
(* execute(): refused at once if the kernel is not in the map or dead.     *)
Execute(x, k) ==
  /\ exec[x].state = "new" /\ Known(k)
  /\ exec' = [exec EXCEPT ![x] =
       IF k \in hosted /\ proc[k] # "gone"
       THEN [kernel |-> k, state |-> "running", armed |-> TRUE]
       ELSE [kernel |-> k, state |-> "settled", armed |-> FALSE]]
  /\ UNCHANGED <<processVars, queryVars>>

(* The idle status with this execution's parent, or a send that failed.    *)
ExecutionEnds(x) ==
  /\ Running(x) /\ Heard(exec[x].kernel)
  /\ exec' = [exec EXCEPT ![x] = Settled(x)]
  /\ UNCHANGED <<processVars, queryVars>>

----------------------------------------------------------------------------
(* sendQueryRequest(): one query at a time has the socket, which wants     *)
(* send and receive in turn.                                               *)
Ask(q, k) ==
  /\ query[q] = "new" /\ k \in hosted
  /\ query' = [query EXCEPT ![q] = "queued"]
  /\ queryQueue' = [queryQueue EXCEPT ![k] = Append(@, q)]
  /\ UNCHANGED <<processVars, exec, socket>>

AtHead(q, k) == queryQueue[k] # <<>> /\ Head(queryQueue[k]) = q

QuerySends(q, k) ==
  /\ AtHead(q, k) /\ query[q] = "queued" /\ socket[k] = "ready"
  /\ query' = [query EXCEPT ![q] = "sent"]
  /\ socket' = [socket EXCEPT ![k] = "awaiting"]
  /\ UNCHANGED <<processVars, exec, queryQueue>>

QueryAnswered(q, k) ==
  /\ AtHead(q, k) /\ query[q] = "sent" /\ socket[k] = "awaiting" /\ proc[k] = "up"
  /\ query' = [query EXCEPT ![q] = "answered"]
  /\ queryQueue' = [queryQueue EXCEPT ![k] = Tail(@)]
  /\ socket' = [socket EXCEPT ![k] = "ready"]
  /\ UNCHANGED <<processVars, exec>>

(* The receive timeout, or a send that the socket refuses.  Unless the     *)
(* kernel is being stopped, the socket is closed and connected anew.       *)
(* Mutant: the socket that still awaits a reply is kept.                   *)
SocketIsKeptAlways(k) == TRUE

SocketIsKept(k) == k \in stopping

QueryBreaks(q, k) ==
  /\ AtHead(q, k)
  /\ query[q] = "sent" \/ (query[q] = "queued" /\ socket[k] # "ready")
  /\ IF SocketIsKept(k)
     THEN /\ query' = [query EXCEPT ![q] = "failed"]
          /\ queryQueue' = [queryQueue EXCEPT ![k] = Tail(@)]
          /\ UNCHANGED socket
     ELSE /\ query' = [query EXCEPT ![q] = "recreating"]
          /\ socket' = [socket EXCEPT ![k] = "closed"]
          /\ UNCHANGED queryQueue
  /\ UNCHANGED <<processVars, exec>>

(* recreateQuerySocket() is over; it may have failed.                      *)
QueryRecovers(q, k) ==
  /\ AtHead(q, k) /\ query[q] = "recreating"
  /\ query' = [query EXCEPT ![q] = "failed"]
  /\ queryQueue' = [queryQueue EXCEPT ![k] = Tail(@)]
  /\ \E s \in {"ready", "closed"} : socket' = [socket EXCEPT ![k] = s]
  /\ UNCHANGED <<processVars, exec>>

(* One query's turn in the queue of its kernel.                            *)
QueryTurn(q, k) ==
  QuerySends(q, k) \/ QueryAnswered(q, k) \/ QueryBreaks(q, k) \/ QueryRecovers(q, k)
=============================================================================
