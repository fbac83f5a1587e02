-------------------------- MODULE MCKernelSession --------------------------
(***************************************************************************)
(* TLC instance of KernelSession.  Executions, queries, requests and what  *)
(* concerns agents do not touch each other's state: a behaviour has one    *)
(* kind of them, and any lifecycle calls.  Interrupts come with requests   *)
(* only, and before an agent.                                              *)
(***************************************************************************)
EXTENDS KernelSession

CONSTANT CallsBesideWork  \* bound: lifecycle calls where there is work, too

Executes == \E x \in Execs : exec[x].state # "new"
Queried == \E q \in Queries : query[q] # "new"
Requested == \E r \in Requests : promise[r] # "new"
Interrupted == signalled # {}
MayWork ==
  mcp = NoAgent /\ \A c \in Calls : c > CallsBesideWork => call[c].at = "new"

MCNext ==
  \/ \E c \in Calls :
       \/ /\ c <= CallsBesideWork \/ ~(Executes \/ Queried \/ Requested)
          /\ \E kind \in {"start", "stop", "restart"}, k \in Kernels \cup {NoKernel} :
               IsCalled(c, kind, k)
       \/ HandlerStep(c)
  \/ \E k \in Kernels : Exits(k)
  \/ ~(Executes \/ Queried \/ Requested) /\ \E full \in BOOLEAN : ResetsSession(full)
  \/ ~(Executes \/ Queried \/ Requested \/ Interrupted) /\ AgentConnects
  \/ ~(Executes \/ Queried \/ Interrupted) /\ mcp = NoAgent
     /\ Interrupts /\ UNCHANGED <<routerVars, lifeVars>>
  \/ MayWork /\ ~(Queried \/ Requested \/ Interrupted) /\ ExecStep /\ UNCHANGED <<routerVars, lifeVars>>
  \/ MayWork /\ ~(Executes \/ Requested \/ Interrupted) /\ QueryStep /\ UNCHANGED <<routerVars, lifeVars>>
  \/ MayWork /\ ~(Executes \/ Queried) /\ RouterStep /\ UNCHANGED <<managerVars, lifeVars>>

MCSpec == Init /\ [][MCNext]_sessionVars
MCFairSpec == MCSpec /\ HandlersGoOn /\ TimersFire
=============================================================================
