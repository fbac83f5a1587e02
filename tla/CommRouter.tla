----------------------------- MODULE CommRouter -----------------------------
(***************************************************************************)
(* The comm router and the query router: which kernel of the session they  *)
(* are attached to, and the requests the comm router owes an answer.       *)
(*                                                                         *)
(* A request is sent through the shell queue of its kernel, handled there, *)
(* and answered on iopub, where the router finds it by the id it answers.  *)
(* The promise settles on that, on a timeout, which progress pushes put    *)
(* off, or when the router is detached, whatever becomes of the message.   *)
(***************************************************************************)
EXTENDS KernelManager

CONSTANTS
  Requests,   \* the calls of CommRouter.request()
  KeepAlives  \* those with a keepAlivePushType

VARIABLES
  router,       \* the kernel the comm router is subscribed to, or NoKernel
  queryRouter,  \* the kernel the query router asks, or NoKernel
  promise,      \* per request: "new", "pending", "ok", "failed"
  timer,        \* per request: "off", "first", "renewed"
  message,      \* per request: its kernel and where the message is
  taken         \* history: how often a kernel began to handle it

promiseVars == <<promise, timer>>
messageVars == <<message, taken>>
routerVars == <<router, queryRouter, promiseVars, messageVars>>

InitRouter ==
  /\ router = NoKernel /\ queryRouter = NoKernel
  /\ promise = [r \in Requests |-> "new"]
  /\ timer = [r \in Requests |-> "off"]
  /\ message = [r \in Requests |-> [kernel |-> NoKernel, at |-> "nowhere"]]
  /\ taken = [r \in Requests |-> 0]

Pending == {r \in Requests : promise[r] = "pending"}
Moved(r, at) == [message EXCEPT ![r].at = at]

(* The promises in R settle, and their timers are cleared.                 *)
Settle(R, how) ==
  /\ promise' = [r \in Requests |-> IF r \in R THEN how ELSE promise[r]]
  /\ timer' = [r \in Requests |-> IF r \in R THEN "off" ELSE timer[r]]

(* attach() and detach() reject all that is pending.                       *)
RouteTo(k) == router' = k /\ Settle(Pending, "failed")
Detach == RouteTo(NoKernel) /\ queryRouter' = NoKernel
KeepRouting == UNCHANGED <<router, queryRouter, promiseVars>>

----------------------------------------------------------------------------
(* request(): at once refused when no kernel is attached.                  *)
Request(r) ==
  /\ promise[r] = "new"
  /\ IF router = NoKernel
     THEN promise' = [promise EXCEPT ![r] = "failed"] /\ UNCHANGED <<timer, message>>
     ELSE /\ promise' = [promise EXCEPT ![r] = "pending"]
          /\ timer' = [timer EXCEPT ![r] = "first"]
          /\ message' = [message EXCEPT ![r] = [kernel |-> router, at |-> "queue"]]
  /\ UNCHANGED <<router, queryRouter, taken>>

(* The message's turn in the shell queue comes and its kernel takes it, or *)
(* the manager has no kernel or no socket to send it to.                   *)
KernelTakes(r) ==
  /\ message[r].at = "queue" /\ proc[message[r].kernel] = "up"
  /\ message' = Moved(r, "kernel")
  /\ taken' = [taken EXCEPT ![r] = @ + 1]
  /\ KeepRouting

SendFails(r) ==
  /\ message[r].at = "queue" /\ ~Heard(message[r].kernel)
  /\ message' = Moved(r, "over")
  /\ Settle({r} \cap Pending, "failed")
  /\ UNCHANGED <<router, queryRouter, taken>>

KernelAnswers(r) ==
  /\ message[r].at = "kernel" /\ proc[message[r].kernel] = "up"
  /\ message' = Moved(r, "iopub")
  /\ UNCHANGED taken /\ KeepRouting

(* Whom an answer settles: _dispatchResponse finds it by the id.           *)
(* Mutant: any request will do.                                            *)
AnsweredBySome(r) == Pending

AnsweredBy(r) == {r} \cap Pending

(* The iopub loop dispatches the answer, to the router if it is subscribed *)
(* to that kernel.  An error, or an incompatible version, rejects.         *)
RouterHears(r, how) ==
  /\ message[r].at = "iopub" /\ Heard(message[r].kernel)
  /\ message' = Moved(r, "over")
  /\ IF router = message[r].kernel
     THEN Settle(AnsweredBy(r), how)
     ELSE UNCHANGED promiseVars
  /\ UNCHANGED <<router, queryRouter, taken>>

(* A progress push: the handler clears the timer and makes a new one.      *)
(* Mutant: it only clears it.                                              *)
AfterProgressNone == "off"

AfterProgress == "renewed"

HearsProgress(r) ==
  /\ message[r].at = "kernel" /\ Heard(message[r].kernel)
  /\ router = message[r].kernel
  /\ \E s \in KeepAlives : promise[s] = "pending" /\ timer[s] = "first"
  /\ timer' = [s \in Requests |->
       IF s \in KeepAlives /\ promise[s] = "pending" THEN AfterProgress ELSE timer[s]]
  /\ UNCHANGED <<router, queryRouter, promise, messageVars>>

RequestTimesOut(r) ==
  /\ timer[r] # "off"
  /\ Settle({r}, "failed")
  /\ UNCHANGED <<router, queryRouter, messageVars>>

RouterStep ==
  \E r \in Requests :
    \/ Request(r) \/ KernelTakes(r) \/ SendFails(r) \/ KernelAnswers(r)
    \/ \E how \in {"ok", "failed"} : RouterHears(r, how)
    \/ HearsProgress(r) \/ RequestTimesOut(r)
=============================================================================
