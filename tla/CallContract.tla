---------------------------- MODULE CallContract ----------------------------
(***************************************************************************)
(* What a remote session promises the callers of RemoteServerHandle.invoke,*)
(* with no channel, connection or reattach in sight: a call is owned until *)
(* it settles, once; its handler runs at most once if it mutates; and a    *)
(* result is only ever the result of that call's own handler.              *)
(*                                                                         *)
(* A call may fail, or be reported lost, while its handler runs or after   *)
(* it finished: the session promises no more than that.                    *)
(***************************************************************************)
EXTENDS Integers

CONSTANTS
  Calls,   \* the calls that may be made
  Unsafe   \* those that may not be run twice

VARIABLES
  owned,  \* per call: "new", "owned", or how it settled: "ok", "failed", "lost"
  ran,    \* per call: how often its handler was started
  done    \* the calls some handler finished

contractVars == <<owned, ran, done>>

Init ==
  /\ owned = [i \in Calls |-> "new"]
  /\ ran = [i \in Calls |-> 0]
  /\ done = {}

(* How one call's promise may go on: it is made, and may be refused at     *)
(* once; an owned one settles; only an unsafe one can be lost.             *)
MayBecome(i, how) ==
  \/ how = owned[i]
  \/ owned[i] = "new" /\ how \in {"owned", "failed"}
  \/ owned[i] = "owned" /\ how = "ok" /\ i \in done
  \/ owned[i] = "owned" /\ how = "failed"
  \/ owned[i] = "owned" /\ how = "lost" /\ i \in Unsafe

(* The promises move; one event may settle several.                        *)
Promise ==
  /\ \E after \in [Calls -> {"new", "owned", "ok", "failed", "lost"}] :
       /\ \A i \in Calls : MayBecome(i, after[i])
       /\ owned' = after
  /\ UNCHANGED <<ran, done>>

(* The handler of a call that was made starts.                             *)
Run(i) ==
  /\ owned[i] # "new"
  /\ i \in Unsafe => ran[i] = 0
  /\ ran' = [ran EXCEPT ![i] = @ + 1]
  /\ UNCHANGED <<owned, done>>

Complete(i) ==
  /\ ran[i] > 0
  /\ done' = done \cup {i}
  /\ UNCHANGED <<owned, ran>>

Next == Promise \/ \E i \in Calls : Run(i) \/ Complete(i)

Spec == Init /\ [][Next]_contractVars
=============================================================================
