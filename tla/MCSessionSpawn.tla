--------------------------- MODULE MCSessionSpawn ---------------------------
(***************************************************************************)
(* TLC instance of SessionSpawn.  Faults names what may go wrong in a run: *)
(* "kill" (of attach processes), "daemon" (deaths and shutdowns) and       *)
(* "recycle" (of pids).                                                    *)
(***************************************************************************)
EXTENDS SessionSpawn

CONSTANTS
  Faults,         \* which faults may happen
  p1, p2, p3,     \* attach processes
  n1, n2          \* nodes

OneNode == [p \in Attachers |-> n1]
FarApart == [p \in Attachers |-> IF p = p1 THEN n1 ELSE n2]

MCNext ==
  \/ \E p \in Attachers :
       \/ Begin(p) \/ AttachStep(p) \/ WaitExpires(p) \/ StartStep(p)
       \/ "kill" \in Faults /\ End(p)
       \/ "recycle" \in Faults /\ Recycle(p)
       \/ "daemon" \in Faults /\ (StopListening(p) \/ FinishClosing(p) \/ DaemonDies(p))
  \/ HeartbeatAges
  \/ \E n \in Nodes : Reboot(n)

MCSpec == Init /\ [][MCNext]_spawnVars
MCFairSpec == MCSpec /\ AttachersRun
=============================================================================
