--------------------------- MODULE MCShellSessions ---------------------------
(* Three kinds of behaviour: overlapping session calls with faults, confirm *)
(* dialogs across swaps, and connect() calls of two hosts.                  *)
EXTENDS ShellSessions

Budget(calls, deaths, drops, confirms, connects) ==
  [calls |-> calls, deaths |-> deaths, drops |-> drops, confirms |-> confirms, connects |-> connects]

MCBudgets == {Budget(3, 1, 1, 0, 1), Budget(2, 2, 0, 0, 1), Budget(2, 1, 0, 2, 1),
              Budget(1, 1, 0, 0, 2)}
=============================================================================
