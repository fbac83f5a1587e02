--------------------------- MODULE LocalSupervisor ---------------------------
(***************************************************************************)
(* The supervisor of a pdv-server that runs as a child process: its phase, *)
(* the child it fronts, start() with its one retry, shutdown(), and what   *)
(* the exit of a child means.  start() and shutdown() may overlap, so each *)
(* operator maps the supervisors and their processes to what they become,  *)
(* and one event can be several of them in a row.                          *)
(*                                                                         *)
(* A process is up once it has said hello.  SIGKILL ends one at once; the  *)
(* exit event of a child its supervisor has let go of changes nothing.     *)
(* A session daemon is a process of the supervisor 0.                      *)
(***************************************************************************)
EXTENDS Naturals, Sequences

CONSTANTS
  MaxServers,  \* bound: supervisors made
  MaxProcs     \* bound: processes spawned, daemons included

ASSUME SupervisorAssumption == {MaxServers, MaxProcs} \subseteq Nat \ {0}

Servers == 1 .. MaxServers
Procs == 1 .. MaxProcs

\* A supervisor: its phase and child; whether a startAttempt waits for hello,
\* and which of the two it is; the child a shutdown() waits for; and its dialog
\* on screen, "crashed" or "failed" to restart.
NewServer == [phase |-> "stopped", child |-> 0, awaiting |-> FALSE, tries |-> 0,
              ending |-> 0, dialog |-> "none"]
Process(state, s) == [state |-> state, of |-> s, told |-> FALSE, asked |-> <<>>]
NewProc == Process("none", 0)

VARIABLE local   \* the supervisors and the processes

Alive(w, p) == p # 0 /\ w.proc[p].state \in {"booting", "up"}
NextProc(w) == {p \in Procs : w.proc[p].state = "none"
                              /\ \A q \in Procs : q < p => w.proc[q].state # "none"}

\* The shell's confirm requests that never get an answer settle as cancelled.
CancelAll(asked) ==
  [n \in DOMAIN asked |-> IF asked[n].state = "pending" THEN [asked[n] EXCEPT !.state = "cancelled"]
                          ELSE asked[n]]
Gone(w, p) ==
  IF Alive(w, p)
  THEN [w EXCEPT !.proc[p] = [@ EXCEPT !.state = "gone", !.asked = CancelAll(w.proc[p].asked)]]
  ELSE w
Told(w, p) == [w EXCEPT !.proc[p].told = TRUE]
Spawned(w, p, s) == [w EXCEPT !.proc[p] = Process("booting", s)]

\* SIGKILL is what keeps a server that missed its hello from living on.
LetGo(w, s) == [w EXCEPT !.server[s] = [@ EXCEPT !.phase = "stopped", !.child = 0]]
DisposedAlive(w, s) == LetGo(w, s)
Disposed(w, s) == LetGo(Gone(w, w.server[s].child), s)

StartAttempt(w, s, p) ==
  [Spawned(w, p, s) EXCEPT !.server[s] =
     [@ EXCEPT !.phase = "starting", !.child = p, !.awaiting = TRUE, !.tries = w.server[s].tries + 1]]

\* The hello wait ends badly: one more attempt, then start() rejects.
HelloLost(w, s, p) ==
  LET d == Disposed(w, s)
  IN  IF w.server[s].tries = 1 THEN StartAttempt(d, s, p)
      ELSE [d EXCEPT !.server[s] = [@ EXCEPT !.awaiting = FALSE, !.tries = 0]]

\* The phase is set whatever it was: shutdown() may have set it meanwhile.
Serves(w, s) ==
  [w EXCEPT !.server[s] = [@ EXCEPT !.phase = "running", !.awaiting = FALSE, !.tries = 0],
            !.proc[w.server[s].child].state = "up"]

\* shutdown() of a server that is stopped or stopping returns at once.
BeginsShutdown(w, s) ==
  IF w.server[s].phase \in {"stopped", "stopping"} THEN w
  ELSE [Told(w, w.server[s].child) EXCEPT
          !.server[s] = [@ EXCEPT !.phase = "stopping", !.ending = w.server[s].child]]

\* Its last line disposes of the child there is by then, and a hello wait
\* that was for that child ends with it.
EndsShutdown(w, s) ==
  [Disposed(w, s) EXCEPT
     !.server[s] = [@ EXCEPT !.ending = 0, !.awaiting = FALSE, !.tries = 0]]

\* The exit of the current child: a crash while running, the failure of the
\* hello wait while starting, the end of the shutdown that waits for it.  All
\* of it happens before another event: a retry is spawned and disposed of.
Exits(w, s, p) ==
  LET server == w.server[s]
      gone == Gone(w, server.child)
      after == IF server.phase = "running"
               THEN [Disposed(gone, s) EXCEPT !.server[s].dialog = "crashed"]
               ELSE IF server.awaiting THEN HelloLost(gone, s, p)
               ELSE gone
  IN  IF server.ending = server.child THEN EndsShutdown(after, s) ELSE after
=============================================================================
