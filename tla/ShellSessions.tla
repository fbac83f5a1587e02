---------------------------- MODULE ShellSessions ----------------------------
(***************************************************************************)
(* Which server the window talks to.  The router fronts a local supervisor *)
(* or a remote handle; "run session here", "disconnect" and "shut down"    *)
(* are calls that stand still while a server starts, a channel attaches or *)
(* an ssh process stops, and each acts on what it finds when it goes on.   *)
(* Composed of the ssh connection manager (RemoteConnection), the local    *)
(* servers (LocalSupervisor), the remote handles and one session daemon,   *)
(* with the confirm dialogs a server opens through the handle that fronts  *)
(* it.  The window stays open throughout.                                  *)
(***************************************************************************)
EXTENDS RemoteConnection, LocalSupervisor, FiniteSets

CONSTANTS
  MaxCalls,  \* bound: calls of the three kinds
  Budgets    \* bound: how many faults, confirms and connects a behaviour has

ASSUME ShellAssumption ==
  /\ MaxCalls \in Nat /\ MaxServers = MaxCalls + 1
  /\ \A b \in Budgets : \A k \in {"calls", "deaths", "drops", "confirms", "connects"} : b[k] \in Nat

Calls == 1 .. MaxCalls
Handles == Calls

VARIABLES
  router,   \* the handle the window is wired to
  handle,   \* per remote handle: its connection state
  daemon,   \* the process of the session daemon, 0 for none
  call,     \* per call: what it is and where it stands
  dialogs,  \* confirm dialogs on screen: who asked, through which handle
  left,     \* what is left of the budget
  past      \* history: the mishaps that happened, by name

sessionVars == <<router, handle, daemon, call, dialogs, left, past>>
vars == <<local, connectionVars, sessionVars>>

Local(s) == [kind |-> "local", id |-> s]
Remote(h) == [kind |-> "remote", id |-> h]
NewCall == [kind |-> "none", at |-> "new", retried |-> 0]

Init ==
  /\ InitConnection
  /\ local = [server |-> [s \in Servers |-> IF s = 1 THEN [NewServer EXCEPT !.phase = "running", !.child = 1]
                                            ELSE NewServer],
              proc |-> [p \in Procs |-> IF p = 1 THEN Process("up", 1) ELSE NewProc]]
  /\ router = Local(1)
  /\ handle = [h \in Handles |-> "none"]
  /\ daemon = 0
  /\ call = [o \in Calls |-> NewCall]
  /\ dialogs = {}
  /\ left \in Budgets
  /\ past = {}

Spends(k) == left[k] > 0 /\ left' = [left EXCEPT ![k] = @ - 1]
At(o, kind, at) == call[o].kind = kind /\ call[o].at = at
Over(calls, o) == [calls EXCEPT ![o].at = "over"]
FreeCall(o) == call[o].kind = "none" /\ \A b \in Calls : b < o => call[b].kind # "none"
\* A call makes at most one supervisor, or one handle: they go by its number.
ServerOf(o) == o + 1
Starters(s) == {o \in Calls : call[o].at = "spawning" /\ s = ServerOf(o)}

-----------------------------------------------------------------------------
(* The session daemon and its channels.                                    *)

\* One client at a time: attaching ends every other one for good.
AttachedAs(hs, h) ==
  [g \in Handles |-> IF g = h THEN "connected" ELSE IF hs[g] = "connected" THEN "superseded" ELSE hs[g]]
Closed(hs, h) == [hs EXCEPT ![h] = "closed"]
Lost(hs) == [g \in Handles |-> IF hs[g] = "connected" THEN "lost" ELSE hs[g]]

\* attach --create: whoever attaches brings the daemon back if it is gone.
Reachable == IF Alive(local, daemon) THEN {daemon} ELSE NextProc(local)
WithDaemon(d) ==
  IF d = daemon THEN local ELSE [local EXCEPT !.proc[d] = Process("up", 0)]

\* A resumed channel may be sent the pending requests again.
AskedAgain(h) ==
  {{}, IF router = Remote(h) /\ Alive(local, daemon)
       THEN {[of |-> Remote(h), asker |-> daemon, n |-> n] :
               n \in {i \in DOMAIN local.proc[daemon].asked : local.proc[daemon].asked[i].state = "pending"}}
       ELSE {}}

\* A dead process leaves its dialogs on screen: those of the handle the window
\* is on may yet be answered to what comes after it.
Outlived(p) == IF \E d \in dialogs : d.asker = p /\ d.of = router THEN {"outlived"} ELSE {}

ChannelDrops ==
  /\ \E h \in Handles : handle[h] = "connected"
  /\ Spends("drops") /\ handle' = Lost(handle)
  /\ UNCHANGED <<local, connectionVars, router, daemon, call, dialogs, past>>

Reattaches(h) ==
  /\ handle[h] = "lost"
  /\ handle' = AttachedAs(handle, h)
  /\ \E d \in Reachable : local' = WithDaemon(d) /\ daemon' = d
  /\ \E again \in AskedAgain(h) : dialogs' = dialogs \cup again
  /\ UNCHANGED <<connectionVars, router, call, left, past>>

GivesUp(h) ==
  /\ handle[h] = "lost"
  /\ handle' = [handle EXCEPT ![h] = "auth-required"]
  /\ UNCHANGED <<local, connectionVars, router, daemon, call, dialogs, left, past>>

\* Told to, by its idle policy, or by a crash.
DaemonEnds ==
  /\ Alive(local, daemon)
  /\ IF local.proc[daemon].told THEN UNCHANGED left ELSE Spends("deaths")
  /\ past' = past \cup Outlived(daemon)
  /\ local' = Gone(local, daemon)
  /\ handle' = Lost(handle)
  /\ UNCHANGED <<connectionVars, router, daemon, call, dialogs>>

-----------------------------------------------------------------------------
(* Swapping the window.                                                    *)

\* remote shutdown() can tell the daemon only over a live channel.
TellsDaemon(w, h) == IF handle[h] = "connected" /\ Alive(w, daemon) THEN Told(w, daemon) ELSE w

\* What router.swap(next) hands back for the caller to close.
PreviousReadLate(next) == next
Previous(next) == router

\* "Run session here" swaps, then closes what it swapped away: a dead remote
\* handle is let go of, a local server shut down.
MovesTo(w, hs, h) ==
  LET previous == Previous(Remote(h)) IN
  /\ router' = Remote(h)
  /\ IF previous.kind = "remote"
     THEN handle' = Closed(hs, previous.id) /\ local' = w
     ELSE handle' = hs /\ local' = BeginsShutdown(w, previous.id)

\* The server a disconnect or a "shut down" waited for said hello: the window
\* swaps onto it and the call closes what it swapped away, but a disconnect
\* that swapped away another local server leaves it alone.
ComesBackTo(w, s, o) ==
  LET previous == Previous(Local(s)) IN
  /\ router' = Local(s)
  /\ IF call[o].kind = "disconnect"
     THEN /\ BeginLeave /\ local' = w
          /\ call' = [call EXCEPT ![o].at = "leaving"]
          /\ IF previous.kind = "remote" THEN handle' = Closed(handle, previous.id) /\ UNCHANGED past
             ELSE past' = past \cup {"forgot"} /\ UNCHANGED handle
     ELSE /\ UNCHANGED <<connectionVars, past>> /\ call' = Over(call, o)
          /\ IF previous.kind = "remote"
             THEN local' = TellsDaemon(w, previous.id) /\ handle' = Closed(handle, previous.id)
             ELSE local' = BeginsShutdown(w, previous.id) /\ UNCHANGED handle

-----------------------------------------------------------------------------
(* Local servers: hello, its failure, exits, the crash dialog.             *)

SaysHello(s) ==
  /\ local.server[s].awaiting /\ Alive(local, local.server[s].child)
  /\ LET w == Serves(local, s) IN
       \/ /\ Starters(s) = {} /\ local' = w
          /\ UNCHANGED <<connectionVars, router, handle, call, past>>
       \/ \E o \in Starters(s) : ComesBackTo(w, s, o)
  /\ UNCHANGED <<daemon, dialogs, left>>

\* If start() rejects, the call it was made for is over; a restart that fails
\* says so in a dialog whose only button quits the application.
Becomes(w, s) ==
  LET rejects == local.server[s].awaiting /\ ~w.server[s].awaiting IN
  /\ local' = IF rejects /\ Starters(s) = {} THEN [w EXCEPT !.server[s].dialog = "failed"] ELSE w
  /\ call' = [o \in Calls |-> IF rejects /\ o \in Starters(s) THEN [call[o] EXCEPT !.at = "over"]
                              ELSE call[o]]

\* The hello is late or of another version.
HelloFails(s) ==
  /\ local.server[s].awaiting /\ Alive(local, local.server[s].child)
  /\ Spends("deaths")
  /\ \E p \in NextProc(local) : Becomes(HelloLost(local, s, p), s)
  /\ UNCHANGED <<connectionVars, router, handle, daemon, dialogs, past>>

\* The child exits: told to, killed by the shutdown that waits, or crashed.
ChildExits(s) ==
  LET p == local.server[s].child IN
  /\ Alive(local, p)
  /\ IF local.proc[p].told THEN UNCHANGED left ELSE Spends("deaths")
  /\ past' = past \cup Outlived(p)
  /\ \E q \in NextProc(local) : Becomes(Exits(local, s, q), s)
  /\ UNCHANGED <<connectionVars, router, handle, daemon, dialogs>>

\* The exit event a shutdown() waits for comes after its child was let go of.
ShutdownEnds(s) ==
  /\ local.server[s].ending # 0 /\ ~Alive(local, local.server[s].ending)
  /\ Becomes(EndsShutdown(local, s), s)
  /\ UNCHANGED <<connectionVars, router, handle, daemon, dialogs, left, past>>

Restart(s) ==
  /\ local.server[s].dialog = "crashed"
  /\ \E p \in NextProc(local) :
       local' = [StartAttempt(local, s, p) EXCEPT !.server[s].dialog = "none"]
  /\ past' = past \cup (IF router = Local(s) THEN {} ELSE {"restarted"})
  /\ UNCHANGED <<connectionVars, router, handle, daemon, call, dialogs, left>>

-----------------------------------------------------------------------------
(* "Run session here".                                                     *)

AsksToStart(o) ==
  /\ FreeCall(o) /\ UsableControl # NoHost /\ Spends("calls")
  /\ call' = [call EXCEPT ![o] = [NewCall EXCEPT !.kind = "start", !.at = "shipping"]]
  /\ UNCHANGED <<local, connectionVars, router, handle, daemon, dialogs, past>>

CannotShip(o) ==
  /\ At(o, "start", "shipping")
  /\ call' = Over(call, o)
  /\ UNCHANGED <<local, connectionVars, router, handle, daemon, dialogs, left, past>>

AttachesFresh(o) ==
  /\ handle' = [handle EXCEPT ![o] = "starting"]
  /\ call' = [call EXCEPT ![o].at = "attaching"]

\* The setup script is on the host.  Only now is the router looked at: a lost
\* session is retried through its own handle, whoever retries it already, unless
\* it is being chased; a connected one is declined.
Shipped(o) ==
  /\ At(o, "start", "shipping")
  /\ CASE router.kind = "local" -> AttachesFresh(o)
       [] OTHER -> LET h == router.id IN
            \/ /\ handle[h] \in {"connected", "lost"}
               /\ call' = Over(call, o) /\ UNCHANGED handle
            \/ /\ handle[h] \in {"auth-required", "retrying"}
               /\ handle' = [handle EXCEPT ![h] = "retrying"]
               /\ call' = [call EXCEPT ![o].at = "retrying", ![o].retried = h]
            \/ handle[h] \in {"closed", "superseded"} /\ AttachesFresh(o)
  /\ UNCHANGED <<local, connectionVars, router, daemon, dialogs, left, past>>

RetryAttaches(o) ==
  LET h == call[o].retried IN
  /\ At(o, "start", "retrying") /\ handle[h] \in {"retrying", "auth-required"}
  /\ handle' = AttachedAs(handle, h)
  /\ \E d \in Reachable : local' = WithDaemon(d) /\ daemon' = d
  /\ \E again \in AskedAgain(h) : dialogs' = dialogs \cup again
  /\ call' = Over(call, o)
  /\ UNCHANGED <<connectionVars, router, left, past>>

\* Or not, its handle closed meanwhile or its channel torn down by another
\* retry, whatever that one has reached: a fresh handle is made.
RetryFails(o) ==
  /\ At(o, "start", "retrying")
  /\ handle' = [handle EXCEPT ![o] = "starting",
                              ![call[o].retried] = IF @ \in {"retrying", "connected"}
                                                   THEN "auth-required" ELSE @]
  /\ call' = [call EXCEPT ![o].at = "attaching"]
  /\ UNCHANGED <<local, connectionVars, router, daemon, dialogs, left, past>>

\* Attached: the window swaps at once, or the host's settings go first.
Attaches(o) ==
  LET hs == AttachedAs(handle, o) IN
  /\ At(o, "start", "attaching")
  /\ \E d \in Reachable :
       /\ daemon' = d
       /\ \/ MovesTo(WithDaemon(d), hs, o) /\ call' = Over(call, o)
          \/ /\ handle' = hs /\ local' = WithDaemon(d)
             /\ call' = [call EXCEPT ![o].at = "configuring"]
             /\ UNCHANGED router
  /\ UNCHANGED <<connectionVars, dialogs, left, past>>

\* A handle whose first attach breaks off may go on chasing its channel.
CannotAttach(o) ==
  /\ At(o, "start", "attaching")
  /\ \E end \in {"auth-required", "lost"} : handle' = [handle EXCEPT ![o] = end]
  /\ call' = Over(call, o)
  /\ UNCHANGED <<local, connectionVars, router, daemon, dialogs, left, past>>

Configures(o) ==
  /\ At(o, "start", "configuring") /\ handle[o] = "connected"
  /\ MovesTo(local, handle, o) /\ call' = Over(call, o)
  /\ UNCHANGED <<connectionVars, daemon, dialogs, left, past>>

CannotConfigure(o) ==
  /\ At(o, "start", "configuring")
  /\ handle' = Closed(handle, o) /\ call' = Over(call, o)
  /\ UNCHANGED <<local, connectionVars, router, daemon, dialogs, left, past>>

-----------------------------------------------------------------------------
(* "Disconnect" and "Shut down".                                           *)

SpawnsFor(o, kind) ==
  /\ \E p \in NextProc(local) : local' = StartAttempt(local, ServerOf(o), p)
  /\ call' = [call EXCEPT ![o] = [NewCall EXCEPT !.kind = kind, !.at = "spawning"]]

\* Disconnects coalesce with each other, and with nothing else.
AsksToDisconnect(o) ==
  /\ FreeCall(o) /\ \A b \in Calls : call[b].kind = "disconnect" => call[b].at = "over"
  /\ Spends("calls")
  /\ IF router.kind = "remote" THEN SpawnsFor(o, "disconnect") /\ UNCHANGED connectionVars
     ELSE /\ BeginLeave /\ UNCHANGED local
          /\ call' = [call EXCEPT ![o] = [NewCall EXCEPT !.kind = "disconnect", !.at = "leaving"]]
  /\ UNCHANGED <<router, handle, daemon, dialogs, past>>

Disconnected(o) ==
  /\ At(o, "disconnect", "leaving")
  /\ EndLeave /\ call' = Over(call, o)
  /\ UNCHANGED <<local, router, handle, daemon, dialogs, left, past>>

\* Declined unless the channel is up now; the daemon is told after the wait.
AsksToEnd(o) ==
  /\ FreeCall(o) /\ router.kind = "remote" /\ handle[router.id] = "connected"
  /\ Spends("calls")
  /\ SpawnsFor(o, "end")
  /\ UNCHANGED <<connectionVars, router, handle, daemon, dialogs, past>>

-----------------------------------------------------------------------------
(* Confirms: asked by a server, shown by what fronts it, answered through  *)
(* the asked supervisor's or handle's current connection.                  *)

Fronts(p) == {Local(s) : s \in {r \in Servers : local.server[r].child = p}}
             \cup {Remote(h) : h \in {g \in Handles : p = daemon /\ handle[g] = "connected"}}

Confirms(p) ==
  /\ local.proc[p].state = "up" /\ ~local.proc[p].told /\ Spends("confirms")
  /\ LET n == Len(local.proc[p].asked) + 1
         shown == router \in Fronts(p)
         state == IF shown \/ Fronts(p) = {} THEN "pending" ELSE "cancelled"
     IN  /\ local' = [local EXCEPT !.proc[p].asked = Append(@, [state |-> state, by |-> 0])]
         /\ dialogs' = dialogs \cup (IF shown THEN {[of |-> router, asker |-> p, n |-> n]} ELSE {})
  /\ UNCHANGED <<connectionVars, router, handle, daemon, call, past>>

\* The process an answer given to this front reaches, 0 for none.
ReachedByActive(of) ==
  IF router.kind = "local" THEN local.server[router.id].child ELSE daemon
ReachedBy(of) ==
  IF of.kind = "local" THEN IF local.server[of.id].phase = "running" THEN local.server[of.id].child ELSE 0
  ELSE IF handle[of.id] = "connected" THEN daemon ELSE 0

Answers(d) ==
  LET p == ReachedBy(d.of) IN
  /\ d \in dialogs
  /\ dialogs' = dialogs \ {d}
  /\ local' = IF Alive(local, p) /\ d.n \in DOMAIN local.proc[p].asked
                 /\ local.proc[p].asked[d.n].state = "pending"
              THEN [local EXCEPT !.proc[p].asked[d.n] = [state |-> "settled", by |-> d.asker]]
              ELSE local
  /\ UNCHANGED <<connectionVars, router, handle, daemon, call, left, past>>

-----------------------------------------------------------------------------
StartCall(o) == Shipped(o) \/ CannotShip(o) \/ RetryAttaches(o) \/ RetryFails(o)
                \/ Attaches(o) \/ CannotAttach(o) \/ Configures(o) \/ CannotConfigure(o)

ServerStep(s) == SaysHello(s) \/ HelloFails(s) \/ ChildExits(s) \/ ShutdownEnds(s) \/ Restart(s)

SshStep ==
  \/ \E c \in Connects, host \in Hosts : Connect(c, host) /\ Spends("connects")
  \/ \E c \in Connects : ConnectStep(c) /\ UNCHANGED left
  \/ Cancel /\ UNCHANGED left
  \/ \E m \in Ptys : MasterDies(m) /\ Spends("deaths")

Next ==
  \/ \E o \in Calls : AsksToStart(o) \/ AsksToDisconnect(o) \/ AsksToEnd(o)
  \/ \E o \in Calls : StartCall(o) \/ Disconnected(o)
  \/ \E s \in Servers : ServerStep(s)
  \/ ChannelDrops \/ DaemonEnds
  \/ \E h \in Handles : Reattaches(h) \/ GivesUp(h)
  \/ \E p \in Procs : Confirms(p)
  \/ \E d \in dialogs : Answers(d)
  \/ SshStep /\ UNCHANGED <<local, router, handle, daemon, call, dialogs, past>>

Spec == Init /\ [][Next]_vars

-----------------------------------------------------------------------------
\* A local server that runs is one the window is on, one a call is starting,
\* or one that was told to stop or that a shutdown() will still dispose of.
ServersAreUsed ==
  \A p \in Procs :
    Alive(local, p) /\ local.proc[p].of # 0 /\ ~local.proc[p].told =>
      LET s == local.proc[p].of
      IN  local.server[s].child = p /\ (router = Local(s) \/ Starters(s) # {} \/ local.server[s].ending # 0)

(* No local server is left running that nobody uses -- whatever calls      *)
(* overlap, and whichever start fails -- but for the two ways a call       *)
(* forgets one.                                                            *)
NoServerIsAbandoned == past \cap {"forgot", "restarted"} = {} => ServersAreUsed

(* The window always has a server: on a local one that runs, restarts or   *)
(* asks to be restarted, or on a handle nobody closed, a takeover apart.   *)
WindowIsServed ==
  IF router.kind = "remote" THEN handle[router.id] \notin {"none", "starting", "closed"}
  ELSE LET server == local.server[router.id]
       IN  server.phase = "running" \/ server.awaiting \/ server.dialog # "none"

AnswersAreOwn ==
  \A p \in Procs : \A n \in DOMAIN local.proc[p].asked :
    local.proc[p].asked[n].state = "settled" => local.proc[p].asked[n].by = p

(* A confirm is settled by the answer to its own dialog, whatever swaps    *)
(* happened while it was open, unless the server that asked died under it. *)
AnswerIsOwn == "outlived" \in past \/ AnswersAreOwn

(* Refuted: what the comments say and the code does not keep.              *)

(* A disconnect never abandons a local server as an orphan child process.  *)
NoneIsForgotten == "restarted" \notin past => ServersAreUsed

(* Restarting a crashed backend is for the window that is on it.           *)
NoneIsRestartedUnused == "forgot" \notin past => ServersAreUsed

(* "Shut down" reports success only if the daemon was told.                *)
EndIsDelivered ==
  [][\A o \in Calls :
       At(o, "end", "spawning") /\ router # router' /\ router' = Local(ServerOf(o))
         => ~Alive(local', daemon) \/ local'.proc[daemon].told]_vars

(* The exit of a server that was told to stop is no crash.                 *)
IntendedExitIsQuiet ==
  [][\A s \in Servers :
       local.server[s].dialog # "crashed" /\ local'.server[s].dialog = "crashed"
         => ~local.proc[local.server[s].child].told]_vars

(* A restart that fails offers to quit only if the window is on it.        *)
RestartFailsOnlyHere == \A s \in Servers : local.server[s].dialog = "failed" => router = Local(s)

(* A late answer after its server is gone is ignored.                      *)
LateAnswerIsIgnored == AnswersAreOwn

(* Every path produces a reply: an answered request is settled.            *)
AnswerReaches ==
  [][\A d \in dialogs \ dialogs' :
       d.of.kind = "remote" /\ Alive(local', d.asker) => local'.proc[d.asker].asked[d.n].state # "pending"]_vars
=============================================================================
