-------------------------- MODULE RemoteConnection --------------------------
(***************************************************************************)
(* The ssh connection manager of the shell: one status, one activeControl, *)
(* one held ssh process, and connect() calls that stand still at each      *)
(* await.  A call is refused as busy only while a prompt is on screen.     *)
(*                                                                         *)
(* A pty is an ssh process the manager started; it is "up" once its        *)
(* control socket answers.  A master the user runs may answer at any time. *)
(***************************************************************************)
EXTENDS Naturals

CONSTANTS Hosts, NoHost,
          MaxConnects,   \* bound: connect() calls
          MaxPtys        \* bound: ssh processes started

ASSUME ConnectionAssumption ==
  NoHost \notin Hosts /\ {MaxConnects, MaxPtys} \subseteq Nat

Connects == 1 .. MaxConnects
Ptys == 1 .. MaxPtys

VARIABLES
  status,      \* what the renderer was last told: a phase and a host
  control,     \* activeControl, by its host
  master,      \* the held pty, 0 for none
  attempt,     \* the pty whose prompts are on screen, 0 for none
  ssh,         \* every pty
  connecting,  \* per connect() call: its step, its host, the pty it waits for
  leaving,     \* disconnect() awaits stopMaster
  displaced    \* history: a call replaced the held master of another

connectionVars == <<status, control, master, attempt, ssh, connecting, leaving, displaced>>

InitConnection ==
  /\ status = [phase |-> "idle", host |-> NoHost]
  /\ control = NoHost /\ master = 0 /\ attempt = 0
  /\ ssh = [m \in Ptys |-> [state |-> "none", host |-> NoHost]]
  /\ connecting = [c \in Connects |-> [at |-> "new", host |-> NoHost, pty |-> 0]]
  /\ leaving = [on |-> FALSE, pty |-> 0]
  /\ displaced = FALSE

Connecting(c, at) == connecting[c].at = at
Live(host) == {m \in Ptys : ssh[m].state = "up" /\ ssh[m].host = host}
KilledNone(m) == ssh
Killed(m) == IF m = 0 THEN ssh ELSE [ssh EXCEPT ![m].state = "gone"]
\* The control the shell may use, and the command it would run there.
UsableControl == IF status.phase = "connected" THEN control ELSE NoHost

\* A call goes on to dial: it claims the status and looks for a master.
Dials(c, host) ==
  /\ connecting' = [connecting EXCEPT ![c] = [at |-> "resolving", host |-> host, pty |-> 0]]
  /\ status' = [phase |-> "connecting", host |-> host]

Connect(c, host) ==
  /\ Connecting(c, "new") /\ \A b \in Connects : b < c => ~Connecting(b, "new")
  /\ IF attempt # 0
     THEN connecting' = [connecting EXCEPT ![c].at = "over"] /\ UNCHANGED status
     ELSE IF status = [phase |-> "connected", host |-> host] /\ control # NoHost
     THEN /\ connecting' = [connecting EXCEPT ![c].at = "checking", ![c].host = host]
          /\ UNCHANGED status
     ELSE Dials(c, host)
  /\ UNCHANGED <<control, master, attempt, ssh, leaving, displaced>>

StillConnected(c) ==
  /\ Connecting(c, "checking")
  /\ connecting' = [connecting EXCEPT ![c].at = "over"]
  /\ UNCHANGED <<status, control, master, attempt, ssh, leaving, displaced>>

NotConnected(c) ==
  /\ Connecting(c, "checking")
  /\ Dials(c, connecting[c].host)
  /\ UNCHANGED <<control, master, attempt, ssh, leaving, displaced>>

\* Forward X11 was switched since: PDV's own master is stopped and rebuilt.
StopsForX11(c) ==
  /\ Connecting(c, "checking") /\ master # 0
  /\ connecting' = [connecting EXCEPT ![c].at = "stopping", ![c].pty = master]
  /\ control' = NoHost /\ master' = 0
  /\ UNCHANGED <<status, attempt, ssh, leaving, displaced>>

StoppedForX11(c) ==
  /\ Connecting(c, "stopping")
  /\ ssh' = Killed(connecting[c].pty)
  /\ Dials(c, connecting[c].host)
  /\ UNCHANGED <<control, master, attempt, leaving, displaced>>

\* resolveSshControl found a live master, the user's or PDV's own.
Reuses(c) ==
  /\ Connecting(c, "resolving")
  /\ control' = connecting[c].host
  /\ connecting' = [connecting EXCEPT ![c].at = "preparing"]
  /\ UNCHANGED <<status, master, attempt, ssh, leaving, displaced>>

\* It found none, or a leftover of PDV's own whose X11 state it cannot know
\* and stops: the user is asked.
Asks(c) ==
  /\ Connecting(c, "resolving") \/ (Connecting(c, "refused") /\ connecting[c].pty = 0)
  /\ LET host == connecting[c].host
         leftovers == IF master = 0 THEN Live(host) ELSE {}
     IN  /\ Live(host) \subseteq leftovers
         /\ \E m \in Ptys :
              /\ ssh[m].state = "none" /\ \A n \in Ptys : n < m => ssh[n].state # "none"
              /\ ssh' = [n \in Ptys |-> IF n = m THEN [state |-> "asking", host |-> host]
                                        ELSE IF n \in leftovers THEN [ssh[n] EXCEPT !.state = "gone"]
                                        ELSE ssh[n]]
              /\ attempt' = m
              /\ connecting' = [connecting EXCEPT ![c].at = "asking", ![c].pty = m]
  /\ UNCHANGED <<status, control, master, leaving, displaced>>

Authenticates(c) ==
  LET m == connecting[c].pty IN
  /\ Connecting(c, "asking") /\ ssh[m].state = "asking"
  /\ ssh' = [ssh EXCEPT ![m].state = "up"]
  /\ attempt' = 0 /\ control' = connecting[c].host /\ master' = m
  /\ displaced' = (displaced \/ (master # 0 /\ ssh[master].state = "up"))
  /\ connecting' = [connecting EXCEPT ![c].at = "preparing"]
  /\ UNCHANGED <<status, leaving>>

\* What ssh prints and how far an upload is are pushed as a status, whatever
\* the status has become since.
Reports(c) ==
  /\ Connecting(c, "asking") \/ Connecting(c, "preparing")
  /\ status # [phase |-> "connecting", host |-> connecting[c].host]
  /\ status' = [phase |-> "connecting", host |-> connecting[c].host]
  /\ UNCHANGED <<control, master, attempt, ssh, connecting, leaving, displaced>>

FailsToConnect(c) ==
  /\ connecting' = [connecting EXCEPT ![c].at = "over"]
  /\ control' = NoHost
  /\ status' = [phase |-> "failed", host |-> connecting[c].host]

\* The attempt fails, is cancelled or times out.
IsRefused(c) ==
  LET m == connecting[c].pty IN
  /\ Connecting(c, "asking") /\ ssh[m].state \in {"asking", "cancelled"}
  /\ ssh' = Killed(m) /\ attempt' = 0
  /\ FailsToConnect(c)
  /\ UNCHANGED <<master, leaving, displaced>>

\* Aimed at the node of the last session, it failed at the connection level:
\* the plain alias is tried.
FallsBack(c) ==
  LET m == connecting[c].pty IN
  /\ Connecting(c, "asking") /\ ssh[m].state = "asking"
  /\ ssh' = Killed(m) /\ attempt' = 0
  /\ connecting' = [connecting EXCEPT ![c].at = "refused", ![c].pty = 0]
  /\ UNCHANGED <<status, control, master, leaving, displaced>>

\* resolveNode and prepareHost: the server is installed there, or it is not.
Prepares(c) ==
  /\ Connecting(c, "preparing")
  /\ connecting' = [connecting EXCEPT ![c].at = "over"]
  /\ status' = [phase |-> "connected", host |-> connecting[c].host]
  /\ UNCHANGED <<control, master, attempt, ssh, leaving, displaced>>

CannotPrepare(c) ==
  /\ Connecting(c, "preparing")
  /\ FailsToConnect(c)
  /\ UNCHANGED <<master, attempt, ssh, leaving, displaced>>

Cancelled == IF attempt = 0 THEN ssh ELSE [ssh EXCEPT ![attempt].state = "cancelled"]

Cancel ==
  /\ attempt # 0
  /\ ssh' = Cancelled
  /\ UNCHANGED <<status, control, master, attempt, connecting, leaving, displaced>>

MasterDies(m) ==
  /\ ssh[m].state = "up"
  /\ ssh' = Killed(m)
  /\ UNCHANGED <<status, control, master, attempt, connecting, leaving, displaced>>

\* disconnect() cancels the attempt, gives up the control, stops the master
\* PDV holds, and reports when that is done.
BeginLeave ==
  /\ ~leaving.on
  /\ ssh' = Cancelled
  /\ leaving' = [on |-> TRUE, pty |-> master]
  /\ control' = NoHost /\ master' = 0
  /\ UNCHANGED <<status, attempt, connecting, displaced>>

EndLeave ==
  /\ leaving.on
  /\ ssh' = Killed(leaving.pty)
  /\ leaving' = [on |-> FALSE, pty |-> 0]
  /\ status' = [phase |-> "idle", host |-> NoHost]
  /\ UNCHANGED <<control, master, attempt, connecting, displaced>>

ConnectStep(c) ==
  \/ StillConnected(c) \/ NotConnected(c) \/ StopsForX11(c) \/ StoppedForX11(c)
  \/ Reuses(c) \/ Asks(c) \/ Authenticates(c) \/ IsRefused(c) \/ FallsBack(c)
  \/ Prepares(c) \/ CannotPrepare(c) \/ Reports(c)

-----------------------------------------------------------------------------
EachIsHeld ==
  \A m \in Ptys : ssh[m].state = "up" =>
    \/ m = master \/ m = leaving.pty
    \/ \E c \in Connects : Connecting(c, "stopping") /\ connecting[c].pty = m

(* The ssh process of a connection is held until it is stopped: whatever   *)
(* calls and cancels overlap, one that is up is the manager's, or is about *)
(* to be killed by who took it over -- unless a call displaced it.         *)
MastersAreHeld == displaced \/ EachIsHeld

(* Refuted: what the comments say and the code does not keep.              *)

(* The held process lives exactly as long as the manager wants it to.      *)
NothingIsLeft == EachIsHeld

(* "connected" comes with the control socket of the live connection.       *)
ConnectedHasControl == status.phase = "connected" => control # NoHost \/ leaving.on
=============================================================================
