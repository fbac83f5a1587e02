------------------------ MODULE ShellSessions_proofs ------------------------
(***************************************************************************)
(* Proofs about ShellSessions, for any number of calls, servers, processes *)
(* and hosts: no ssh master is let go of while it lives, the window always *)
(* has a server, no local server is left running that nobody uses, and an  *)
(* answer settles only a request of the server that asked.  One inductive  *)
(* invariant stands behind each part: MastersInv, ShellInv and, beside it, *)
(* AsksInv.                                                                *)
(***************************************************************************)
EXTENDS ShellSessions, TLAPS

----------------------------------------------------------------------------
(* The ssh connection manager, which the session calls touch only through  *)
(* disconnect().                                                           *)

ConnectStages ==
  {"new", "checking", "stopping", "resolving", "asking", "refused", "preparing", "over"}
PtyRecord == [state : {"none", "asking", "cancelled", "up", "gone"}, host : Hosts \cup {NoHost}]
ConnectRecord ==
  [at : ConnectStages, host : Hosts \cup {NoHost}, pty : Ptys \cup {0}]

ConnectionTypes ==
  /\ ssh \in [Ptys -> PtyRecord]
  /\ connecting \in [Connects -> ConnectRecord]
  /\ leaving \in [on : BOOLEAN, pty : Ptys \cup {0}]
  /\ master \in Ptys \cup {0} /\ attempt \in Ptys \cup {0}

(* A disconnect that is not under way is about to kill nothing: the next   *)
(* one may put the master it takes over where the last one had its own.    *)
MastersInv ==
  /\ ConnectionTypes
  /\ ~leaving.on => leaving.pty = 0
  /\ MastersAreHeld

(* What a step of the shell does to the connection.                        *)
ConnectionStep ==
  \/ UNCHANGED connectionVars
  \/ \E c \in Connects : (\E host \in Hosts : Connect(c, host)) \/ ConnectStep(c)
  \/ Cancel \/ BeginLeave \/ EndLeave
  \/ \E m \in Ptys : MasterDies(m)

(* Every step of the shell is one of the connection manager's, or none.    *)
LEMMA ConnectionSteps ==
  ASSUME Next PROVE ConnectionStep
  <1>1. ASSUME NEW o \in Calls, AsksToStart(o) \/ AsksToDisconnect(o) \/ AsksToEnd(o)
        PROVE  ConnectionStep
    BY <1>1 DEF AsksToStart, AsksToDisconnect, AsksToEnd, ConnectionStep
  <1>2. ASSUME NEW o \in Calls, StartCall(o) PROVE ConnectionStep
    BY <1>2 DEF StartCall, Shipped, CannotShip, RetryAttaches, RetryFails, Attaches,
      CannotAttach, Configures, CannotConfigure, ConnectionStep
  <1>3. ASSUME NEW o \in Calls, Disconnected(o) PROVE ConnectionStep
    BY <1>3 DEF Disconnected, ConnectionStep
  <1>4. ASSUME NEW s \in Servers, ServerStep(s) PROVE ConnectionStep
    <2>1. CASE SaysHello(s)
      BY <2>1 DEF SaysHello, ComesBackTo, ConnectionStep
    <2>2. CASE HelloFails(s) \/ ChildExits(s) \/ ShutdownEnds(s) \/ Restart(s)
      BY <2>2 DEF HelloFails, ChildExits, ShutdownEnds, Restart, ConnectionStep
    <2>3. QED BY <1>4, <2>1, <2>2 DEF ServerStep
  <1>5. ASSUME ChannelDrops \/ DaemonEnds PROVE ConnectionStep
    BY <1>5 DEF ChannelDrops, DaemonEnds, ConnectionStep
  <1>6. ASSUME NEW h \in Handles, Reattaches(h) \/ GivesUp(h) PROVE ConnectionStep
    BY <1>6 DEF Reattaches, GivesUp, ConnectionStep
  <1>7. ASSUME NEW p \in Procs, Confirms(p) PROVE ConnectionStep
    BY <1>7 DEF Confirms, ConnectionStep
  <1>8. ASSUME NEW d \in dialogs, Answers(d) PROVE ConnectionStep
    BY <1>8 DEF Answers, ConnectionStep
  <1>9. ASSUME SshStep PROVE ConnectionStep
    BY <1>9 DEF SshStep, ConnectionStep
  <1>10. QED BY <1>1, <1>2, <1>3, <1>4, <1>5, <1>6, <1>7, <1>8, <1>9 DEF Next

(* What killing a pty, or none, leaves of the others.                      *)
LEMMA Kills ==
  ASSUME ConnectionTypes, NEW m \in Ptys \cup {0}
  PROVE  /\ Killed(m) \in [Ptys -> PtyRecord]
         /\ \A n \in Ptys : Killed(m)[n].state = "up" <=> ssh[n].state = "up" /\ n # m
  <1>1. 0 \notin Ptys
    BY ConnectionAssumption DEF Ptys
  <1>2. \A n \in Ptys : ssh[n] \in PtyRecord /\ [ssh[n] EXCEPT !.state = "gone"] \in PtyRecord
                        /\ [ssh[n] EXCEPT !.state = "gone"].state = "gone"
    BY DEF ConnectionTypes, PtyRecord
  <1>3. CASE m = 0
    BY <1>1, <1>3 DEF Killed, ConnectionTypes
  <1>4. CASE m \in Ptys
    BY <1>1, <1>2, <1>4 DEF Killed, ConnectionTypes
  <1>5. QED BY <1>3, <1>4

(* Cancelling the attempt on screen brings no pty up.                      *)
LEMMA Cancels ==
  ASSUME ConnectionTypes
  PROVE  /\ Cancelled \in [Ptys -> PtyRecord]
         /\ \A n \in Ptys : Cancelled[n].state = "up" => ssh[n].state = "up"
  <1>1. \A n \in Ptys : ssh[n] \in PtyRecord /\ [ssh[n] EXCEPT !.state = "cancelled"] \in PtyRecord
                        /\ [ssh[n] EXCEPT !.state = "cancelled"].state = "cancelled"
    BY DEF ConnectionTypes, PtyRecord
  <1>2. CASE attempt = 0
    BY <1>2 DEF Cancelled, ConnectionTypes
  <1>3. CASE attempt \in Ptys
    BY <1>1, <1>2, <1>3 DEF Cancelled, ConnectionTypes
  <1>4. QED BY <1>2, <1>3 DEF ConnectionTypes

(* The records a connect() call becomes as it goes on.                     *)
LEMMA ConnectFields ==
  ASSUME ConnectionTypes, NEW c \in Connects, NEW at \in ConnectStages, NEW m \in Ptys \cup {0},
         NEW host \in Hosts \cup {NoHost}
  PROVE  /\ [connecting[c] EXCEPT !.at = at] \in ConnectRecord
         /\ [connecting[c] EXCEPT !.at = at].at = at
         /\ [connecting[c] EXCEPT !.at = at, !.pty = m] \in ConnectRecord
         /\ [connecting[c] EXCEPT !.at = at, !.pty = m].at = at
         /\ [connecting[c] EXCEPT !.at = at, !.pty = m].pty = m
         /\ [connecting[c] EXCEPT !.at = at, !.host = host] \in ConnectRecord
         /\ [connecting[c] EXCEPT !.at = at, !.host = host].at = at
         /\ [at |-> at, host |-> host, pty |-> m] \in ConnectRecord
         /\ connecting[c].host \in Hosts \cup {NoHost} /\ connecting[c].pty \in Ptys \cup {0}
  <1>1. connecting[c] \in ConnectRecord
    BY DEF ConnectionTypes
  <1>2. QED BY <1>1 DEF ConnectRecord

(* The one call that goes on, and the others, which do not.                *)
LEMMA OneMoves ==
  ASSUME ConnectionTypes, NEW c \in Connects, NEW r \in ConnectRecord,
         connecting' = [connecting EXCEPT ![c] = r]
  PROVE  /\ connecting' \in [Connects -> ConnectRecord] /\ connecting'[c] = r
         /\ \A b \in Connects \ {c} : connecting'[b] = connecting[b]
  BY DEF ConnectionTypes

(* A call that neither stops a master nor had one to stop, and leaves the  *)
(* ptys as they are but for some that go, changes nobody's hold.           *)
LEMMA HoldStays ==
  ASSUME MastersInv, NEW c \in Connects, NEW r \in ConnectRecord,
         connecting' = [connecting EXCEPT ![c] = r],
         connecting[c].at # "stopping",
         ssh' \in [Ptys -> PtyRecord], attempt' \in Ptys \cup {0},
         \A m \in Ptys : ssh'[m].state = "up" => ssh[m].state = "up",
         UNCHANGED <<master, leaving, displaced>>
  PROVE  MastersInv'
  <1>1. ConnectionTypes'
    BY OneMoves DEF MastersInv, ConnectionTypes
  <1>2. ASSUME ~displaced, NEW m \in Ptys, ssh'[m].state = "up", m # master, m # leaving.pty
        PROVE  \E b \in Connects : connecting'[b].at = "stopping" /\ connecting'[b].pty = m
    <2>1. PICK b \in Connects : connecting[b].at = "stopping" /\ connecting[b].pty = m
      BY <1>2 DEF MastersInv, MastersAreHeld, EachIsHeld, Connecting
    <2>2. b # c
      BY <2>1
    <2>3. QED BY <2>1, <2>2, OneMoves DEF MastersInv
  <1>3. QED BY <1>1, <1>2 DEF MastersInv, MastersAreHeld, EachIsHeld, Connecting

(* A call of connect() goes from step to step.                             *)
LEMMA ConnectKept ==
  ASSUME MastersInv, NEW c \in Connects, (\E host \in Hosts : Connect(c, host)) \/ ConnectStep(c)
  PROVE  MastersInv'
  <1> USE DEF Connecting
  <1>0. /\ ConnectionTypes /\ connecting[c].host \in Hosts \cup {NoHost} /\ 0 \in Ptys \cup {0}
        /\ connecting[c].pty \in Ptys \cup {0} /\ master \in Ptys \cup {0}
    BY DEF MastersInv, ConnectionTypes, ConnectRecord
  <1> DEFINE To(at) == [connecting[c] EXCEPT !.at = at]
             Aimed(at, h) == [at |-> at, host |-> h, pty |-> 0]
  <1>a. {"checking", "stopping", "resolving", "asking", "refused", "preparing", "over"}
          \subseteq ConnectStages
    BY DEF ConnectStages
  <1>b. \A at \in ConnectStages, h \in Hosts \cup {NoHost} :
          /\ To(at) \in ConnectRecord /\ Aimed(at, h) \in ConnectRecord
          /\ [connecting[c] EXCEPT !.at = at, !.host = h] \in ConnectRecord
          /\ [connecting[c] EXCEPT !.at = at, !.pty = 0] \in ConnectRecord
    BY <1>0, ConnectFields
  <1>1. ASSUME NEW host \in Hosts, Connect(c, host) PROVE MastersInv'
    <2>1. PICK r \in {To("over"), [connecting[c] EXCEPT !.at = "checking", !.host = host],
                      Aimed("resolving", host)} :
            connecting' = [connecting EXCEPT ![c] = r]
      BY <1>1 DEF Connect, Dials
    <2>2. r \in ConnectRecord
      <3>1. "over" \in ConnectStages /\ "checking" \in ConnectStages /\ "resolving" \in ConnectStages
            /\ host \in Hosts \cup {NoHost}
        BY <1>1 DEF ConnectStages
      <3>2. [connecting[c] EXCEPT !.at = "checking", !.host = host] \in ConnectRecord
        BY <1>b, <3>1
      <3>3. To("over") \in ConnectRecord /\ Aimed("resolving", host) \in ConnectRecord
        BY <1>b, <3>1
      <3> HIDE DEF To, Aimed
      <3>4. QED BY <2>1, <3>2, <3>3
    <2>3. QED BY <1>0, <1>1, <2>1, <2>2, HoldStays DEF Connect, MastersInv, ConnectionTypes
  <1>2. CASE StillConnected(c) \/ NotConnected(c) \/ Reuses(c) \/ Prepares(c) \/ CannotPrepare(c)
    <2>1. PICK r \in {To("over"), To("preparing"), Aimed("resolving", connecting[c].host)} :
            connecting' = [connecting EXCEPT ![c] = r]
      BY <1>2 DEF StillConnected, NotConnected, Reuses, Prepares, CannotPrepare, FailsToConnect,
        Dials
    <2>2. r \in ConnectRecord
      BY <1>0, <1>a, <1>b, <2>1, ZenonT(60)
    <2>3. /\ connecting[c].at # "stopping"
          /\ UNCHANGED <<ssh, attempt, master, leaving, displaced>>
      BY <1>2 DEF StillConnected, NotConnected, Reuses, Prepares, CannotPrepare
    <2>4. QED BY <1>0, <2>1, <2>2, <2>3, HoldStays DEF MastersInv, ConnectionTypes
  <1>3. CASE StopsForX11(c)
    <2> DEFINE r == [connecting[c] EXCEPT !.at = "stopping", !.pty = master]
    <2>1. connecting' = [connecting EXCEPT ![c] = r]
      BY <1>3 DEF StopsForX11
    <2>2. r \in ConnectRecord /\ r.at = "stopping" /\ r.pty = master
      <3>1. connecting[c] \in ConnectRecord /\ "stopping" \in ConnectStages
        BY <1>0, <1>a DEF ConnectionTypes
      <3>2. QED BY <1>0, <3>1 DEF ConnectRecord
    <2>3. /\ connecting' \in [Connects -> ConnectRecord] /\ connecting'[c] = r
          /\ \A b \in Connects \ {c} : connecting'[b] = connecting[b]
      BY <1>0, <2>1, <2>2, OneMoves
    <2>4. connecting[c].at = "checking" /\ master' = 0 /\ UNCHANGED <<attempt, ssh, leaving, displaced>>
      BY <1>3 DEF StopsForX11
    <2>5. ConnectionTypes'
      BY <1>0, <2>3, <2>4 DEF ConnectionTypes
    <2>6. ASSUME ~displaced, NEW m \in Ptys, ssh[m].state = "up", m # leaving.pty
          PROVE  \E b \in Connects : connecting'[b].at = "stopping" /\ connecting'[b].pty = m
      <3>1. CASE m = master
        BY <2>2, <2>3, <3>1
      <3>2. CASE m # master
        <4>1. PICK b \in Connects : connecting[b].at = "stopping" /\ connecting[b].pty = m
          BY <2>6, <3>2 DEF MastersInv, MastersAreHeld, EachIsHeld
        <4>2. QED BY <2>3, <2>4, <4>1
      <3>3. QED BY <3>1, <3>2
    <2>7. QED BY <2>4, <2>5, <2>6 DEF MastersInv, MastersAreHeld, EachIsHeld
  <1>4. CASE StoppedForX11(c)
    <2> DEFINE r == Aimed("resolving", connecting[c].host)
    <2>1. connecting' = [connecting EXCEPT ![c] = r] /\ ssh' = Killed(connecting[c].pty)
          /\ UNCHANGED <<master, attempt, leaving, displaced>>
      BY <1>4 DEF StoppedForX11, Dials
    <2>2. r \in ConnectRecord
      BY <1>0, ConnectFields DEF ConnectStages
    <2>3. /\ connecting' \in [Connects -> ConnectRecord]
          /\ \A b \in Connects \ {c} : connecting'[b] = connecting[b]
      BY <1>0, <2>1, <2>2, OneMoves
    <2>4. /\ ssh' \in [Ptys -> PtyRecord]
          /\ \A n \in Ptys : ssh'[n].state = "up" => ssh[n].state = "up" /\ n # connecting[c].pty
      BY <1>0, <2>1, Kills
    <2>5. ConnectionTypes'
      BY <1>0, <2>1, <2>3, <2>4 DEF ConnectionTypes
    <2>6. ASSUME ~displaced, NEW m \in Ptys, ssh'[m].state = "up", m # master, m # leaving.pty
          PROVE  \E b \in Connects : connecting'[b].at = "stopping" /\ connecting'[b].pty = m
      <3>1. PICK b \in Connects : connecting[b].at = "stopping" /\ connecting[b].pty = m
        BY <2>4, <2>6 DEF MastersInv, MastersAreHeld, EachIsHeld
      <3>2. b # c
        BY <2>4, <2>6, <3>1
      <3>3. QED BY <2>3, <3>1, <3>2
    <2>7. QED BY <2>1, <2>5, <2>6 DEF MastersInv, MastersAreHeld, EachIsHeld
  <1>5. CASE Asks(c)
    <2> DEFINE leftovers == IF master = 0 THEN Live(connecting[c].host) ELSE {}
    <2>1. PICK m \in Ptys :
            /\ ssh' = [n \in Ptys |->
                         IF n = m THEN [state |-> "asking", host |-> connecting[c].host]
                         ELSE IF n \in leftovers THEN [ssh[n] EXCEPT !.state = "gone"]
                         ELSE ssh[n]]
            /\ attempt' = m
            /\ connecting' = [connecting EXCEPT ![c].at = "asking", ![c].pty = m]
      BY <1>5 DEF Asks
    <2> DEFINE r == [connecting[c] EXCEPT !.at = "asking", !.pty = m]
    <2>2. connecting' = [connecting EXCEPT ![c] = r]
      BY <2>1
    <2>3. r \in ConnectRecord
      BY <1>0, ConnectFields, ZenonT(60) DEF ConnectStages
    <2>4. \A n \in Ptys : /\ [ssh[n] EXCEPT !.state = "gone"] \in PtyRecord
                          /\ [ssh[n] EXCEPT !.state = "gone"].state = "gone"
      BY <1>0 DEF ConnectionTypes, PtyRecord
    <2>5. [state |-> "asking", host |-> connecting[c].host] \in PtyRecord
      BY <1>0 DEF PtyRecord
    <2>6. /\ ssh' \in [Ptys -> PtyRecord]
          /\ \A n \in Ptys : ssh'[n].state = "up" => ssh[n].state = "up"
      BY <1>0, <2>1, <2>4, <2>5 DEF ConnectionTypes
    <2>7. connecting[c].at # "stopping" /\ UNCHANGED <<master, leaving, displaced>>
      BY <1>5 DEF Asks
    <2>8. QED BY <2>1, <2>2, <2>3, <2>6, <2>7, HoldStays
  <1>6. CASE Authenticates(c)
    <2> DEFINE m == connecting[c].pty
    <2>1. /\ connecting[c].at = "asking" /\ connecting' = [connecting EXCEPT ![c] = To("preparing")]
          /\ ssh' = [ssh EXCEPT ![m].state = "up"] /\ attempt' = 0 /\ master' = m
          /\ displaced' = (displaced \/ (master # 0 /\ ssh[master].state = "up"))
          /\ UNCHANGED leaving
      BY <1>6 DEF Authenticates
    <2>2. To("preparing") \in ConnectRecord
      BY <1>0, ConnectFields DEF ConnectStages
    <2>3. /\ connecting' \in [Connects -> ConnectRecord]
          /\ \A b \in Connects \ {c} : connecting'[b] = connecting[b]
      BY <1>0, <2>1, <2>2, OneMoves
    <2>4. \A n \in Ptys : [ssh[n] EXCEPT !.state = "up"] \in PtyRecord
      BY <1>0 DEF ConnectionTypes, PtyRecord
    <2>5. /\ ssh' \in [Ptys -> PtyRecord]
          /\ \A n \in Ptys \ {m} : ssh'[n] = ssh[n]
      BY <1>0, <2>1, <2>4 DEF ConnectionTypes
    <2>6. ConnectionTypes'
      BY <1>0, <2>1, <2>3, <2>5 DEF ConnectionTypes
    <2>7. ASSUME ~displaced', NEW n \in Ptys, ssh'[n].state = "up", n # m, n # leaving.pty
          PROVE  \E b \in Connects : connecting'[b].at = "stopping" /\ connecting'[b].pty = n
      <3>1. ssh[n].state = "up" /\ n # 0
        BY <2>5, <2>7, ConnectionAssumption DEF Ptys
      <3>2. n # master
        BY <2>1, <2>7, <3>1
      <3>3. PICK b \in Connects : connecting[b].at = "stopping" /\ connecting[b].pty = n
        BY <2>1, <2>7, <3>1, <3>2 DEF MastersInv, MastersAreHeld, EachIsHeld
      <3>4. QED BY <2>1, <2>3, <3>3
    <2>8. QED BY <2>1, <2>6, <2>7 DEF MastersInv, MastersAreHeld, EachIsHeld
  <1>7. CASE IsRefused(c) \/ FallsBack(c)
    <2>1. PICK r \in {To("over"), [connecting[c] EXCEPT !.at = "refused", !.pty = 0]} :
            connecting' = [connecting EXCEPT ![c] = r]
      BY <1>7 DEF IsRefused, FailsToConnect, FallsBack
    <2>2. r \in ConnectRecord
      BY <1>0, <1>a, <1>b, <2>1
    <2>3. /\ ssh' \in [Ptys -> PtyRecord]
          /\ \A n \in Ptys : ssh'[n].state = "up" => ssh[n].state = "up"
      BY <1>0, <1>7, Kills DEF IsRefused, FallsBack
    <2>4. connecting[c].at # "stopping" /\ attempt' = 0 /\ UNCHANGED <<master, leaving, displaced>>
      BY <1>7 DEF IsRefused, FallsBack
    <2>5. QED BY <1>0, <2>1, <2>2, <2>3, <2>4, HoldStays
  <1>8. CASE Reports(c)
    BY <1>8 DEF Reports, MastersInv, ConnectionTypes, MastersAreHeld, EachIsHeld
  <1>9. QED BY <1>1, <1>2, <1>3, <1>4, <1>5, <1>6, <1>7, <1>8 DEF ConnectStep

(* No step of the shell lets go of a master that lives.                    *)
LEMMA MastersKept ==
  ASSUME MastersInv, [Next]_vars PROVE MastersInv'
  <1> USE DEF MastersAreHeld, EachIsHeld, Connecting
  <1>0. ConnectionTypes /\ 0 \notin Ptys
    BY ConnectionAssumption DEF MastersInv, Ptys
  <1>1. CASE UNCHANGED connectionVars
    BY <1>1 DEF connectionVars, MastersInv, ConnectionTypes
  <1>2. ASSUME NEW c \in Connects, (\E host \in Hosts : Connect(c, host)) \/ ConnectStep(c)
        PROVE  MastersInv'
    BY <1>2, ConnectKept
  <1>3. CASE Cancel
    <2>1. /\ ssh' \in [Ptys -> PtyRecord]
          /\ \A n \in Ptys : ssh'[n].state = "up" => ssh[n].state = "up"
      BY <1>0, <1>3, Cancels DEF Cancel
    <2>2. QED BY <1>3, <2>1 DEF Cancel, MastersInv, ConnectionTypes
  <1>4. CASE BeginLeave
    <2>1. /\ ssh' \in [Ptys -> PtyRecord]
          /\ \A n \in Ptys : ssh'[n].state = "up" => ssh[n].state = "up"
      BY <1>0, <1>4, Cancels DEF BeginLeave
    <2>2. leaving.pty = 0 /\ leaving' = [on |-> TRUE, pty |-> master] /\ master' = 0
      BY <1>4 DEF BeginLeave, MastersInv
    <2>3. QED BY <1>0, <1>4, <2>1, <2>2 DEF BeginLeave, MastersInv, ConnectionTypes
  <1>5. CASE EndLeave
    <2>1. /\ ssh' \in [Ptys -> PtyRecord]
          /\ \A n \in Ptys : ssh'[n].state = "up" => ssh[n].state = "up" /\ n # leaving.pty
      BY <1>0, <1>5, Kills DEF EndLeave, ConnectionTypes
    <2>2. QED BY <1>5, <2>1 DEF EndLeave, MastersInv, ConnectionTypes
  <1>6. ASSUME NEW m \in Ptys, MasterDies(m) PROVE MastersInv'
    <2>1. /\ ssh' \in [Ptys -> PtyRecord]
          /\ \A n \in Ptys : ssh'[n].state = "up" => ssh[n].state = "up"
      BY <1>0, <1>6, Kills DEF MasterDies
    <2>2. QED BY <1>6, <2>1 DEF MasterDies, MastersInv, ConnectionTypes
  <1>7. CASE UNCHANGED vars
    BY <1>1, <1>7 DEF vars
  <1>8. QED
    BY ConnectionSteps, <1>1, <1>2, <1>3, <1>4, <1>5, <1>6, <1>7 DEF ConnectionStep

(* MastersAreHeld: an ssh process that is up is the manager's, or is about *)
(* to be killed by the call that took it over, unless a connect() displaced *)
(* it.                                                                     *)
THEOREM Masters == Spec => []MastersAreHeld
  <1>1. Init => MastersInv
    BY DEF Init, InitConnection, MastersInv, ConnectionTypes, PtyRecord, ConnectRecord,
      ConnectStages, MastersAreHeld, EachIsHeld
  <1>2. MastersInv /\ [Next]_vars => MastersInv'
    BY MastersKept
  <1>3. MastersInv => MastersAreHeld
    BY DEF MastersInv
  <1>4. QED BY <1>1, <1>2, <1>3, PTL DEF Spec
----------------------------------------------------------------------------
(* The local servers: what each operator of LocalSupervisor does to one    *)
(* supervisor and to the processes.                                        *)

ServerRecord ==
  [phase : {"stopped", "starting", "running", "stopping"}, child : Procs \cup {0},
   awaiting : BOOLEAN, tries : Nat, ending : Procs \cup {0},
   dialog : {"none", "crashed", "failed"}]
AskRecord == [state : {"pending", "settled", "cancelled"}, by : Procs \cup {0}]
ProcRecord ==
  [state : {"none", "booting", "up", "gone"}, of : Servers \cup {0}, told : BOOLEAN,
   asked : Seq(AskRecord)]
Supervisors == [server : [Servers -> ServerRecord], proc : [Procs -> ProcRecord]]

(* A supervisor and the child it fronts agree.                             *)
SoundServer(w, s) ==
  LET v == w.server[s] IN
  /\ v.phase = "stopped" <=> v.child = 0
  /\ v.phase = "stopping" => v.ending # 0
  /\ v.phase = "running" => ~v.awaiting
  /\ v.dialog = "crashed" => v.child = 0 /\ ~v.awaiting
  /\ v.child # 0 => w.proc[v.child].state # "none" /\ w.proc[v.child].of = s
  /\ v.awaiting => v.child = 0 \/ w.proc[v.child].state # "up"

(* A server process that lives is the child of the supervisor it is of.    *)
Sound(w) ==
  /\ w \in Supervisors
  /\ \A s \in Servers : SoundServer(w, s)
  /\ \A p \in Procs : Alive(w, p) /\ w.proc[p].of # 0 => w.server[w.proc[p].of].child = p

(* Of the requests of a process some may have been cancelled.              *)
Withdrawn(asked, rest) ==
  \A n \in DOMAIN rest : n \in DOMAIN asked /\ (rest[n] = asked[n] \/ rest[n].state = "cancelled")

(* A process is as it was, but for having been told to stop; it has come   *)
(* up or ended, and has asked for nothing more; or it was not there.       *)
Alike(w, x, q) ==
  /\ x.proc[q].state = w.proc[q].state /\ x.proc[q].of = w.proc[q].of
  /\ x.proc[q].asked = w.proc[q].asked
Turns(w, x, q) ==
  /\ w.proc[q].state # "none" /\ x.proc[q].state \in {"up", "gone"}
  /\ x.proc[q].of = w.proc[q].of
  /\ Withdrawn(w.proc[q].asked, x.proc[q].asked)
Fresh(w, x, q, s) ==
  /\ w.proc[q].state = "none" /\ x.proc[q].state # "none" /\ x.proc[q].of = s
  /\ DOMAIN x.proc[q].asked = {}

(* The supervisor s goes on, with its child, and no other does.            *)
ServerMoves(w, x, s) ==
  /\ \A t \in Servers \ {s} : x.server[t] = w.server[t]
  /\ x.server[s].child \in {0, w.server[s].child} \/ w.proc[x.server[s].child].state = "none"
  /\ \A q \in Procs : Alike(w, x, q) \/ (q = w.server[s].child /\ Turns(w, x, q)) \/ Fresh(w, x, q, s)

Alone(v) == [v EXCEPT !.phase = "stopped", !.child = 0]
Fronting(v, p) ==
  [v EXCEPT !.phase = "starting", !.child = p, !.awaiting = TRUE, !.tries = v.tries + 1]

WithServer(w, s, v) == [w EXCEPT !.server = [w.server EXCEPT ![s] = v]]
WithProc(w, p, r) == [w EXCEPT !.proc = [w.proc EXCEPT ![p] = r]]

(* One supervisor is replaced.                                             *)
LEMMA ServerSet ==
  ASSUME NEW w \in Supervisors, NEW s \in Servers, NEW v \in ServerRecord
  PROVE  /\ WithServer(w, s, v) \in Supervisors /\ WithServer(w, s, v).proc = w.proc
         /\ WithServer(w, s, v).server[s] = v
         /\ \A t \in Servers \ {s} : WithServer(w, s, v).server[t] = w.server[t]
  <1>1. w.server \in [Servers -> ServerRecord] /\ w.proc \in [Procs -> ProcRecord]
    BY DEF Supervisors
  <1> DEFINE f == [w.server EXCEPT ![s] = v]
  <1>2. f \in [Servers -> ServerRecord] /\ f[s] = v /\ \A t \in Servers \ {s} : f[t] = w.server[t]
    BY <1>1
  <1>3. WithServer(w, s, v) = [w EXCEPT !.server = f]
    BY DEF WithServer
  <1> HIDE DEF f
  <1>4. QED BY <1>1, <1>2, <1>3 DEF Supervisors

(* One process is replaced.                                                *)
LEMMA ProcSet ==
  ASSUME NEW w \in Supervisors, NEW p \in Procs, NEW r \in ProcRecord
  PROVE  /\ WithProc(w, p, r) \in Supervisors /\ WithProc(w, p, r).server = w.server
         /\ WithProc(w, p, r).proc[p] = r
         /\ \A q \in Procs \ {p} : WithProc(w, p, r).proc[q] = w.proc[q]
  <1>1. w.server \in [Servers -> ServerRecord] /\ w.proc \in [Procs -> ProcRecord]
    BY DEF Supervisors
  <1> DEFINE f == [w.proc EXCEPT ![p] = r]
  <1>2. f \in [Procs -> ProcRecord] /\ f[p] = r /\ \A q \in Procs \ {p} : f[q] = w.proc[q]
    BY <1>1
  <1>3. WithProc(w, p, r) = [w EXCEPT !.proc = f]
    BY DEF WithProc
  <1> HIDE DEF f
  <1>4. QED BY <1>1, <1>2, <1>3 DEF Supervisors

(* LetGo: the supervisor fronts nothing.                                   *)
LEMMA LetsGo ==
  ASSUME NEW w \in Supervisors, NEW s \in Servers
  PROVE  /\ LetGo(w, s) \in Supervisors /\ LetGo(w, s).proc = w.proc
         /\ LetGo(w, s).server[s] = Alone(w.server[s])
         /\ \A t \in Servers \ {s} : LetGo(w, s).server[t] = w.server[t]
  <1> DEFINE v == Alone(w.server[s])
  <1>1. w.server \in [Servers -> ServerRecord] /\ w.proc \in [Procs -> ProcRecord]
    BY DEF Supervisors
  <1>2. v \in ServerRecord
    BY <1>1 DEF ServerRecord, Alone
  <1>3. LetGo(w, s) = WithServer(w, s, v)
    BY DEF LetGo, WithServer, Alone
  <1>4. QED BY <1>2, <1>3, ServerSet

(* StartAttempt: the supervisor fronts the process it spawns.              *)
LEMMA Starts ==
  ASSUME NEW w \in Supervisors, NEW s \in Servers, NEW p \in Procs
  PROVE  /\ StartAttempt(w, s, p) \in Supervisors
         /\ StartAttempt(w, s, p).server[s] = Fronting(w.server[s], p)
         /\ \A t \in Servers \ {s} : StartAttempt(w, s, p).server[t] = w.server[t]
         /\ StartAttempt(w, s, p).proc[p] = Process("booting", s)
         /\ \A q \in Procs \ {p} : StartAttempt(w, s, p).proc[q] = w.proc[q]
  <1> DEFINE r == Process("booting", s)
             y == WithProc(w, p, r)
             v == Fronting(w.server[s], p)
  <1>1. r \in ProcRecord
    BY DEF ProcRecord, Process
  <1>2. Spawned(w, p, s) = y
    BY DEF Spawned, WithProc
  <1> HIDE DEF r
  <1>3. y \in Supervisors /\ y.server = w.server
    BY <1>1, ProcSet
  <1> HIDE DEF y
  <1>4. v \in ServerRecord
    <2>1. w.server[s] \in ServerRecord
      BY DEF Supervisors
    <2>2. w.server[s].tries + 1 \in Nat
      BY <2>1 DEF ServerRecord
    <2>3. \A b \in BOOLEAN, n \in Nat :
            [w.server[s] EXCEPT !.phase = "starting", !.child = p, !.awaiting = b, !.tries = n]
              \in ServerRecord
      BY <2>1 DEF ServerRecord
    <2>4. QED BY <2>2, <2>3 DEF Fronting
  <1>5. StartAttempt(w, s, p) = WithServer(y, s, v)
    BY <1>2, <1>3 DEF StartAttempt, WithServer, Fronting
  <1> HIDE DEF v
  <1>6. /\ WithServer(y, s, v) \in Supervisors /\ WithServer(y, s, v).proc = y.proc
        /\ WithServer(y, s, v).server[s] = v
        /\ \A t \in Servers \ {s} : WithServer(y, s, v).server[t] = w.server[t]
    BY <1>3, <1>4, ServerSet
  <1>7. y.proc[p] = r /\ \A q \in Procs \ {p} : y.proc[q] = w.proc[q]
    BY <1>1, ProcSet DEF y
  <1>8. QED BY <1>3, <1>5, <1>6, <1>7 DEF v, r

(* CancelAll: the requests that were pending are cancelled.                *)
LEMMA Cancelling ==
  ASSUME NEW asked \in Seq(AskRecord)
  PROVE  /\ CancelAll(asked) \in Seq(AskRecord)
         /\ Withdrawn(asked, CancelAll(asked))
  <1>1. \A n \in DOMAIN asked : asked[n] \in AskRecord
    OBVIOUS
  <1>2. \A n \in DOMAIN asked : /\ [asked[n] EXCEPT !.state = "cancelled"] \in AskRecord
                                /\ [asked[n] EXCEPT !.state = "cancelled"].state = "cancelled"
    BY <1>1 DEF AskRecord
  <1>3. QED BY <1>1, <1>2 DEF CancelAll, Withdrawn

(* Gone: a process that lived does no more.                                *)
LEMMA Goes ==
  ASSUME NEW w \in Supervisors, NEW p \in Procs \cup {0}
  PROVE  /\ Gone(w, p) \in Supervisors /\ Gone(w, p).server = w.server
         /\ \A q \in Procs \ {p} : Gone(w, p).proc[q] = w.proc[q]
         /\ ~Alive(w, p) => Gone(w, p) = w
         /\ Alive(w, p) => Turns(w, Gone(w, p), p) /\ p \in Procs
         /\ ~Alive(Gone(w, p), p)
  <1>1. w.server \in [Servers -> ServerRecord] /\ w.proc \in [Procs -> ProcRecord]
    BY DEF Supervisors
  <1>2. CASE ~Alive(w, p)
    BY <1>1, <1>2 DEF Gone
  <1>3. CASE Alive(w, p)
    <2> DEFINE r == [w.proc[p] EXCEPT !.state = "gone", !.asked = CancelAll(w.proc[p].asked)]
    <2>1. p \in Procs /\ w.proc[p] \in ProcRecord /\ w.proc[p].asked \in Seq(AskRecord)
          /\ w.proc[p].state # "none"
      BY <1>1, <1>3 DEF Alive, ProcRecord
    <2>2. r \in ProcRecord /\ r.state = "gone" /\ r.of = w.proc[p].of
          /\ r.asked = CancelAll(w.proc[p].asked)
      BY <2>1, Cancelling DEF ProcRecord
    <2>3. Gone(w, p) = WithProc(w, p, r)
      BY <1>3 DEF Gone, WithProc
    <2> HIDE DEF r
    <2>4. QED BY <1>3, <2>1, <2>2, <2>3, ProcSet, Cancelling DEF Alive, Turns
  <1>4. QED BY <1>2, <1>3

(* A supervisor and its child, which changes only what is said of it.      *)
LEMMA ServerSound ==
  ASSUME NEW w, Sound(w), NEW s \in Servers, NEW v \in ServerRecord,
         v.child = w.server[s].child, SoundServer(WithServer(w, s, v), s)
  PROVE  Sound(WithServer(w, s, v)) /\ ServerMoves(w, WithServer(w, s, v), s)
  <1> DEFINE x == WithServer(w, s, v)
  <1>1. /\ w \in Supervisors /\ x \in Supervisors /\ x.proc = w.proc /\ x.server[s] = v
        /\ \A t \in Servers \ {s} : x.server[t] = w.server[t]
    BY ServerSet DEF Sound
  <1> HIDE DEF x
  <1>2. \A t \in Servers : SoundServer(x, t)
    BY <1>1 DEF Sound, SoundServer, x
  <1>3. \A t \in Servers : x.server[t].child = w.server[t].child
    BY <1>1
  <1>4. \A q \in Procs : w.proc[q].of \in Servers \cup {0}
    BY <1>1 DEF Supervisors, ProcRecord
  <1>5. \A q \in Procs : Alive(x, q) /\ x.proc[q].of # 0 => x.server[x.proc[q].of].child = q
    BY <1>1, <1>3, <1>4 DEF Sound, Alive
  <1>6. QED BY <1>1, <1>2, <1>3, <1>5 DEF Sound, ServerMoves, Alike, x

(* Some are cancelled, then some more.                                     *)
LEMMA WithdrawnTwice ==
  ASSUME NEW a, NEW b, NEW c, Withdrawn(a, b), Withdrawn(b, c)
  PROVE  Withdrawn(a, c)
  BY DEF Withdrawn

(* Two moves of one supervisor are one.                                    *)
LEMMA MovesOn ==
  ASSUME NEW w, NEW y, NEW x, NEW s \in Servers, Sound(w), Sound(y), Sound(x),
         ServerMoves(w, y, s), ServerMoves(y, x, s)
  PROVE  ServerMoves(w, x, s)
  <1>1. \A t \in Servers \ {s} : x.server[t] = w.server[t]
    BY DEF ServerMoves
  <1>2. ASSUME NEW q \in Procs, y.proc[q].state = "none" PROVE w.proc[q].state = "none"
    BY <1>2 DEF ServerMoves, Alike, Turns, Fresh
  <1>3. /\ x.server[s].child \in Procs \cup {0} /\ y.server[s].child \in Procs \cup {0}
        /\ w.server[s].child \in Procs \cup {0} /\ 0 \notin Procs
    BY SupervisorAssumption DEF Sound, Supervisors, ServerRecord, Procs
  <1>4. x.server[s].child \in {0, w.server[s].child} \/ w.proc[x.server[s].child].state = "none"
    BY <1>2, <1>3 DEF ServerMoves
  <1>5. ASSUME NEW q \in Procs
        PROVE  Alike(w, x, q) \/ (q = w.server[s].child /\ Turns(w, x, q)) \/ Fresh(w, x, q, s)
    <2>1. CASE Alike(y, x, q)
      <3>1. Alike(w, y, q) \/ (q = w.server[s].child /\ Turns(w, y, q)) \/ Fresh(w, y, q, s)
        BY DEF ServerMoves
      <3>2. CASE Alike(w, y, q)
        BY <2>1, <3>2 DEF Alike
      <3>3. CASE q = w.server[s].child /\ Turns(w, y, q)
        BY <2>1, <3>3 DEF Alike, Turns
      <3>4. CASE Fresh(w, y, q, s)
        BY <2>1, <3>4 DEF Alike, Fresh
      <3>5. QED BY <3>1, <3>2, <3>3, <3>4
    <2>2. CASE Fresh(y, x, q, s)
      BY <1>2, <2>2 DEF Fresh
    <2>3. CASE q = y.server[s].child /\ Turns(y, x, q)
      <3>1. CASE q = w.server[s].child
        <4>1. CASE Alike(w, y, q)
          BY <2>3, <3>1, <4>1 DEF Alike, Turns
        <4>2. CASE Turns(w, y, q)
          <5>1. Withdrawn(w.proc[q].asked, x.proc[q].asked)
            BY <2>3, <4>2, WithdrawnTwice DEF Turns
          <5>2. QED BY <2>3, <3>1, <4>2, <5>1 DEF Turns
        <4>3. CASE Fresh(w, y, q, s)
          BY <2>3, <4>3 DEF Turns, Fresh, Withdrawn
        <4>4. Alike(w, y, q) \/ Turns(w, y, q) \/ Fresh(w, y, q, s)
          BY DEF ServerMoves
        <4>5. QED BY <4>1, <4>2, <4>3, <4>4
      <3>2. CASE w.proc[q].state = "none"
        <4>1. Fresh(w, y, q, s)
          BY <2>3, <3>2 DEF ServerMoves, Alike, Turns
        <4>2. QED BY <2>3, <4>1 DEF Turns, Fresh, Withdrawn
      <3>3. QED BY <1>3, <2>3, <3>1, <3>2 DEF ServerMoves
    <2>4. QED BY <2>1, <2>2, <2>3 DEF ServerMoves
  <1>6. QED BY <1>1, <1>4, <1>5 DEF ServerMoves

(* Gone: the supervisors and the other processes stay as they are.         *)
LEMMA ProcGoes ==
  ASSUME NEW w, Sound(w), NEW c \in Procs \cup {0}
  PROVE  LET x == Gone(w, c) IN
         /\ Sound(x) /\ x.server = w.server
         /\ \A q \in Procs : /\ x.proc[q] = w.proc[q] \/ (q = c /\ Turns(w, x, q))
                             /\ x.proc[q].of = w.proc[q].of
                             /\ x.proc[q].state = "none" <=> w.proc[q].state = "none"
                             /\ Alive(x, q) => Alive(w, q) /\ q # c
  <1> DEFINE x == Gone(w, c)
  <1>1. /\ w \in Supervisors /\ 0 \notin Procs /\ 0 \notin Servers
        /\ \A t \in Servers : w.server[t].child \in Procs \cup {0}
    BY SupervisorAssumption DEF Sound, Supervisors, ServerRecord, Procs, Servers
  <1>2. /\ x \in Supervisors /\ x.server = w.server
        /\ \A q \in Procs \ {c} : x.proc[q] = w.proc[q]
        /\ ~Alive(w, c) => x = w
        /\ Alive(w, c) => Turns(w, x, c) /\ c \in Procs
        /\ ~Alive(x, c)
    BY <1>1, Goes
  <1> HIDE DEF x
  <1>3. \A q \in Procs : x.proc[q] = w.proc[q] \/ (q = c /\ Turns(w, x, q))
    BY <1>2
  <1>4. \A q \in Procs : /\ x.proc[q].of = w.proc[q].of
                         /\ x.proc[q].state = "none" <=> w.proc[q].state = "none"
                         /\ x.proc[q].state = "up" => w.proc[q].state = "up" \/ q = c
                         /\ Alive(x, q) => Alive(w, q) /\ q # c
    BY <1>2, <1>3 DEF Turns, Alive
  <1>5. ASSUME NEW t \in Servers PROVE SoundServer(x, t)
    <2>1. x.server[t].child # 0 => x.proc[x.server[t].child].of = t
      BY <1>1, <1>2, <1>4 DEF Sound, SoundServer
    <2>2. CASE x.server[t].child # c
      BY <1>1, <1>2, <1>4, <2>2 DEF Sound, SoundServer
    <2>3. CASE x.server[t].child = c
      BY <1>1, <1>2, <1>4, <2>3 DEF Sound, SoundServer, Alive
    <2>4. QED BY <2>2, <2>3
  <1>6. \A q \in Procs : Alive(x, q) /\ x.proc[q].of # 0 => x.server[x.proc[q].of].child = q
    BY <1>2, <1>4 DEF Sound
  <1>7. QED BY <1>2, <1>3, <1>4, <1>5, <1>6 DEF Sound, x

(* Gone, of the child of a supervisor.                                     *)
LEMMA ChildGoes ==
  ASSUME NEW w, Sound(w), NEW s \in Servers
  PROVE  LET x == Gone(w, w.server[s].child) IN
         /\ Sound(x) /\ ServerMoves(w, x, s) /\ x.server = w.server
         /\ \A q \in Procs : /\ ~(Alive(x, q) /\ x.proc[q].of = s)
                             /\ w.proc[q].state = "none" => x.proc[q].state = "none"
  <1> DEFINE c == w.server[s].child
             x == Gone(w, c)
  <1>1. c \in Procs \cup {0} /\ 0 \notin Servers
    BY SupervisorAssumption DEF Sound, Supervisors, ServerRecord, Servers
  <1>2. /\ Sound(x) /\ x.server = w.server
        /\ \A q \in Procs : /\ x.proc[q] = w.proc[q] \/ (q = c /\ Turns(w, x, q))
                            /\ x.proc[q].of = w.proc[q].of
                            /\ x.proc[q].state = "none" <=> w.proc[q].state = "none"
                            /\ Alive(x, q) => Alive(w, q) /\ q # c
    BY <1>1, ProcGoes
  <1> HIDE DEF x
  <1>3. \A q \in Procs : ~(Alive(x, q) /\ x.proc[q].of = s)
    BY <1>1, <1>2 DEF Sound
  <1>4. QED BY <1>2, <1>3 DEF ServerMoves, Alike, x

(* Disposed: the child dies and the supervisor fronts nothing.             *)
LEMMA Disposes ==
  ASSUME NEW w, Sound(w), NEW s \in Servers
  PROVE  LET x == Disposed(w, s) IN
         /\ Sound(x) /\ ServerMoves(w, x, s) /\ x.server[s] = Alone(w.server[s])
         /\ \A q \in Procs : /\ ~(Alive(x, q) /\ x.proc[q].of = s)
                             /\ w.proc[q].state = "none" => x.proc[q].state = "none"
  <1> DEFINE y == Gone(w, w.server[s].child)
             x == Disposed(w, s)
  <1>1. /\ Sound(y) /\ ServerMoves(w, y, s) /\ y.server = w.server
        /\ \A q \in Procs : /\ ~(Alive(y, q) /\ y.proc[q].of = s)
                            /\ w.proc[q].state = "none" => y.proc[q].state = "none"
    BY ChildGoes
  <1>2. x = LetGo(y, s)
    BY DEF Disposed
  <1> HIDE DEF y, x
  <1>3. /\ x \in Supervisors /\ x.proc = y.proc /\ x.server[s] = Alone(w.server[s])
        /\ \A t \in Servers \ {s} : x.server[t] = y.server[t]
    BY <1>1, <1>2, LetsGo DEF Sound
  <1>4. w.server[s] \in ServerRecord /\ \A q \in Procs : y.proc[q].of \in Servers \cup {0}
    BY <1>1 DEF Sound, Supervisors, ProcRecord
  <1>5. /\ x.server[s].phase = "stopped" /\ x.server[s].child = 0
        /\ x.server[s].awaiting = w.server[s].awaiting
        /\ x.server[s].dialog = w.server[s].dialog
    BY <1>3, <1>4 DEF ServerRecord, Alone
  <1>6. SoundServer(x, s)
    BY <1>5 DEF Sound, SoundServer
  <1>7. ASSUME NEW t \in Servers \ {s} PROVE SoundServer(x, t)
    <2>1. SoundServer(y, t)
      BY <1>1 DEF Sound
    <2>2. x.server[t] = y.server[t] /\ x.proc = y.proc
      BY <1>3
    <2>3. QED BY <2>1, <2>2 DEF SoundServer
  <1>8. \A q \in Procs : Alive(x, q) /\ x.proc[q].of # 0 => x.server[x.proc[q].of].child = q
    BY <1>1, <1>3, <1>4 DEF Sound, Alive
  <1>9. Sound(x) /\ \A q \in Procs : ~(Alive(x, q) /\ x.proc[q].of = s)
    BY <1>1, <1>3, <1>6, <1>7, <1>8 DEF Sound, Alive
  <1>10. ServerMoves(y, x, s)
    BY <1>3, <1>5 DEF ServerMoves, Alike
  <1>11. QED BY <1>1, <1>3, <1>9, <1>10, MovesOn DEF x

(* What moves one supervisor leaves the children of the others alone.      *)
LEMMA OthersStay ==
  ASSUME NEW w, NEW x, NEW s \in Servers, Sound(w), ServerMoves(w, x, s), NEW t \in Servers \ {s}
  PROVE  /\ x.server[t] = w.server[t]
         /\ Alive(x, w.server[t].child) => Alive(w, w.server[t].child)
  <1>1. x.server[t] = w.server[t]
    BY DEF ServerMoves
  <1>2. ASSUME Alive(x, w.server[t].child) PROVE Alive(w, w.server[t].child)
    <2>1. /\ w.server[t].child \in Procs /\ SoundServer(w, t) /\ SoundServer(w, s)
          /\ w.server[t].child # 0 /\ 0 \notin Procs
      BY <1>2, SupervisorAssumption DEF Sound, Supervisors, ServerRecord, Alive, Procs
    <2>2. /\ w.proc[w.server[t].child].of = t
          /\ w.proc[w.server[t].child].state # "none"
          /\ w.server[s].child # w.server[t].child
      BY <2>1 DEF SoundServer
    <2>3. Alike(w, x, w.server[t].child)
      BY <2>1, <2>2 DEF ServerMoves, Fresh
    <2>4. QED BY <1>2, <2>3 DEF Alive, Alike
  <1>3. QED BY <1>1, <1>2

(* A supervisor whose last child is dead fronts a fresh one.               *)
LEMMA AttemptIsSound ==
  ASSUME NEW w, Sound(w), NEW s \in Servers, NEW p \in Procs, w.proc[p].state = "none",
         \A q \in Procs : ~(Alive(w, q) /\ w.proc[q].of = s), NEW x \in Supervisors,
         x.server[s].phase = "starting", x.server[s].child = p, x.server[s].dialog # "crashed",
         \A t \in Servers \ {s} : x.server[t] = w.server[t],
         x.proc[p] = Process("booting", s), \A q \in Procs \ {p} : x.proc[q] = w.proc[q]
  PROVE  Sound(x) /\ ServerMoves(w, x, s)
  <1>1. /\ w \in Supervisors /\ 0 \notin Procs /\ 0 \notin Servers
        /\ \A t \in Servers : SoundServer(w, t)
        /\ \A q \in Procs : Alive(w, q) /\ w.proc[q].of # 0 => w.server[w.proc[q].of].child = q
    BY SupervisorAssumption DEF Sound, Procs, Servers
  <1>2. /\ \A t \in Servers : w.server[t].child \in Procs \cup {0}
        /\ \A q \in Procs : w.proc[q].of \in Servers \cup {0}
    BY <1>1 DEF Supervisors, ServerRecord, ProcRecord
  <1>3. x.proc[p].state = "booting" /\ x.proc[p].of = s /\ DOMAIN x.proc[p].asked = {}
    BY DEF Process
  <1>4. SoundServer(x, s)
    BY <1>1, <1>3 DEF SoundServer
  <1>5. \A t \in Servers \ {s} : SoundServer(x, t)
    BY <1>1, <1>2, SMTT(30) DEF SoundServer
  <1>6. ASSUME NEW q \in Procs, Alive(x, q), x.proc[q].of # 0 PROVE x.server[x.proc[q].of].child = q
    <2>1. CASE q = p
      BY <1>3, <2>1
    <2>2. CASE q # p
      <3>1. x.proc[q] = w.proc[q] /\ Alive(w, q) /\ w.proc[q].of \in Servers \ {s}
        BY <1>2, <1>6, <2>2 DEF Alive
      <3>2. QED BY <1>1, <1>6, <3>1
    <2>3. QED BY <2>1, <2>2
  <1>7. ServerMoves(w, x, s)
    BY <1>3 DEF ServerMoves, Alike, Fresh
  <1>8. QED BY <1>4, <1>5, <1>6, <1>7 DEF Sound

(* StartAttempt, of a supervisor whose last child is dead.                 *)
LEMMA Attempts ==
  ASSUME NEW w, Sound(w), NEW s \in Servers, NEW p \in Procs, w.proc[p].state = "none",
         \A q \in Procs : ~(Alive(w, q) /\ w.proc[q].of = s),
         w.server[s].dialog # "crashed"
  PROVE  LET x == StartAttempt(w, s, p) IN
         /\ Sound(x) /\ ServerMoves(w, x, s) /\ x.server[s] = Fronting(w.server[s], p)
  <1> DEFINE x == StartAttempt(w, s, p)
  <1>1. w \in Supervisors /\ w.server[s] \in ServerRecord
    BY DEF Sound, Supervisors
  <1> HIDE DEF x
  <1>2. /\ x \in Supervisors
        /\ x.server[s] = Fronting(w.server[s], p)
        /\ \A t \in Servers \ {s} : x.server[t] = w.server[t]
        /\ x.proc[p] = Process("booting", s)
        /\ \A q \in Procs \ {p} : x.proc[q] = w.proc[q]
    BY <1>1, Starts DEF x
  <1>3. /\ x.server[s].phase = "starting" /\ x.server[s].child = p
        /\ x.server[s].dialog = w.server[s].dialog
    BY <1>1, <1>2 DEF ServerRecord, Fronting
  <1>4. Sound(x) /\ ServerMoves(w, x, s)
    BY <1>2, <1>3, AttemptIsSound
  <1>5. QED BY <1>2, <1>4 DEF x

(* HelloLost: the child is killed; one more is tried, or start() rejects.  *)
LEMMA LosesHello ==
  ASSUME NEW w, Sound(w), NEW s \in Servers, NEW p \in Procs, w.proc[p].state = "none",
         w.server[s].awaiting
  PROVE  LET x == HelloLost(w, s, p) IN
         /\ Sound(x) /\ ServerMoves(w, x, s)
         /\ x.server[s].ending = w.server[s].ending /\ x.server[s].dialog = w.server[s].dialog
         /\ x.server[s].awaiting \/ x.server[s].child = 0
  <1> DEFINE d == Disposed(w, s)
             x == HelloLost(w, s, p)
             v == [d.server[s] EXCEPT !.awaiting = FALSE, !.tries = 0]
  <1>1. /\ Sound(d) /\ ServerMoves(w, d, s) /\ d.server[s] = Alone(w.server[s])
        /\ \A q \in Procs : ~(Alive(d, q) /\ d.proc[q].of = s)
        /\ d.proc[p].state = "none"
    BY Disposes
  <1>2. w.server[s] \in ServerRecord /\ w.server[s].dialog # "crashed"
    BY DEF Sound, Supervisors, SoundServer
  <1>3. /\ d.server[s] \in ServerRecord /\ d.server[s].child = 0 /\ d.server[s].phase = "stopped"
        /\ d.server[s].ending = w.server[s].ending /\ d.server[s].dialog = w.server[s].dialog
    BY <1>1, <1>2 DEF ServerRecord, Alone
  <1>4. x = IF w.server[s].tries = 1 THEN StartAttempt(d, s, p) ELSE WithServer(d, s, v)
    BY DEF HelloLost, WithServer
  <1> HIDE DEF d, x
  <1>5. CASE x = StartAttempt(d, s, p)
    <2>1. Sound(x) /\ ServerMoves(d, x, s) /\ x.server[s] = Fronting(d.server[s], p)
      BY <1>1, <1>2, <1>3, <1>5, Attempts
    <2>2. /\ x.server[s].ending = d.server[s].ending /\ x.server[s].dialog = d.server[s].dialog
          /\ x.server[s].awaiting
      BY <1>3, <2>1 DEF ServerRecord, Fronting
    <2>3. QED BY <1>1, <1>3, <2>1, <2>2, MovesOn DEF x
  <1>6. CASE x = WithServer(d, s, v)
    <2>1. /\ v \in ServerRecord /\ v.child = 0 /\ v.phase = "stopped" /\ ~v.awaiting
          /\ v.ending = w.server[s].ending /\ v.dialog = w.server[s].dialog
      <3>1. \A b \in BOOLEAN, n \in Nat : [d.server[s] EXCEPT !.awaiting = b, !.tries = n] \in ServerRecord
        BY <1>3 DEF ServerRecord
      <3>2. v \in ServerRecord
        BY <3>1
      <3>3. QED BY <1>3, <3>2 DEF ServerRecord
    <2> HIDE DEF v
    <2>2. x.server[s] = v
      BY <1>1, <1>6, <2>1, ServerSet DEF Sound
    <2>3. SoundServer(WithServer(d, s, v), s)
      BY <1>2, <1>6, <2>1, <2>2 DEF SoundServer
    <2>4. Sound(x) /\ ServerMoves(d, x, s)
      BY <1>1, <1>3, <1>6, <2>1, <2>3, ServerSound
    <2>5. QED BY <1>1, <2>1, <2>2, <2>4, MovesOn DEF x
  <1>7. QED BY <1>4, <1>5, <1>6

(* EndsShutdown: nothing is left of the supervisor's child and its start.  *)
LEMMA ShutsDown ==
  ASSUME NEW w, Sound(w), NEW s \in Servers
  PROVE  LET x == EndsShutdown(w, s) IN
         /\ Sound(x) /\ ServerMoves(w, x, s)
         /\ x.server[s].ending = 0 /\ x.server[s].child = 0 /\ ~x.server[s].awaiting
         /\ x.server[s].dialog = w.server[s].dialog
  <1> DEFINE d == Disposed(w, s)
             x == EndsShutdown(w, s)
             v == [d.server[s] EXCEPT !.ending = 0, !.awaiting = FALSE, !.tries = 0]
  <1>1. Sound(d) /\ ServerMoves(w, d, s) /\ d.server[s] = Alone(w.server[s])
    BY Disposes
  <1>2. w.server[s] \in ServerRecord
    BY DEF Sound, Supervisors
  <1>3. /\ d.server[s] \in ServerRecord /\ d.server[s].child = 0 /\ d.server[s].phase = "stopped"
        /\ d.server[s].dialog = w.server[s].dialog
    BY <1>1, <1>2 DEF ServerRecord, Alone
  <1>4. x = WithServer(d, s, v)
    BY DEF EndsShutdown, WithServer
  <1> HIDE DEF d, x
  <1>5. /\ v \in ServerRecord /\ v.child = 0 /\ v.phase = "stopped" /\ ~v.awaiting
        /\ v.ending = 0 /\ v.dialog = w.server[s].dialog
    <2>1. \A b \in BOOLEAN, n \in Nat :
            [d.server[s] EXCEPT !.ending = 0, !.awaiting = b, !.tries = n] \in ServerRecord
      BY <1>3 DEF ServerRecord
    <2>2. v \in ServerRecord
      BY <2>1
    <2>3. QED BY <1>3, <2>2 DEF ServerRecord
  <1> HIDE DEF v
  <1>6. x.server[s] = v
    BY <1>1, <1>4, <1>5, ServerSet DEF Sound
  <1>7. SoundServer(WithServer(d, s, v), s)
    BY <1>4, <1>5, <1>6 DEF SoundServer
  <1>8. Sound(x) /\ ServerMoves(d, x, s)
    BY <1>1, <1>3, <1>4, <1>5, <1>7, ServerSound
  <1>9. QED BY <1>1, <1>5, <1>6, <1>8, MovesOn DEF x

(* Serves: the child has said hello.                                       *)
LEMMA Serving ==
  ASSUME NEW w, Sound(w), NEW s \in Servers, Alive(w, w.server[s].child), w.server[s].awaiting
  PROVE  LET x == Serves(w, s) IN
         /\ Sound(x) /\ ServerMoves(w, x, s) /\ x.server[s].phase = "running"
         /\ x.server[s].ending = w.server[s].ending /\ x.server[s].child = w.server[s].child
         /\ x.server[s].dialog = w.server[s].dialog
  <1> DEFINE c == w.server[s].child
             v == [w.server[s] EXCEPT !.phase = "running", !.awaiting = FALSE, !.tries = 0]
             y == WithServer(w, s, v)
             r == [y.proc[c] EXCEPT !.state = "up"]
             x == Serves(w, s)
  <1>1. /\ w \in Supervisors /\ w.server[s] \in ServerRecord /\ c \in Procs
        /\ w.server[s].dialog # "crashed" /\ w.proc[c].of = s /\ w.proc[c].state # "none"
    BY DEF Sound, Supervisors, ServerRecord, SoundServer, Alive
  <1>2. /\ v \in ServerRecord /\ v.child = c /\ v.phase = "running" /\ ~v.awaiting
        /\ v.ending = w.server[s].ending /\ v.dialog = w.server[s].dialog
    <2>1. \A b \in BOOLEAN, n \in Nat :
            [w.server[s] EXCEPT !.phase = "running", !.awaiting = b, !.tries = n] \in ServerRecord
      BY <1>1 DEF ServerRecord
    <2>2. v \in ServerRecord
      BY <2>1
    <2>3. QED BY <1>1, <2>2 DEF ServerRecord
  <1>3. x = WithProc(y, c, r)
    BY DEF Serves, WithProc, WithServer
  <1> HIDE DEF v
  <1>4. /\ y \in Supervisors /\ y.proc = w.proc /\ y.server[s] = v
        /\ \A t \in Servers \ {s} : y.server[t] = w.server[t]
    BY <1>1, <1>2, ServerSet
  <1> HIDE DEF y, x
  <1>5. SoundServer(y, s)
    BY <1>1, <1>2, <1>4, SupervisorAssumption DEF SoundServer, Procs
  <1>6. Sound(y) /\ ServerMoves(w, y, s)
    BY <1>1, <1>2, <1>5, ServerSound DEF y
  <1>7. r \in ProcRecord /\ r.state = "up" /\ r.of = s /\ r.asked = w.proc[c].asked
    <2>1. w.proc[c] \in ProcRecord
      BY <1>1 DEF Supervisors
    <2>2. QED BY <1>1, <1>4, <2>1 DEF ProcRecord
  <1> HIDE DEF r
  <1>8. /\ x \in Supervisors /\ x.server = y.server /\ x.proc[c] = r
        /\ \A q \in Procs \ {c} : x.proc[q] = y.proc[q]
    BY <1>1, <1>3, <1>4, <1>7, ProcSet
  <1>9. ASSUME NEW t \in Servers \ {s} PROVE SoundServer(x, t)
    <2>1. SoundServer(y, t) /\ y.server[t] = w.server[t]
      BY <1>4, <1>6 DEF Sound
    <2>2. y.server[t].child \in Procs \cup {0}
      BY <1>4 DEF Supervisors, ServerRecord
    <2>3. y.server[t].child # c
      <3>1. y.proc[c].of = s /\ c # 0
        BY <1>1, <1>4, SupervisorAssumption DEF Sound, SoundServer, Procs
      <3>2. QED BY <2>1, <3>1 DEF SoundServer
    <2>4. x.server[t] = y.server[t] /\ (y.server[t].child # 0 => x.proc[y.server[t].child] = y.proc[y.server[t].child])
      BY <1>8, <2>2, <2>3
    <2>5. QED BY <2>1, <2>4 DEF SoundServer
  <1>10. SoundServer(x, s)
    BY <1>1, <1>2, <1>4, <1>5, <1>7, <1>8 DEF SoundServer
  <1>11. ASSUME NEW q \in Procs, Alive(x, q), x.proc[q].of # 0 PROVE x.server[x.proc[q].of].child = q
    BY <1>1, <1>2, <1>4, <1>6, <1>7, <1>8, <1>11 DEF Sound, Alive
  <1>12. Sound(x)
    BY <1>8, <1>9, <1>10, <1>11 DEF Sound
  <1>13. ServerMoves(y, x, s)
    BY <1>1, <1>2, <1>4, <1>7, <1>8 DEF ServerMoves, Alike, Turns, Withdrawn
  <1>14. QED BY <1>2, <1>4, <1>6, <1>8, <1>12, <1>13, MovesOn DEF x

ServedBy(v) == v.phase = "running" \/ v.awaiting \/ v.dialog # "none"

(* Exits: the crash, the failed start or the end of a shutdown that the    *)
(* exit of the child is, or two of them.                                   *)
LEMMA Exiting ==
  ASSUME NEW w, Sound(w), NEW s \in Servers, NEW p \in Procs, w.proc[p].state = "none",
         Alive(w, w.server[s].child)
  PROVE  LET x == Exits(w, s, p) IN
         /\ Sound(x) /\ ServerMoves(w, x, s)
         /\ \/ x.server[s].ending = w.server[s].ending
            \/ x.server[s].ending = 0 /\ x.server[s].child = 0
         /\ w.server[s].awaiting /\ ~x.server[s].awaiting => x.server[s].child = 0
         /\ w.server[s].ending = 0 /\ ServedBy(w.server[s])
              => ServedBy(x.server[s]) \/ (w.server[s].awaiting /\ ~x.server[s].awaiting)
  <1> DEFINE c == w.server[s].child
             gone == Gone(w, c)
             d == Disposed(gone, s)
             v == [d.server[s] EXCEPT !.dialog = "crashed"]
             after == IF w.server[s].phase = "running" THEN WithServer(d, s, v)
                      ELSE IF w.server[s].awaiting THEN HelloLost(gone, s, p)
                      ELSE gone
             x == Exits(w, s, p)
  <1>1. /\ Sound(gone) /\ ServerMoves(w, gone, s) /\ gone.server = w.server
        /\ gone.proc[p].state = "none"
    BY ChildGoes
  <1>2. x = IF w.server[s].ending = c THEN EndsShutdown(after, s) ELSE after
    BY DEF Exits, WithServer
  <1>3. w.server[s] \in ServerRecord /\ c # 0 /\ SoundServer(w, s)
    BY DEF Sound, Supervisors, Alive
  <1> HIDE DEF gone, x, after
  <1>4. /\ Sound(after) /\ ServerMoves(w, after, s)
        /\ after.server[s].ending = w.server[s].ending
        /\ w.server[s].awaiting /\ ~after.server[s].awaiting => after.server[s].child = 0
        /\ ServedBy(w.server[s])
             => ServedBy(after.server[s]) \/ (w.server[s].awaiting /\ ~after.server[s].awaiting)
    <2>1. CASE w.server[s].phase = "running"
      <3>1. Sound(d) /\ ServerMoves(gone, d, s) /\ d.server[s] = Alone(w.server[s])
        BY <1>1, Disposes
      <3> HIDE DEF d
      <3>2. /\ d.server[s] \in ServerRecord /\ d.server[s].child = 0 /\ d.server[s].phase = "stopped"
            /\ d.server[s].ending = w.server[s].ending /\ ~d.server[s].awaiting
        BY <1>3, <2>1, <3>1 DEF ServerRecord, Alone, SoundServer
      <3>3. /\ v \in ServerRecord /\ v.child = 0 /\ v.phase = "stopped" /\ ~v.awaiting
            /\ v.ending = w.server[s].ending /\ v.dialog = "crashed"
        BY <3>2 DEF ServerRecord
      <3> HIDE DEF v
      <3>4. after = WithServer(d, s, v)
        BY <2>1 DEF after
      <3>5. after.server[s] = v
        BY <3>1, <3>3, <3>4, ServerSet DEF Sound
      <3>6. SoundServer(WithServer(d, s, v), s)
        BY <3>3, <3>4, <3>5 DEF SoundServer
      <3>7. Sound(after) /\ ServerMoves(d, after, s)
        BY <3>1, <3>2, <3>3, <3>4, <3>6, ServerSound
      <3>8. ServerMoves(gone, after, s)
        BY <1>1, <3>1, <3>7, MovesOn
      <3>9. QED BY <1>1, <3>3, <3>5, <3>7, <3>8, MovesOn DEF ServedBy
    <2>2. CASE w.server[s].phase # "running" /\ w.server[s].awaiting
      <3>1. after = HelloLost(gone, s, p)
        BY <2>2 DEF after
      <3>2. /\ Sound(after) /\ ServerMoves(gone, after, s)
            /\ after.server[s].ending = w.server[s].ending
            /\ after.server[s].awaiting \/ after.server[s].child = 0
        BY <1>1, <2>2, <3>1, LosesHello
      <3>3. QED BY <1>1, <2>2, <3>2, MovesOn DEF ServedBy
    <2>3. CASE w.server[s].phase # "running" /\ ~w.server[s].awaiting
      <3>1. after = gone
        BY <2>3 DEF after
      <3>2. QED BY <1>1, <2>3, <3>1
    <2>4. QED BY <2>1, <2>2, <2>3
  <1>5. CASE w.server[s].ending = c
    <2>1. /\ Sound(x) /\ ServerMoves(after, x, s)
          /\ x.server[s].ending = 0 /\ x.server[s].child = 0
      BY <1>2, <1>4, <1>5, ShutsDown
    <2>2. QED BY <1>3, <1>4, <1>5, <2>1, MovesOn DEF x
  <1>6. CASE w.server[s].ending # c
    BY <1>2, <1>4, <1>6 DEF x
  <1>7. QED BY <1>5, <1>6

(* BeginsShutdown: the child is told, and the shutdown waits for it.       *)
LEMMA Shuts ==
  ASSUME NEW w, Sound(w), NEW s \in Servers
  PROVE  LET x == BeginsShutdown(w, s) IN
         /\ Sound(x) /\ ServerMoves(w, x, s) /\ \A q \in Procs : Alike(w, x, q)
         /\ x.server[s].child = w.server[s].child
         /\ w.server[s].phase \in {"stopped", "stopping"} => x = w
         /\ w.server[s].phase \notin {"stopped", "stopping"} => x.server[s].ending # 0
  <1> DEFINE c == w.server[s].child
             y == Told(w, c)
             v == [y.server[s] EXCEPT !.phase = "stopping", !.ending = c]
             r == [w.proc[c] EXCEPT !.told = TRUE]
             x == BeginsShutdown(w, s)
  <1>1. CASE w.server[s].phase \in {"stopped", "stopping"}
    <2>1. x = w
      BY <1>1 DEF BeginsShutdown
    <2>2. QED BY <1>1, <2>1 DEF ServerMoves, Alike
  <1>2. CASE w.server[s].phase \notin {"stopped", "stopping"}
    <2>1. /\ w \in Supervisors /\ w.server[s] \in ServerRecord /\ c \in Procs /\ c # 0
          /\ w.proc[c] \in ProcRecord /\ SoundServer(w, s)
      <3>1. w \in Supervisors /\ SoundServer(w, s)
        BY DEF Sound
      <3>2. w.server[s] \in ServerRecord /\ c # 0
        BY <1>2, <3>1 DEF Supervisors, SoundServer
      <3>3. c \in Procs
        BY <3>2 DEF ServerRecord
      <3>4. QED BY <3>1, <3>2, <3>3 DEF Supervisors
    <2>2. y = WithProc(w, c, r)
      BY DEF Told, WithProc
    <2>3. r \in ProcRecord /\ r.state = w.proc[c].state /\ r.of = w.proc[c].of
          /\ r.asked = w.proc[c].asked
      <3>1. \A b \in BOOLEAN : [w.proc[c] EXCEPT !.told = b] \in ProcRecord
        BY <2>1 DEF ProcRecord
      <3>2. r \in ProcRecord
        BY <3>1
      <3>3. QED BY <2>1, <3>2 DEF ProcRecord
    <2>4. x = WithServer(y, s, v)
      BY <1>2 DEF BeginsShutdown, WithServer
    <2> HIDE DEF r, x, y
    <2>5. /\ y \in Supervisors /\ y.server = w.server /\ y.proc[c] = r
          /\ \A q \in Procs \ {c} : y.proc[q] = w.proc[q]
      BY <2>1, <2>2, <2>3, ProcSet
    <2>6. \A q \in Procs : Alike(w, y, q)
      BY <2>3, <2>5 DEF Alike
    <2>7. /\ v \in ServerRecord /\ v.child = c /\ v.phase = "stopping" /\ v.ending = c
          /\ v.awaiting = w.server[s].awaiting /\ v.dialog = w.server[s].dialog
      BY <2>1, <2>5 DEF ServerRecord
    <2> HIDE DEF v
    <2>8. Sound(y) /\ ServerMoves(w, y, s)
      <3>1. \A t \in Servers : w.server[t].child \in Procs \cup {0}
        BY <2>1 DEF Supervisors, ServerRecord
      <3>2. \A t \in Servers : SoundServer(y, t)
        BY <2>5, <2>6, <3>1 DEF Sound, SoundServer, Alike
      <3>3. QED BY <2>5, <2>6, <3>2 DEF Sound, Alive, Alike, ServerMoves
    <2>9. x \in Supervisors /\ x.proc = y.proc /\ x.server[s] = v
      BY <2>4, <2>5, <2>7, ServerSet
    <2>10. SoundServer(WithServer(y, s, v), s)
      <3>1. y.proc[c].state = w.proc[c].state /\ y.proc[c].of = w.proc[c].of
        BY <2>3, <2>5
      <3>2. QED BY <2>1, <2>4, <2>7, <2>9, <3>1 DEF SoundServer
    <2>11. Sound(x) /\ ServerMoves(y, x, s)
      BY <2>4, <2>5, <2>7, <2>8, <2>10, ServerSound
    <2>12. QED BY <1>2, <2>1, <2>6, <2>7, <2>8, <2>9, <2>11, MovesOn DEF Alike, x
  <1>3. QED BY <1>1, <1>2

(* Told: the process will stop.                                            *)
LEMMA Telling ==
  ASSUME NEW w, Sound(w), NEW p \in Procs
  PROVE  LET x == Told(w, p) IN
         Sound(x) /\ x.server = w.server /\ \A q \in Procs : Alike(w, x, q)
  <1> DEFINE r == [w.proc[p] EXCEPT !.told = TRUE]
             x == Told(w, p)
  <1>1. w \in Supervisors /\ w.proc[p] \in ProcRecord
    BY DEF Sound, Supervisors
  <1>2. x = WithProc(w, p, r)
    BY DEF Told, WithProc
  <1>3. r \in ProcRecord /\ r.state = w.proc[p].state /\ r.of = w.proc[p].of
        /\ r.asked = w.proc[p].asked
    <2>1. \A b \in BOOLEAN : [w.proc[p] EXCEPT !.told = b] \in ProcRecord
      BY <1>1 DEF ProcRecord
    <2>2. r \in ProcRecord
      BY <2>1
    <2>3. QED BY <1>1, <2>2 DEF ProcRecord
  <1> HIDE DEF r, x
  <1>4. /\ x \in Supervisors /\ x.server = w.server /\ x.proc[p] = r
        /\ \A q \in Procs \ {p} : x.proc[q] = w.proc[q]
    BY <1>1, <1>2, <1>3, ProcSet
  <1>5. \A q \in Procs : Alike(w, x, q)
    BY <1>3, <1>4 DEF Alike
  <1>6. \A t \in Servers : w.server[t].child \in Procs \cup {0}
    BY <1>1 DEF Supervisors, ServerRecord
  <1>7. \A t \in Servers : SoundServer(x, t)
    BY <1>4, <1>5, <1>6 DEF Sound, SoundServer, Alike
  <1>8. QED BY <1>4, <1>5, <1>7 DEF Sound, Alive, Alike, x

(* WithDaemon: a session daemon is no child of a supervisor.               *)
LEMMA DaemonStarts ==
  ASSUME Sound(local), NEW d \in Procs, local.proc[d].state = "none", d # daemon
  PROVE  LET x == WithDaemon(d) IN
         /\ Sound(x) /\ x.server = local.server
         /\ x.proc[d].state = "up" /\ x.proc[d].of = 0 /\ DOMAIN x.proc[d].asked = {}
         /\ \A q \in Procs \ {d} : Alike(local, x, q)
  <1> DEFINE r == Process("up", 0)
             x == WithDaemon(d)
  <1>1. local \in Supervisors
    BY DEF Sound
  <1>2. x = WithProc(local, d, r)
    BY DEF WithDaemon, WithProc
  <1>3. r \in ProcRecord /\ r.state = "up" /\ r.of = 0 /\ DOMAIN r.asked = {}
    BY DEF ProcRecord, Process
  <1> HIDE DEF r, x
  <1>4. /\ x \in Supervisors /\ x.server = local.server /\ x.proc[d] = r
        /\ \A q \in Procs \ {d} : x.proc[q] = local.proc[q]
    BY <1>1, <1>2, <1>3, ProcSet
  <1>5. \A t \in Servers : /\ local.server[t].child \in Procs \cup {0}
                           /\ local.server[t].child # 0 => local.server[t].child # d
    <2>1. \A t \in Servers : local.server[t].child \in Procs \cup {0}
      BY <1>1 DEF Supervisors, ServerRecord
    <2>2. QED BY <2>1 DEF Sound, SoundServer
  <1>6. \A t \in Servers : SoundServer(x, t)
    BY <1>4, <1>5 DEF Sound, SoundServer
  <1>7. \A q \in Procs : Alive(x, q) /\ x.proc[q].of # 0 => x.server[x.proc[q].of].child = q
    BY <1>3, <1>4 DEF Sound, Alive
  <1>8. QED BY <1>3, <1>4, <1>6, <1>7 DEF Sound, Alike, x

----------------------------------------------------------------------------
(* The session calls: which server the window is on, and who still has a   *)
(* use for the others.                                                     *)

HandleStates ==
  {"none", "starting", "connected", "lost", "auth-required", "retrying", "superseded", "closed"}
CallStages ==
  {"new", "shipping", "retrying", "attaching", "configuring", "spawning", "leaving", "over"}
CallFields ==
  [kind : {"none", "start", "disconnect", "end"}, at : CallStages, retried : Handles \cup {0}]
CallRecord == {r \in CallFields : r.at = "retrying" => r.retried \in Handles}
Routers == {Local(s) : s \in Servers} \cup {Remote(h) : h \in Handles}

SessionTypes ==
  /\ router \in Routers
  /\ handle \in [Handles -> HandleStates]
  /\ daemon \in Procs \cup {0}
  /\ call \in [Calls -> CallRecord]
  /\ \A d \in dialogs : d.of \in Routers /\ d.asker \in Procs

(* The supervisor of a call that was not made yet is as it was created.    *)
NewCallsInv ==
  \A o \in Calls : call[o].kind = "none" =>
    call[o].at = "new" /\ local.server[ServerOf(o)] = NewServer

(* The window comes to a local server once, when the start it was made for *)
(* is over, and a shutdown of it begins only when it leaves.               *)
RouterInv ==
  /\ \A s \in Servers : local.server[s].ending # 0 => router # Local(s) /\ Starters(s) = {}
  /\ \A s \in Servers : router = Local(s) => Starters(s) = {}
  /\ \A h \in Handles : router = Remote(h) => call[h].at = "over"

Unserving == {"none", "starting", "closed"}
WindowInv ==
  /\ \A s \in Servers : router = Local(s) => ServedBy(local.server[s])
  /\ \A h \in Handles : router = Remote(h) => handle[h] \notin Unserving

Forgetful == past \cap {"forgot", "restarted"} # {}
UsedInv ==
  ~Forgetful =>
    \A s \in Servers : Alive(local, local.server[s].child) =>
      router = Local(s) \/ Starters(s) # {} \/ local.server[s].ending # 0

ShellInv == Sound(local) /\ SessionTypes /\ NewCallsInv /\ RouterInv /\ WindowInv /\ UsedInv

(* A local server and a remote handle are told apart, and by their number. *)
LEMMA FrontsDiffer ==
  /\ \A s \in Servers, t \in Servers : Local(s) = Local(t) => s = t
  /\ \A h \in Handles, g \in Handles : Remote(h) = Remote(g) => h = g
  /\ \A s \in Servers, h \in Handles : Local(s) # Remote(h)
  /\ \A s \in Servers : Local(s).kind = "local" /\ Local(s).id = s
  /\ \A h \in Handles : Remote(h).kind = "remote" /\ Remote(h).id = h
  <1>1. \A s : Local(s).kind = "local" /\ Local(s).id = s
    BY DEF Local
  <1>2. \A h : Remote(h).kind = "remote" /\ Remote(h).id = h
    BY DEF Remote
  <1>3. \A s, h : Local(s) # Remote(h)
    <2> SUFFICES ASSUME NEW s, NEW h, Local(s) = Remote(h) PROVE FALSE
      OBVIOUS
    <2>1. QED BY <1>1, <1>2
  <1>4. QED BY <1>1, <1>2, <1>3

(* The supervisor of a call is the call's alone.                           *)
LEMMA ServersOfCalls ==
  /\ \A o \in Calls : ServerOf(o) \in Servers
  /\ \A o \in Calls, b \in Calls : ServerOf(o) = ServerOf(b) => o = b
  /\ \A o \in Calls, s \in Servers : o \in Starters(s) <=> call[o].at = "spawning" /\ s = ServerOf(o)
  BY SupervisorAssumption, ShellAssumption DEF ServerOf, Calls, Servers, Starters

(* The calls after one of them has gone on, from no start and to none.     *)
CallGoesOn(o, r) ==
  /\ call' = [call EXCEPT ![o] = r] /\ r.kind # "none"
  /\ call[o].at \notin {"spawning", "over"} /\ r.at # "spawning"

(* Nobody starts or stops starting a server when such a call goes on.      *)
LEMMA StartersStay ==
  ASSUME SessionTypes, call' = call \/ \E o \in Calls, r \in CallRecord : CallGoesOn(o, r)
  PROVE  /\ call' \in [Calls -> CallRecord]
         /\ \A s \in Servers : Starters(s)' = Starters(s)
         /\ \A o \in Calls : /\ call[o].at = "over" => call'[o].at = "over"
                             /\ call'[o].kind = "none" => call'[o] = call[o]
  <1>1. /\ call' \in [Calls -> CallRecord]
        /\ \A o \in Calls : /\ call[o].at = "spawning" <=> call'[o].at = "spawning"
                            /\ call[o].at = "over" => call'[o].at = "over"
                            /\ call'[o].kind = "none" => call'[o] = call[o]
    <2>1. CASE call' = call
      BY <2>1 DEF SessionTypes
    <2>2. ASSUME NEW o \in Calls, NEW r \in CallRecord, CallGoesOn(o, r)
          PROVE  /\ call' \in [Calls -> CallRecord]
                 /\ \A b \in Calls : /\ call[b].at = "spawning" <=> call'[b].at = "spawning"
                                     /\ call[b].at = "over" => call'[b].at = "over"
                                     /\ call'[b].kind = "none" => call'[b] = call[b]
      BY <2>2 DEF SessionTypes, CallGoesOn
    <2>3. QED BY <2>1, <2>2
  <1>2. QED BY <1>1 DEF Starters

(* A step that moves no server and not the window, but perhaps one call,   *)
(* the handles and processes that are no server's.                         *)
LEMMA CalmKept ==
  ASSUME ShellInv, SessionTypes', Sound(local'), local'.server = local.server,
         \A q \in Procs : Alive(local', q) /\ local.proc[q].state # "none" => Alive(local, q),
         router' = router, past \subseteq past',
         call' = call \/ \E o \in Calls, r \in CallRecord : CallGoesOn(o, r),
         \A h \in Handles : router = Remote(h) => handle'[h] \notin Unserving
  PROVE  ShellInv'
  <1>1. /\ \A s \in Servers : Starters(s)' = Starters(s)
        /\ \A o \in Calls : /\ call[o].at = "over" => call'[o].at = "over"
                            /\ call'[o].kind = "none" => call'[o] = call[o]
    BY StartersStay DEF ShellInv
  <1>2. NewCallsInv'
    BY <1>1 DEF ShellInv, NewCallsInv, ServerOf
  <1>3. RouterInv'
    BY <1>1 DEF ShellInv, RouterInv, Handles
  <1>4. WindowInv'
    BY DEF ShellInv, WindowInv
  <1>5. \A s \in Servers : Alive(local', local.server[s].child) => Alive(local, local.server[s].child)
    <2>1. \A s \in Servers : local.server[s].child \in Procs \cup {0}
      BY DEF ShellInv, Sound, Supervisors, ServerRecord
    <2>2. \A s \in Servers : local.server[s].child # 0 => local.proc[local.server[s].child].state # "none"
      BY DEF ShellInv, Sound, SoundServer
    <2>3. ~Alive(local', 0)
      BY DEF Alive
    <2>4. QED BY <2>1, <2>2, <2>3
  <1>6. UsedInv'
    BY <1>1, <1>5 DEF ShellInv, UsedInv, Forgetful
  <1>7. QED BY <1>2, <1>3, <1>4, <1>6 DEF ShellInv

(* The window moves to the handle of a call, and what it leaves is closed. *)
LEMMA MoveKept ==
  ASSUME ShellInv, SessionTypes', NEW o \in Calls, NEW w, NEW hs \in [Handles -> HandleStates],
         call[o].at \in {"attaching", "configuring"}, call' = Over(call, o),
         Sound(w), w.server = local.server,
         \A q \in Procs : Alive(w, q) /\ local.proc[q].state # "none" => Alive(local, q),
         hs[o] = "connected", MovesTo(w, hs, o), past' = past
  PROVE  ShellInv'
  <1> DEFINE r == [call[o] EXCEPT !.at = "over"]
  <1>1. call[o] \in CallRecord /\ call[o].kind # "none" /\ o \in Handles
    BY DEF ShellInv, SessionTypes, NewCallsInv, Handles
  <1>2. r \in CallRecord /\ r.at = "over" /\ r.kind = call[o].kind
    BY <1>1 DEF CallRecord, CallFields, CallStages
  <1>3. call' = [call EXCEPT ![o] = r]
    BY DEF Over
  <1> HIDE DEF r
  <1>4. CallGoesOn(o, r)
    BY <1>1, <1>2, <1>3 DEF CallGoesOn
  <1>5. /\ \A s \in Servers : Starters(s)' = Starters(s)
        /\ \A b \in Calls : call'[b].kind = "none" => call'[b] = call[b]
        /\ call'[o].at = "over"
    BY <1>2, <1>3, <1>4, StartersStay DEF ShellInv, SessionTypes
  <1>6. router' = Remote(o)
    BY DEF MovesTo
  <1>7. \A s \in Servers : Alive(w, local.server[s].child) => Alive(local, local.server[s].child)
    <2>1. \A s \in Servers : local.server[s].child \in Procs \cup {0}
      BY DEF ShellInv, Sound, Supervisors, ServerRecord
    <2>2. \A s \in Servers : local.server[s].child # 0 => local.proc[local.server[s].child].state # "none"
      BY DEF ShellInv, Sound, SoundServer
    <2>3. ~Alive(w, 0)
      BY DEF Alive
    <2>4. QED BY <2>1, <2>2, <2>3
  <1>8. ASSUME NEW h \in Handles, router = Remote(h) PROVE ShellInv'
    <2>1. h # o
      BY <1>8 DEF ShellInv, RouterInv
    <2>2. local' = w /\ handle' = [hs EXCEPT ![h] = "closed"]
      BY <1>8, FrontsDiffer DEF MovesTo, Previous, Closed
    <2>3. handle'[o] = "connected"
      BY <1>1, <2>1, <2>2
    <2>4. NewCallsInv' /\ RouterInv'
      BY <1>1, <1>5, <1>6, <2>2, FrontsDiffer DEF ShellInv, NewCallsInv, RouterInv, ServerOf
    <2>5. WindowInv'
      BY <1>1, <1>6, <2>3, FrontsDiffer DEF WindowInv, Unserving
    <2>6. UsedInv'
      BY <1>5, <1>7, <1>8, <2>2, FrontsDiffer DEF ShellInv, UsedInv, Forgetful
    <2>7. QED BY <2>2, <2>4, <2>5, <2>6 DEF ShellInv
  <1>9. ASSUME NEW t \in Servers, router = Local(t) PROVE ShellInv'
    <2>1. local' = BeginsShutdown(w, t) /\ handle' = hs
      BY <1>9, FrontsDiffer DEF MovesTo, Previous
    <2>2. /\ Sound(local') /\ \A q \in Procs : Alike(w, local', q)
          /\ \A s \in Servers \ {t} : local'.server[s] = local.server[s]
          /\ local'.server[t].child = local.server[t].child
          /\ local.server[t].phase \in {"stopped", "stopping"} => local' = w
          /\ local.server[t].phase \notin {"stopped", "stopping"} => local'.server[t].ending # 0
      BY <2>1, Shuts DEF ServerMoves
    <2>3. /\ local.server[t].ending = 0 /\ Starters(t) = {} /\ SoundServer(local, t)
          /\ local.server[t].phase # "stopping"
      BY <1>9 DEF ShellInv, RouterInv, Sound, SoundServer
    <2>4. ASSUME NEW b \in Calls, call'[b].kind = "none" PROVE local'.server[ServerOf(b)] = NewServer
      <3>1. local.server[ServerOf(b)] = NewServer /\ ServerOf(b) \in Servers
        BY <1>5, <2>4, ServersOfCalls DEF ShellInv, NewCallsInv
      <3>2. ServerOf(b) # t \/ local.server[t].phase = "stopped"
        BY <3>1 DEF NewServer
      <3>3. QED BY <2>2, <3>1, <3>2
    <2>5. NewCallsInv'
      BY <1>5, <2>4 DEF ShellInv, NewCallsInv, ServerOf
    <2>6. RouterInv'
      BY <1>1, <1>5, <1>6, <2>2, <2>3, FrontsDiffer DEF ShellInv, RouterInv
    <2>7. WindowInv'
      BY <1>1, <1>6, <2>1, FrontsDiffer DEF WindowInv, Unserving
    <2>8. ASSUME NEW s \in Servers, Alive(local', local'.server[s].child)
          PROVE  Alive(local, local.server[s].child) /\ local'.server[s].child = local.server[s].child
      <3>1. local'.server[s].child = local.server[s].child /\ local.server[s].child \in Procs \cup {0}
        BY <2>2 DEF ShellInv, Sound, Supervisors, ServerRecord
      <3>2. Alive(w, local.server[s].child)
        BY <2>2, <2>8, <3>1 DEF Alive, Alike
      <3>3. QED BY <1>7, <3>1, <3>2
    <2>9. Alive(local, local.server[t].child) => local.server[t].phase # "stopped"
      BY <2>3 DEF SoundServer, Alive
    <2>10. UsedInv'
      BY <1>5, <1>9, <2>2, <2>3, <2>8, <2>9, FrontsDiffer DEF ShellInv, UsedInv, Forgetful
    <2>11. QED BY <2>2, <2>5, <2>6, <2>7, <2>10 DEF ShellInv
  <1>10. QED BY <1>8, <1>9 DEF ShellInv, SessionTypes, Routers

StartFails(s) ==
  call' = [o \in Calls |-> IF o \in Starters(s) THEN [call[o] EXCEPT !.at = "over"] ELSE call[o]]

(* The calls that waited for a start that failed are over.                 *)
LEMMA StartersEnd ==
  ASSUME SessionTypes, NEW s \in Servers, StartFails(s)
  PROVE  /\ call' \in [Calls -> CallRecord]
         /\ Starters(s)' = {} /\ \A t \in Servers \ {s} : Starters(t)' = Starters(t)
         /\ \A o \in Calls : /\ call[o].at = "over" => call'[o].at = "over"
                             /\ call'[o].kind = call[o].kind
                             /\ call'[o].at = "new" => call'[o] = call[o]
                             /\ o \notin Starters(s) => call'[o] = call[o]
  <1>1. \A o \in Calls : /\ [call[o] EXCEPT !.at = "over"] \in CallRecord
                         /\ [call[o] EXCEPT !.at = "over"].at = "over"
                         /\ [call[o] EXCEPT !.at = "over"].kind = call[o].kind
    <2>1. \A o \in Calls : call[o] \in CallRecord
      BY DEF SessionTypes
    <2>2. QED BY <2>1 DEF CallRecord, CallFields, CallStages
  <1>2. /\ call' \in [Calls -> CallRecord]
        /\ \A o \in Starters(s) : call'[o].at = "over" /\ call'[o].kind = call[o].kind
        /\ \A o \in Calls \ Starters(s) : call'[o] = call[o]
    BY <1>1 DEF SessionTypes, StartFails, Starters
  <1>3. QED BY <1>2, ServersOfCalls DEF Starters

(* A supervisor goes on, with the call that started it if the start fails. *)
LEMMA ServerKept ==
  ASSUME ShellInv, NEW s \in Servers, Sound(local'), ServerMoves(local, local', s),
         local.server[s] # NewServer,
         \/ local'.server[s].ending = local.server[s].ending
         \/ local'.server[s].ending = 0 /\ local'.server[s].child = 0,
         call' = call \/ (StartFails(s) /\ local'.server[s].child = 0),
         router = Local(s) => ServedBy(local'.server[s]),
         ~Forgetful' /\ Alive(local', local'.server[s].child)
           => router = Local(s) \/ Starters(s) # {} \/ local.server[s].ending # 0,
         past \subseteq past', UNCHANGED <<router, handle, daemon, dialogs>>
  PROVE  ShellInv'
  <1>1. /\ call' \in [Calls -> CallRecord]
        /\ \A t \in Servers \ {s} : Starters(t)' = Starters(t)
        /\ Starters(s)' = {} \/ Starters(s)' = Starters(s)
        /\ local'.server[s].child # 0 => Starters(s)' = Starters(s)
        /\ \A o \in Calls : /\ call[o].at = "over" => call'[o].at = "over"
                            /\ call'[o].kind = call[o].kind
                            /\ o \notin Starters(s) => call'[o] = call[o]
    <2>1. CASE call' = call
      BY <2>1 DEF ShellInv, SessionTypes, Starters
    <2>2. CASE StartFails(s) /\ local'.server[s].child = 0
      BY <2>2, StartersEnd DEF ShellInv
    <2>3. QED BY <2>1, <2>2
  <1>2. SessionTypes'
    BY <1>1 DEF ShellInv, SessionTypes
  <1>3. \A t \in Servers \ {s} : local'.server[t] = local.server[t]
    BY DEF ServerMoves
  <1>4. ASSUME NEW o \in Calls, call[o].kind = "none"
        PROVE  call'[o].at = "new" /\ local'.server[ServerOf(o)] = NewServer
    <2>1. call[o].at = "new" /\ local.server[ServerOf(o)] = NewServer
      BY <1>4 DEF ShellInv, NewCallsInv
    <2>2. QED BY <1>1, <1>3, <2>1, ServersOfCalls
  <1>5. NewCallsInv'
    BY <1>1, <1>4 DEF NewCallsInv, ServerOf
  <1>6. RouterInv'
    BY <1>1, <1>3 DEF ShellInv, RouterInv, Handles
  <1>7. WindowInv'
    BY <1>3, FrontsDiffer DEF ShellInv, WindowInv
  <1>8. \A t \in Servers \ {s} : Alive(local', local.server[t].child) => Alive(local, local.server[t].child)
    BY OthersStay DEF ShellInv
  <1>9. UsedInv'
    <2> SUFFICES ASSUME ~Forgetful', NEW t \in Servers, Alive(local', local'.server[t].child)
                 PROVE  router = Local(t) \/ Starters(t)' # {} \/ local'.server[t].ending # 0
      BY DEF UsedInv
    <2>1. ~Forgetful
      BY DEF Forgetful
    <2>2. CASE t # s
      BY <1>1, <1>3, <1>8, <2>1, <2>2 DEF ShellInv, UsedInv
    <2>3. CASE t = s
      BY <1>1, <2>3 DEF Alive
    <2>4. QED BY <2>2, <2>3
  <1>10. QED BY <1>2, <1>5, <1>6, <1>7, <1>9 DEF ShellInv

(* The fields of a call as it goes on.                                     *)
LEMMA GoesOn ==
  ASSUME SessionTypes, NEW o \in Calls, NEW at \in CallStages \ {"retrying"}
  PROVE  /\ [call[o] EXCEPT !.at = at] \in CallRecord
         /\ [call[o] EXCEPT !.at = at].at = at
         /\ [call[o] EXCEPT !.at = at].kind = call[o].kind
  <1>1. call[o] \in CallFields
    BY DEF SessionTypes, CallRecord
  <1>2. QED BY <1>1 DEF CallRecord, CallFields

(* The fields of a call as it begins.                                      *)
Begun(kind, at) == [NewCall EXCEPT !.kind = kind, !.at = at]

(* A call may begin at any stage but a retry.                              *)
LEMMA CallBegins ==
  ASSUME NEW kind \in {"start", "disconnect", "end"}, NEW at \in CallStages \ {"retrying"}
  PROVE  Begun(kind, at) \in CallRecord /\ Begun(kind, at).kind = kind /\ Begun(kind, at).at = at
  <1> DEFINE first == [kind |-> "none", at |-> "new", retried |-> 0]
  <1>1. first \in CallFields
    BY DEF CallFields, CallStages
  <1>2. NewCall = first
    BY DEF NewCall
  <1> HIDE DEF first
  <1>3. QED BY <1>1, <1>2 DEF Begun, CallFields, CallRecord

(* The window comes back to the server a call started.  What it left is    *)
(* shut down, forgotten, or remote.                                        *)
LEMMA BackKept ==
  ASSUME ShellInv, SessionTypes', NEW s \in Servers, NEW o \in Starters(s), NEW r \in CallRecord,
         call' = [call EXCEPT ![o] = r], r.kind # "none", r.at # "spawning",
         Sound(local'), local'.server[s].phase = "running",
         local'.server[s].ending = local.server[s].ending,
         \A t \in Servers \ {s} :
           /\ local'.server[t].child = local.server[t].child
           /\ Alive(local', local.server[t].child) => Alive(local, local.server[t].child)
           /\ router # Local(t) \/ local.server[t].phase \in {"stopped", "stopping"}
                => local'.server[t] = local.server[t]
           /\ router = Local(t) => Forgetful' \/ local'.server[t].ending # 0
                                   \/ local.server[t].phase \in {"stopped", "stopping"},
         router' = Local(s), past \subseteq past'
  PROVE  ShellInv'
  <1>1. /\ o \in Calls /\ call[o].at = "spawning" /\ s = ServerOf(o)
        /\ local.server[s].ending = 0 /\ router # Local(s)
    BY ServersOfCalls DEF ShellInv, RouterInv, Starters
  <1>2. /\ call' \in [Calls -> CallRecord] /\ call'[o] = r
        /\ \A b \in Calls \ {o} : call'[b] = call[b]
    BY <1>1 DEF ShellInv, SessionTypes
  <1>3. Starters(s)' = {} /\ \A t \in Servers \ {s} : Starters(t)' = Starters(t)
    BY <1>1, <1>2, ServersOfCalls DEF Starters
  <1>4. ASSUME NEW b \in Calls, call'[b].kind = "none"
        PROVE  call'[b].at = "new" /\ local'.server[ServerOf(b)] = NewServer
    <2>1. b # o /\ call'[b] = call[b]
      BY <1>2, <1>4
    <2>2. /\ call[b].at = "new" /\ local.server[ServerOf(b)] = NewServer
          /\ ServerOf(b) \in Servers \ {s}
      BY <1>1, <1>4, <2>1, ServersOfCalls DEF ShellInv, NewCallsInv
    <2>3. local.server[ServerOf(b)].phase = "stopped"
      BY <2>2 DEF NewServer
    <2>4. QED BY <2>1, <2>2, <2>3
  <1>5. NewCallsInv'
    BY <1>4 DEF NewCallsInv, ServerOf
  <1>6. RouterInv'
    <2>1. \A t \in Servers \ {s} : local'.server[t].ending # 0 => Starters(t) = {}
      BY DEF ShellInv, RouterInv
    <2>2. QED BY <1>1, <1>3, <2>1, FrontsDiffer DEF RouterInv
  <1>7. WindowInv'
    BY FrontsDiffer DEF WindowInv, ServedBy
  <1>8. UsedInv'
    <2> SUFFICES ASSUME ~Forgetful', NEW t \in Servers, Alive(local', local'.server[t].child)
                 PROVE  Local(s) = Local(t) \/ Starters(t)' # {} \/ local'.server[t].ending # 0
      BY DEF UsedInv
    <2>1. ~Forgetful
      BY DEF Forgetful
    <2>2. CASE t = s
      BY <2>2
    <2>3. CASE t # s /\ router # Local(t)
      <3>1. Alive(local, local.server[t].child) /\ local'.server[t] = local.server[t]
        BY <2>3
      <3>2. QED BY <1>3, <2>1, <2>3, <3>1 DEF ShellInv, UsedInv
    <2>4. CASE t # s /\ router = Local(t)
      <3>1. Alive(local, local.server[t].child) /\ SoundServer(local, t)
        BY <2>4 DEF ShellInv, Sound
      <3>2. local.server[t].ending = 0
        BY <2>4 DEF ShellInv, RouterInv
      <3>3. local.server[t].phase \notin {"stopped", "stopping"}
        BY <3>1, <3>2 DEF SoundServer, Alive
      <3>4. QED BY <2>4, <3>3
    <2>5. QED BY <2>2, <2>3, <2>4
  <1>9. QED BY <1>5, <1>6, <1>7, <1>8 DEF ShellInv

(* A call that begins with the start of its server.                        *)
LEMMA SpawnKept ==
  ASSUME ShellInv, NEW o \in Calls, call[o].kind = "none", NEW kind \in {"disconnect", "end"},
         SpawnsFor(o, kind), UNCHANGED <<router, handle, daemon, dialogs, past>>
  PROVE  ShellInv' /\ ServerMoves(local, local', ServerOf(o))
  <1> DEFINE s == ServerOf(o)
             r == Begun(kind, "spawning")
  <1>1. s \in Servers /\ local.server[s] = NewServer
    BY ServersOfCalls DEF ShellInv, NewCallsInv
  <1>2. local.server[s].child = 0 /\ local.server[s].ending = 0 /\ local.server[s].dialog = "none"
        /\ ~ServedBy(local.server[s])
    BY <1>1 DEF NewServer, ServedBy
  <1>3. PICK p \in Procs : local.proc[p].state = "none" /\ local' = StartAttempt(local, s, p)
    BY DEF SpawnsFor, NextProc
  <1>4. call' = [call EXCEPT ![o] = r]
    BY DEF SpawnsFor, Begun
  <1> HIDE DEF s
  <1>5. \A q \in Procs : ~(Alive(local, q) /\ local.proc[q].of = s)
    <2> SUFFICES ASSUME NEW q \in Procs, Alive(local, q), local.proc[q].of = s PROVE FALSE
      OBVIOUS
    <2>1. 0 \notin Servers /\ q # 0
      BY SupervisorAssumption DEF Servers, Alive
    <2>2. QED BY <1>1, <1>2, <2>1 DEF ShellInv, Sound
  <1>6. Sound(local') /\ ServerMoves(local, local', s)
        /\ local'.server[s] = Fronting(local.server[s], p)
    BY <1>1, <1>2, <1>3, <1>5, Attempts DEF ShellInv
  <1>7. local'.server[s].ending = 0
    <2>1. local.server[s] \in ServerRecord
      BY <1>1 DEF ShellInv, Sound, Supervisors
    <2>2. QED BY <1>2, <1>6, <2>1 DEF ServerRecord, Fronting
  <1>8. r \in CallRecord /\ r.kind = kind /\ r.at = "spawning"
    <2>1. "spawning" \in CallStages /\ kind \in {"start", "disconnect", "end"}
      BY DEF CallStages
    <2>2. QED BY <2>1, CallBegins
  <1> HIDE DEF r
  <1>9. /\ call' \in [Calls -> CallRecord] /\ call'[o] = r
        /\ \A b \in Calls \ {o} : call'[b] = call[b]
    BY <1>4, <1>8 DEF ShellInv, SessionTypes
  <1>10. o \in Starters(s)' /\ \A t \in Servers \ {s} : Starters(t)' = Starters(t)
    BY <1>8, <1>9, ServersOfCalls DEF Starters, s
  <1>11. \A t \in Servers \ {s} : local'.server[t] = local.server[t]
    BY <1>6 DEF ServerMoves
  <1>12. router # Local(s)
    BY <1>1, <1>2 DEF ShellInv, WindowInv
  <1>13. SessionTypes'
    BY <1>9 DEF ShellInv, SessionTypes
  <1>14. NewCallsInv'
    <2>1. ASSUME NEW b \in Calls, call'[b].kind = "none"
          PROVE  call'[b].at = "new" /\ local'.server[ServerOf(b)] = NewServer
      BY <1>8, <1>9, <1>11, <2>1, ServersOfCalls DEF ShellInv, NewCallsInv, s
    <2>2. QED BY <2>1 DEF NewCallsInv, ServerOf
  <1>15. RouterInv'
    <2>1. call[o].at = "new"
      BY DEF ShellInv, NewCallsInv
    <2>2. QED BY <1>7, <1>8, <1>9, <1>10, <1>11, <1>12, <2>1 DEF ShellInv, RouterInv, Handles
  <1>16. WindowInv'
    BY <1>11, <1>12 DEF ShellInv, WindowInv
  <1>17. UsedInv'
    <2> SUFFICES ASSUME ~Forgetful, NEW t \in Servers, Alive(local', local'.server[t].child)
                 PROVE  router = Local(t) \/ Starters(t)' # {} \/ local'.server[t].ending # 0
      BY DEF UsedInv, Forgetful
    <2>1. CASE t = s
      BY <1>10, <2>1
    <2>2. CASE t # s
      <3>1. local'.server[t] = local.server[t] /\ SoundServer(local, t)
            /\ local.server[t].child \in Procs /\ local.server[t].child # 0
        BY <1>11, <2>2 DEF ShellInv, Sound, Supervisors, ServerRecord, Alive
      <3>2. Alike(local, local', local.server[t].child)
        BY <1>2, <1>6, <3>1 DEF ServerMoves, Fresh, SoundServer
      <3>3. Alive(local, local.server[t].child)
        BY <3>1, <3>2 DEF Alive, Alike
      <3>4. QED BY <1>10, <2>2, <3>1, <3>3 DEF ShellInv, UsedInv
    <2>3. QED BY <2>1, <2>2
  <1>18. QED BY <1>6, <1>13, <1>14, <1>15, <1>16, <1>17 DEF ShellInv, s

(* Attaching, closing and losing a handle leaves the others serving.       *)
LEMMA HandlesMove ==
  ASSUME NEW hs \in [Handles -> HandleStates], NEW h \in Handles
  PROVE  /\ AttachedAs(hs, h) \in [Handles -> HandleStates] /\ AttachedAs(hs, h)[h] = "connected"
         /\ \A g \in Handles : AttachedAs(hs, h)[g] \in Unserving => hs[g] \in Unserving
         /\ Closed(hs, h) \in [Handles -> HandleStates]
         /\ \A g \in Handles \ {h} : Closed(hs, h)[g] = hs[g]
         /\ Lost(hs) \in [Handles -> HandleStates]
         /\ \A g \in Handles : Lost(hs)[g] \in Unserving => hs[g] \in Unserving
  BY DEF AttachedAs, Closed, Lost, HandleStates, Unserving

(* Whoever attaches reaches the daemon that lives, or starts one.          *)
LEMMA Reaches ==
  ASSUME ShellInv, NEW d \in Reachable
  PROVE  /\ d \in Procs /\ Sound(WithDaemon(d)) /\ WithDaemon(d).server = local.server
         /\ \A q \in Procs : Alive(WithDaemon(d), q) /\ local.proc[q].state # "none" => Alive(local, q)
         /\ \A q \in Procs \ {d} : Alike(local, WithDaemon(d), q)
         /\ \/ d = daemon /\ Alive(local, daemon) /\ WithDaemon(d) = local
            \/ d # daemon /\ ~Alive(local, daemon) /\ local.proc[d].state = "none"
               /\ Alive(WithDaemon(d), d) /\ WithDaemon(d).proc[d].of = 0
               /\ DOMAIN WithDaemon(d).proc[d].asked = {}
            \/ d = daemon /\ local.proc[d].state = "none" /\ WithDaemon(d) = local
  <1>1. \/ d = daemon /\ Alive(local, daemon)
        \/ d \in Procs /\ local.proc[d].state = "none" /\ ~Alive(local, daemon)
    BY DEF Reachable, NextProc
  <1>2. CASE d = daemon
    <2>1. WithDaemon(d) = local
      BY <1>2 DEF WithDaemon
    <2>2. d \in Procs
      BY <1>1, <1>2 DEF ShellInv, SessionTypes, Alive
    <2>3. QED BY <1>1, <1>2, <2>1, <2>2 DEF ShellInv, Alike
  <1>3. CASE d # daemon
    <2> DEFINE x == WithDaemon(d)
    <2>1. /\ Sound(x) /\ x.server = local.server
          /\ x.proc[d].state = "up" /\ x.proc[d].of = 0 /\ DOMAIN x.proc[d].asked = {}
          /\ \A q \in Procs \ {d} : Alike(local, x, q)
      BY <1>1, <1>3, DaemonStarts DEF ShellInv
    <2> HIDE DEF x
    <2>2. Alive(x, d)
      BY <1>1, <1>3, <2>1, SupervisorAssumption DEF Alive, Procs
    <2>3. \A q \in Procs : Alive(x, q) /\ local.proc[q].state # "none" => Alive(local, q)
      BY <1>1, <1>3, <2>1 DEF Alive, Alike
    <2>4. QED BY <1>1, <1>3, <2>1, <2>2, <2>3 DEF x
  <1>4. QED BY <1>2, <1>3

(* The requests of one process change.                                     *)
LEMMA AsksChange ==
  ASSUME NEW w, Sound(w), NEW p \in Procs, NEW asked \in Seq(AskRecord)
  PROVE  LET x == WithProc(w, p, [w.proc[p] EXCEPT !.asked = asked]) IN
         /\ Sound(x) /\ x.server = w.server
         /\ x.proc[p].state = w.proc[p].state /\ x.proc[p].of = w.proc[p].of
         /\ x.proc[p].asked = asked
         /\ \A q \in Procs \ {p} : x.proc[q] = w.proc[q]
  <1> DEFINE r == [w.proc[p] EXCEPT !.asked = asked]
             x == WithProc(w, p, r)
  <1>1. w \in Supervisors /\ w.proc[p] \in ProcRecord
    BY DEF Sound, Supervisors
  <1>2. r \in ProcRecord /\ r.state = w.proc[p].state /\ r.of = w.proc[p].of /\ r.asked = asked
    BY <1>1 DEF ProcRecord
  <1> HIDE DEF r
  <1>3. /\ x \in Supervisors /\ x.server = w.server /\ x.proc[p] = r
        /\ \A q \in Procs \ {p} : x.proc[q] = w.proc[q]
    BY <1>1, <1>2, ProcSet
  <1> HIDE DEF x
  <1>4. \A q \in Procs : x.proc[q].state = w.proc[q].state /\ x.proc[q].of = w.proc[q].of
    BY <1>2, <1>3
  <1>5. \A t \in Servers : w.server[t].child \in Procs \cup {0}
    BY <1>1 DEF Supervisors, ServerRecord
  <1>6. \A t \in Servers : SoundServer(x, t)
    BY <1>3, <1>4, <1>5 DEF Sound, SoundServer
  <1>7. QED BY <1>2, <1>3, <1>4, <1>6 DEF Sound, Alive, x, r

(* What a confirm and an answer do to the processes.                       *)
AskedOf(p, asked) == local' = WithProc(local, p, [local.proc[p] EXCEPT !.asked = asked])

(* Confirms: one request is appended, and shown or not.                    *)
LEMMA ConfirmAsks ==
  ASSUME ShellInv, NEW p \in Procs, Confirms(p)
  PROVE  LET shown == router \in Fronts(p)
             ask == [state |-> IF shown \/ Fronts(p) = {} THEN "pending" ELSE "cancelled", by |-> 0]
             asked == Append(local.proc[p].asked, ask)
         IN  /\ asked \in Seq(AskRecord) /\ local.proc[p].asked \in Seq(AskRecord)
             /\ ask \in AskRecord /\ AskedOf(p, asked)
             /\ dialogs' = dialogs \cup
                  (IF shown THEN {[of |-> router, asker |-> p, n |-> Len(local.proc[p].asked) + 1]}
                   ELSE {})
             /\ local.proc[p].state = "up"
  <1>1. local.proc[p].asked \in Seq(AskRecord)
    BY DEF ShellInv, Sound, Supervisors, ProcRecord
  <1> DEFINE ask == [state |-> IF router \in Fronts(p) \/ Fronts(p) = {} THEN "pending"
                               ELSE "cancelled", by |-> 0]
  <1>2. ask \in AskRecord
    BY DEF AskRecord
  <1>3. Append(local.proc[p].asked, ask) \in Seq(AskRecord)
    BY <1>1, <1>2
  <1>4. QED BY <1>1, <1>2, <1>3 DEF Confirms, AskedOf, WithProc

(* Answers: at most one request is settled, by whom the dialog is of.      *)
LEMMA AnswerSettles ==
  ASSUME ShellInv, NEW d \in dialogs, Answers(d)
  PROVE  LET p == ReachedBy(d.of)
             ask == [state |-> "settled", by |-> d.asker]
             asked == [local.proc[p].asked EXCEPT ![d.n] = ask]
         IN  \/ local' = local
             \/ /\ p \in Procs /\ Alive(local, p) /\ d.n \in DOMAIN local.proc[p].asked
                /\ local.proc[p].asked[d.n].state = "pending"
                /\ local.proc[p].asked \in Seq(AskRecord) /\ asked \in Seq(AskRecord)
                /\ AskedOf(p, asked)
  <1> DEFINE p == ReachedBy(d.of)
             ask == [state |-> "settled", by |-> d.asker]
  <1>1. SUFFICES ASSUME Alive(local, p), d.n \in DOMAIN local.proc[p].asked,
                        local.proc[p].asked[d.n].state = "pending",
                        local' = [local EXCEPT !.proc[p].asked[d.n] = ask]
                 PROVE  /\ p \in Procs /\ local.proc[p].asked \in Seq(AskRecord)
                        /\ [local.proc[p].asked EXCEPT ![d.n] = ask] \in Seq(AskRecord)
                        /\ AskedOf(p, [local.proc[p].asked EXCEPT ![d.n] = ask])
    BY DEF Answers
  <1>2. p \in Procs
    <2>1. d.of \in Routers
      BY DEF ShellInv, SessionTypes
    <2>2. \A s \in Servers : local.server[s].child \in Procs \cup {0}
      BY DEF ShellInv, Sound, Supervisors, ServerRecord
    <2>3. p \in Procs \cup {0}
      BY <2>1, <2>2, FrontsDiffer DEF ReachedBy, Routers, ShellInv, SessionTypes
    <2>4. QED BY <1>1, <2>3 DEF Alive
  <1> HIDE DEF p
  <1>3. local.proc[p].asked \in Seq(AskRecord)
    BY <1>2 DEF ShellInv, Sound, Supervisors, ProcRecord
  <1>4. ask \in AskRecord
    BY DEF AskRecord, ShellInv, SessionTypes
  <1> HIDE DEF ask
  <1>5. [local.proc[p].asked EXCEPT ![d.n] = ask] \in Seq(AskRecord)
    BY <1>1, <1>3, <1>4
  <1>6. QED BY <1>1, <1>2, <1>3, <1>5 DEF AskedOf, WithProc

(* The steps of "run session here".                                        *)
LEMMA StartCallKept ==
  ASSUME ShellInv, NEW o \in Calls, AsksToStart(o) \/ StartCall(o)
  PROVE  ShellInv'
  <1> DEFINE To(at) == [call[o] EXCEPT !.at = at]
  <1>0. /\ SessionTypes /\ Sound(local) /\ o \in Handles /\ call[o] \in CallRecord
        /\ handle \in [Handles -> HandleStates]
    BY DEF ShellInv, SessionTypes, Handles
  <1>a. {"new", "shipping", "retrying", "attaching", "configuring", "spawning", "leaving", "over"}
          \subseteq CallStages
    BY DEF CallStages
  <1>b. \A at \in CallStages \ {"retrying"} :
          To(at) \in CallRecord /\ To(at).at = at /\ To(at).kind = call[o].kind
    BY <1>0, GoesOn
  <1>c. \A h \in Handles : router = Remote(h) => handle[h] \notin Unserving /\ call[h].at = "over"
    BY DEF ShellInv, WindowInv, RouterInv
  <1>d. \A q \in Procs : Alive(local, q) /\ local.proc[q].state # "none" => Alive(local, q)
    OBVIOUS
  <1> HIDE DEF To
  <1>1. CASE AsksToStart(o)
    <2> DEFINE r == Begun("start", "shipping")
    <2>1. r \in CallRecord /\ r.kind = "start" /\ r.at = "shipping"
      BY <1>a, CallBegins
    <2>2. call[o].at = "new" /\ call' = [call EXCEPT ![o] = r]
          /\ UNCHANGED <<local, router, handle, daemon, dialogs, past>>
      BY <1>1 DEF AsksToStart, FreeCall, ShellInv, NewCallsInv, Begun
    <2> HIDE DEF r
    <2>3. CallGoesOn(o, r)
      BY <2>1, <2>2 DEF CallGoesOn
    <2>4. SessionTypes'
      BY <1>0, <2>1, <2>2, <2>3, StartersStay DEF SessionTypes
    <2>5. QED BY <1>0, <1>c, <1>d, <2>1, <2>2, <2>3, <2>4, CalmKept
  <1>2. ASSUME NEW at \in {"attaching", "over"}, CallGoesOn(o, To(at)),
               UNCHANGED <<local, router, daemon, dialogs, past>>,
               handle' \in [Handles -> HandleStates],
               \A h \in Handles : router = Remote(h) => handle'[h] \notin Unserving
        PROVE  ShellInv'
    <2>1. To(at) \in CallRecord
      BY <1>a, <1>b
    <2>2. SessionTypes'
      BY <1>0, <1>2, <2>1, StartersStay DEF SessionTypes
    <2>3. QED BY <1>0, <1>2, <1>d, <2>1, <2>2, CalmKept
  <1>3. \A at \in {"attaching", "over"}, from \in {"shipping", "retrying", "attaching", "configuring"} :
          At(o, "start", from) /\ call' = [call EXCEPT ![o] = To(at)] => CallGoesOn(o, To(at))
    BY <1>a, <1>b DEF At, CallGoesOn
  <1>4. CASE CannotShip(o)
    <2>1. call' = [call EXCEPT ![o] = To("over")] /\ At(o, "start", "shipping")
          /\ UNCHANGED <<local, router, handle, daemon, dialogs, past>>
      BY <1>4 DEF CannotShip, Over, To
    <2>2. QED BY <1>0, <1>c, <1>2, <1>3, <2>1
  <1>5. CASE Shipped(o)
    <2>0. At(o, "start", "shipping") /\ UNCHANGED <<local, router, daemon, dialogs, past>>
      BY <1>5 DEF Shipped
    <2>1. CASE AttachesFresh(o)
      <3>1. call' = [call EXCEPT ![o] = To("attaching")] /\ handle' = [handle EXCEPT ![o] = "starting"]
        BY <2>1 DEF AttachesFresh, To
      <3>2. handle' \in [Handles -> HandleStates]
        BY <1>0, <3>1 DEF HandleStates
      <3>3. \A h \in Handles : router = Remote(h) => handle'[h] \notin Unserving
        BY <1>0, <1>c, <2>0, <3>1 DEF At
      <3>4. QED BY <1>2, <1>3, <2>0, <3>1, <3>2, <3>3
    <2>2. CASE call' = Over(call, o) /\ UNCHANGED handle
      BY <1>0, <1>c, <1>2, <1>3, <2>0, <2>2 DEF Over, To
    <2>3. ASSUME NEW h \in Handles, router = Remote(h),
                 handle' = [handle EXCEPT ![h] = "retrying"],
                 call' = [call EXCEPT ![o].at = "retrying", ![o].retried = h]
          PROVE  ShellInv'
      <3> DEFINE r == [call[o] EXCEPT !.at = "retrying", !.retried = h]
      <3>1. r \in CallRecord /\ r.at = "retrying" /\ r.kind = call[o].kind
        <4>1. call[o] \in CallFields
          BY <1>0 DEF CallRecord
        <4>2. QED BY <1>a, <4>1 DEF CallFields, CallRecord
      <3>2. call' = [call EXCEPT ![o] = r]
        BY <1>0, <2>3 DEF SessionTypes
      <3> HIDE DEF r
      <3>3. CallGoesOn(o, r)
        BY <2>0, <3>1, <3>2 DEF CallGoesOn, At
      <3>4. handle' \in [Handles -> HandleStates] /\ handle'[h] = "retrying"
        BY <1>0, <2>3 DEF HandleStates
      <3>5. SessionTypes'
        BY <1>0, <2>0, <3>1, <3>3, <3>4, StartersStay DEF SessionTypes
      <3>6. \A g \in Handles : router = Remote(g) => handle'[g] \notin Unserving
        BY <2>3, <3>4, FrontsDiffer DEF Unserving
      <3>7. QED BY <1>0, <1>d, <2>0, <3>1, <3>3, <3>5, <3>6, CalmKept
    <2>4. CASE router.kind = "local"
      BY <1>5, <2>1, <2>4 DEF Shipped
    <2>5. CASE router.kind # "local"
      <3>1. PICK h \in Handles : router = Remote(h) /\ router.id = h
        BY <1>0, <2>5, FrontsDiffer DEF SessionTypes, Routers
      <3>2. \/ call' = Over(call, o) /\ UNCHANGED handle
            \/ /\ handle' = [handle EXCEPT ![h] = "retrying"]
               /\ call' = [call EXCEPT ![o].at = "retrying", ![o].retried = h]
            \/ AttachesFresh(o)
        BY <1>5, <2>5, <3>1 DEF Shipped
      <3>3. QED BY <2>1, <2>2, <2>3, <3>1, <3>2
    <2>6. QED BY <2>4, <2>5
  <1>6. CASE RetryAttaches(o)
    <2> DEFINE h == call[o].retried
    <2>1. /\ At(o, "start", "retrying") /\ handle[h] \in {"retrying", "auth-required"}
          /\ handle' = AttachedAs(handle, h)
          /\ call' = [call EXCEPT ![o] = To("over")] /\ UNCHANGED <<router, past>>
      BY <1>6 DEF RetryAttaches, Over, To
    <2>2. PICK d \in Reachable : local' = WithDaemon(d) /\ daemon' = d
      BY <1>6 DEF RetryAttaches
    <2>3. CASE h \in Handles
      <3>1. PICK again \in AskedAgain(h) : dialogs' = dialogs \cup again
        BY <1>6 DEF RetryAttaches
      <3>2. \A e \in again : e.of \in Routers /\ e.asker \in Procs
        BY <1>0, <2>3, <3>1 DEF AskedAgain, SessionTypes, Alive, Routers
      <3>3. /\ handle' \in [Handles -> HandleStates]
            /\ \A g \in Handles : router = Remote(g) => handle'[g] \notin Unserving
        BY <1>0, <1>c, <2>1, <2>3, HandlesMove
      <3>4. To("over") \in CallRecord /\ CallGoesOn(o, To("over"))
        BY <1>a, <1>b, <1>3, <2>1
      <3>5. /\ d \in Procs /\ Sound(local') /\ local'.server = local.server
            /\ \A q \in Procs : Alive(local', q) /\ local.proc[q].state # "none" => Alive(local, q)
        BY <2>2, Reaches
      <3>6. SessionTypes'
        BY <1>0, <2>1, <2>2, <3>1, <3>2, <3>3, <3>4, <3>5, StartersStay DEF SessionTypes
      <3>7. QED BY <2>1, <3>3, <3>4, <3>5, <3>6, CalmKept
    <2>4. QED BY <1>0, <2>1, <2>3 DEF At, CallRecord
  <1>7. CASE RetryFails(o)
    <2>1. /\ At(o, "start", "retrying") /\ call' = [call EXCEPT ![o] = To("attaching")]
          /\ handle' = [handle EXCEPT ![o] = "starting",
                                      ![call[o].retried] = IF @ \in {"retrying", "connected"}
                                                           THEN "auth-required" ELSE @]
          /\ UNCHANGED <<local, router, daemon, dialogs, past>>
      BY <1>7 DEF RetryFails, To
    <2>2. /\ handle' \in [Handles -> HandleStates]
          /\ \A h \in Handles \ {o} : handle'[h] \in {handle[h], "auth-required"}
      BY <1>0, <2>1 DEF HandleStates
    <2>3. \A h \in Handles : router = Remote(h) => handle'[h] \notin Unserving
      BY <1>c, <2>1, <2>2 DEF At, Unserving
    <2>4. QED BY <1>2, <1>3, <2>1, <2>2, <2>3
  <1>8. CASE Attaches(o)
    <2> DEFINE hs == AttachedAs(handle, o)
    <2>1. PICK d \in Reachable :
            /\ daemon' = d /\ At(o, "start", "attaching") /\ UNCHANGED <<dialogs, past>>
            /\ \/ MovesTo(WithDaemon(d), hs, o) /\ call' = Over(call, o)
               \/ /\ handle' = hs /\ local' = WithDaemon(d)
                  /\ call' = [call EXCEPT ![o].at = "configuring"]
                  /\ UNCHANGED router
      BY <1>8 DEF Attaches
    <2>2. /\ hs \in [Handles -> HandleStates] /\ hs[o] = "connected"
          /\ \A g \in Handles : hs[g] \in Unserving => handle[g] \in Unserving
      BY <1>0, HandlesMove
    <2> HIDE DEF hs
    <2>3. /\ d \in Procs /\ Sound(WithDaemon(d)) /\ WithDaemon(d).server = local.server
          /\ \A q \in Procs : Alive(WithDaemon(d), q) /\ local.proc[q].state # "none" => Alive(local, q)
      BY Reaches
    <2>4. CASE MovesTo(WithDaemon(d), hs, o) /\ call' = Over(call, o)
      <3>1. To("over") \in CallRecord /\ CallGoesOn(o, To("over"))
        BY <1>a, <1>b, <1>3, <2>1, <2>4 DEF Over, To
      <3>2. call' \in [Calls -> CallRecord]
        BY <1>0, <3>1, StartersStay
      <3>3. /\ router' = Remote(o)
            /\ handle' = hs \/ \E h \in Handles : handle' = Closed(hs, h)
        <4>1. CASE \E h \in Handles : router = Remote(h)
          BY <2>4, <4>1, FrontsDiffer DEF MovesTo, Previous
        <4>2. CASE \E s \in Servers : router = Local(s)
          BY <2>4, <4>2, FrontsDiffer DEF MovesTo, Previous
        <4>3. QED BY <1>0, <4>1, <4>2 DEF SessionTypes, Routers
      <3>4. handle' \in [Handles -> HandleStates] /\ router' \in Routers
        <4>1. router' \in Routers
          BY <1>0, <3>3 DEF Routers
        <4>2. \A h \in Handles : Closed(hs, h) \in [Handles -> HandleStates]
          BY <2>2, HandlesMove
        <4>3. QED BY <2>2, <3>3, <4>1, <4>2
      <3>5. SessionTypes'
        BY <1>0, <2>1, <2>3, <3>2, <3>4 DEF SessionTypes
      <3>6. call[o].at \in {"attaching", "configuring"}
        BY <2>1 DEF At
      <3>7. QED BY <2>1, <2>2, <2>3, <2>4, <3>5, <3>6, MoveKept
    <2>5. CASE /\ handle' = hs /\ local' = WithDaemon(d)
               /\ call' = [call EXCEPT ![o].at = "configuring"] /\ UNCHANGED router
      <3>1. To("configuring") \in CallRecord /\ CallGoesOn(o, To("configuring"))
        BY <1>a, <1>b, <2>1, <2>5 DEF At, CallGoesOn, To
      <3>2. SessionTypes'
        BY <1>0, <2>1, <2>2, <2>3, <2>5, <3>1, StartersStay DEF SessionTypes
      <3>3. \A h \in Handles : router = Remote(h) => handle'[h] \notin Unserving
        BY <1>c, <2>2, <2>5
      <3>4. QED BY <2>1, <2>3, <2>5, <3>1, <3>2, <3>3, CalmKept
    <2>6. QED BY <2>1, <2>4, <2>5
  <1>9. CASE CannotAttach(o)
    <2>1. PICK end \in {"auth-required", "lost"} : handle' = [handle EXCEPT ![o] = end]
      BY <1>9 DEF CannotAttach
    <2>2. call' = [call EXCEPT ![o] = To("over")] /\ At(o, "start", "attaching")
          /\ UNCHANGED <<local, router, daemon, dialogs, past>>
      BY <1>9 DEF CannotAttach, Over, To
    <2>3. handle' \in [Handles -> HandleStates]
      BY <1>0, <2>1 DEF HandleStates
    <2>4. \A h \in Handles : router = Remote(h) => handle'[h] \notin Unserving
      BY <1>0, <1>c, <2>1, <2>2 DEF At
    <2>5. QED BY <1>2, <1>3, <2>2, <2>3, <2>4
  <1>10. CASE Configures(o)
    <2>1. /\ At(o, "start", "configuring") /\ handle[o] = "connected"
          /\ MovesTo(local, handle, o) /\ call' = Over(call, o) /\ UNCHANGED <<daemon, dialogs, past>>
      BY <1>10 DEF Configures
    <2>2. To("over") \in CallRecord /\ CallGoesOn(o, To("over"))
      BY <1>a, <1>b, <1>3, <2>1 DEF Over, To
    <2>3. call' \in [Calls -> CallRecord]
      BY <1>0, <2>2, StartersStay
    <2>4. /\ router' = Remote(o)
          /\ handle' = handle \/ \E h \in Handles : handle' = Closed(handle, h)
      BY <1>0, <2>1, FrontsDiffer DEF MovesTo, Previous, SessionTypes, Routers
    <2>5. handle' \in [Handles -> HandleStates] /\ router' \in Routers
      BY <1>0, <2>4, HandlesMove DEF Routers
    <2>6. SessionTypes'
      BY <1>0, <2>1, <2>3, <2>5 DEF SessionTypes
    <2>7. call[o].at \in {"attaching", "configuring"}
      BY <2>1 DEF At
    <2>8. QED BY <1>0, <1>d, <2>1, <2>6, <2>7, MoveKept
  <1>11. CASE CannotConfigure(o)
    <2>1. /\ call' = [call EXCEPT ![o] = To("over")] /\ At(o, "start", "configuring")
          /\ handle' = Closed(handle, o) /\ UNCHANGED <<local, router, daemon, dialogs, past>>
      BY <1>11 DEF CannotConfigure, Over, To
    <2>2. /\ handle' \in [Handles -> HandleStates]
          /\ \A g \in Handles \ {o} : handle'[g] = handle[g]
      BY <1>0, <2>1, HandlesMove
    <2>3. \A h \in Handles : router = Remote(h) => handle'[h] \notin Unserving
      BY <1>c, <2>1, <2>2 DEF At
    <2>4. QED BY <1>2, <1>3, <2>1, <2>2, <2>3
  <1>12. QED
    BY <1>1, <1>4, <1>5, <1>6, <1>7, <1>8, <1>9, <1>10, <1>11 DEF StartCall

(* A resumed channel asks again for what fronts the daemon.                *)
LEMMA AsksAgain ==
  ASSUME ShellInv, NEW h \in Handles, NEW again \in AskedAgain(h), NEW e \in again
  PROVE  /\ e.of = Remote(h) /\ e.of \in Routers /\ e.asker = daemon /\ e.asker \in Procs
         /\ router = Remote(h) /\ Alive(local, daemon)
         /\ e.n \in DOMAIN local.proc[daemon].asked
         /\ local.proc[daemon].asked[e.n].state = "pending"
  BY DEF AskedAgain, ShellInv, SessionTypes, Alive, Routers

(* Asking and answering move no server and no process.                     *)
LEMMA AskedKept ==
  ASSUME Sound(local), NEW p \in Procs, NEW asked \in Seq(AskRecord), AskedOf(p, asked)
  PROVE  /\ Sound(local') /\ local'.server = local.server
         /\ \A q \in Procs : Alive(local', q) <=> Alive(local, q)
  <1> DEFINE x == WithProc(local, p, [local.proc[p] EXCEPT !.asked = asked])
  <1>1. /\ Sound(x) /\ x.server = local.server
        /\ x.proc[p].state = local.proc[p].state
        /\ \A q \in Procs \ {p} : x.proc[q] = local.proc[q]
    BY AsksChange
  <1>2. local' = x
    BY DEF AskedOf
  <1> HIDE DEF x
  <1>3. QED BY <1>1, <1>2 DEF Alive

(* The steps that move no server and not the window.                       *)
CalmStep ==
  \/ \E o \in Calls : Disconnected(o)
  \/ ChannelDrops \/ DaemonEnds
  \/ \E h \in Handles : Reattaches(h) \/ GivesUp(h)
  \/ \E p \in Procs : Confirms(p)
  \/ \E d \in dialogs : Answers(d)
  \/ SshStep /\ UNCHANGED <<local, router, handle, daemon, call, dialogs, past>>

(* They keep the invariant.                                                *)
LEMMA CalmStepsKept ==
  ASSUME ShellInv, CalmStep
  PROVE  ShellInv'
  <1>0. /\ SessionTypes /\ Sound(local) /\ handle \in [Handles -> HandleStates]
        /\ call \in [Calls -> CallRecord] /\ router \in Routers
    BY DEF ShellInv, SessionTypes
  <1>c. \A h \in Handles : router = Remote(h) => handle[h] \notin Unserving
    BY DEF ShellInv, WindowInv
  <1>d. \A q \in Procs : Alive(local, q) /\ local.proc[q].state # "none" => Alive(local, q)
    OBVIOUS
  <1>1. CASE \E o \in Calls : Disconnected(o)
    <2>1. PICK o \in Calls : Disconnected(o)
      BY <1>1
    <2> DEFINE r == [call[o] EXCEPT !.at = "over"]
    <2>2. "over" \in CallStages \ {"retrying"}
      BY DEF CallStages
    <2>3. r \in CallRecord /\ r.at = "over" /\ r.kind = call[o].kind
      BY <1>0, <2>2, GoesOn
    <2>4. /\ call' = [call EXCEPT ![o] = r] /\ At(o, "disconnect", "leaving")
          /\ UNCHANGED <<local, router, handle, daemon, dialogs, past>>
      BY <2>1 DEF Disconnected, Over
    <2> HIDE DEF r
    <2>5. CallGoesOn(o, r)
      BY <2>3, <2>4 DEF CallGoesOn, At
    <2>6. SessionTypes'
      BY <1>0, <2>3, <2>4, <2>5, StartersStay DEF SessionTypes
    <2>7. QED BY <1>0, <1>c, <1>d, <2>3, <2>4, <2>5, <2>6, CalmKept
  <1>2. CASE ChannelDrops
    <2>1. /\ handle' = Lost(handle) /\ UNCHANGED <<local, router, daemon, call, dialogs, past>>
      BY <1>2 DEF ChannelDrops
    <2>2. /\ Lost(handle) \in [Handles -> HandleStates]
          /\ \A g \in Handles : Lost(handle)[g] \in Unserving => handle[g] \in Unserving
      BY <1>0, HandlesMove DEF Lost, HandleStates, Unserving
    <2>3. SessionTypes'
      BY <1>0, <2>1, <2>2 DEF SessionTypes
    <2>4. QED BY <1>0, <1>c, <1>d, <2>1, <2>2, <2>3, CalmKept
  <1>3. CASE DaemonEnds
    <2>1. /\ handle' = Lost(handle) /\ local' = Gone(local, daemon) /\ past \subseteq past'
          /\ UNCHANGED <<router, daemon, call, dialogs>>
      BY <1>3 DEF DaemonEnds
    <2>2. /\ Lost(handle) \in [Handles -> HandleStates]
          /\ \A g \in Handles : Lost(handle)[g] \in Unserving => handle[g] \in Unserving
      BY <1>0, HandlesMove DEF Lost, HandleStates, Unserving
    <2>3. /\ Sound(local') /\ local'.server = local.server
          /\ \A q \in Procs : Alive(local', q) => Alive(local, q)
      BY <1>0, <2>1, ProcGoes DEF SessionTypes
    <2>4. SessionTypes'
      BY <1>0, <2>1, <2>2 DEF SessionTypes
    <2>5. QED BY <1>c, <2>1, <2>2, <2>3, <2>4, CalmKept
  <1>4. ASSUME NEW h \in Handles, Reattaches(h) PROVE ShellInv'
    <2>1. handle' = AttachedAs(handle, h) /\ UNCHANGED <<router, call, past>>
      BY <1>4 DEF Reattaches
    <2>2. PICK d \in Reachable : local' = WithDaemon(d) /\ daemon' = d
      BY <1>4 DEF Reattaches
    <2>3. PICK again \in AskedAgain(h) : dialogs' = dialogs \cup again
      BY <1>4 DEF Reattaches
    <2>4. \A e \in again : e.of \in Routers /\ e.asker \in Procs
      BY AsksAgain
    <2>5. /\ AttachedAs(handle, h) \in [Handles -> HandleStates]
          /\ \A g \in Handles : AttachedAs(handle, h)[g] \in Unserving => handle[g] \in Unserving
      BY <1>0, HandlesMove
    <2>6. /\ d \in Procs /\ Sound(local') /\ local'.server = local.server
          /\ \A q \in Procs : Alive(local', q) /\ local.proc[q].state # "none" => Alive(local, q)
      BY <2>2, Reaches
    <2>7. SessionTypes'
      BY <1>0, <2>1, <2>2, <2>3, <2>4, <2>5, <2>6 DEF SessionTypes
    <2>8. QED BY <1>c, <2>1, <2>5, <2>6, <2>7, CalmKept
  <1>5. ASSUME NEW h \in Handles, GivesUp(h) PROVE ShellInv'
    <2>1. /\ handle' = [handle EXCEPT ![h] = "auth-required"]
          /\ UNCHANGED <<local, router, daemon, call, dialogs, past>>
      BY <1>5 DEF GivesUp
    <2>2. /\ handle' \in [Handles -> HandleStates]
          /\ \A g \in Handles : handle'[g] \in Unserving => handle[g] \in Unserving
      BY <1>0, <2>1 DEF HandleStates, Unserving
    <2>3. SessionTypes'
      BY <1>0, <2>1, <2>2 DEF SessionTypes
    <2>4. QED BY <1>0, <1>c, <1>d, <2>1, <2>2, <2>3, CalmKept
  <1>6. ASSUME NEW p \in Procs, Confirms(p) PROVE ShellInv'
    <2>1. PICK asked \in Seq(AskRecord) : AskedOf(p, asked)
      BY <1>6, ConfirmAsks
    <2>2. /\ Sound(local') /\ local'.server = local.server
          /\ \A q \in Procs : Alive(local', q) => Alive(local, q)
      BY <1>0, <2>1, AskedKept DEF ShellInv
    <2>3. \A e \in dialogs' : e \in dialogs \/ (e.of = router /\ e.asker = p)
      BY <1>6 DEF Confirms
    <2>4. UNCHANGED <<router, handle, daemon, call, past>>
      BY <1>6 DEF Confirms
    <2>5. SessionTypes'
      BY <1>0, <2>3, <2>4 DEF SessionTypes
    <2>6. QED BY <1>c, <2>2, <2>4, <2>5, CalmKept
  <1>7. ASSUME NEW e \in dialogs, Answers(e) PROVE ShellInv'
    <2>1. \/ local' = local
          \/ \E p \in Procs, asked \in Seq(AskRecord) : AskedOf(p, asked)
      BY <1>7, AnswerSettles
    <2>2. /\ Sound(local') /\ local'.server = local.server
          /\ \A q \in Procs : Alive(local', q) => Alive(local, q)
      BY <1>0, <2>1, AskedKept DEF ShellInv
    <2>3. dialogs' \subseteq dialogs /\ UNCHANGED <<router, handle, daemon, call, past>>
      BY <1>7 DEF Answers
    <2>4. SessionTypes'
      BY <1>0, <2>3 DEF SessionTypes
    <2>5. QED BY <1>c, <2>2, <2>3, <2>4, CalmKept
  <1>8. CASE UNCHANGED <<local, router, handle, daemon, call, dialogs, past>>
    <2>1. SessionTypes'
      BY <1>0, <1>8 DEF SessionTypes
    <2>2. QED BY <1>0, <1>c, <1>d, <1>8, <2>1, CalmKept
  <1>9. QED BY <1>1, <1>2, <1>3, <1>4, <1>5, <1>6, <1>7, <1>8 DEF CalmStep

(* A hello wait or a shutdown ends: the start may fail with it.            *)
LEMMA BecomesKept ==
  ASSUME ShellInv, NEW s \in Servers, NEW w, Sound(w), ServerMoves(local, w, s),
         local.server[s] # NewServer,
         \/ w.server[s].ending = local.server[s].ending
         \/ w.server[s].ending = 0 /\ w.server[s].child = 0,
         local.server[s].awaiting /\ ~w.server[s].awaiting => w.server[s].child = 0,
         router = Local(s) =>
           ServedBy(w.server[s]) \/ (local.server[s].awaiting /\ ~w.server[s].awaiting),
         Alive(w, w.server[s].child) => Alive(local, local.server[s].child),
         Becomes(w, s), past \subseteq past', UNCHANGED <<router, handle, daemon, dialogs>>
  PROVE  ShellInv' /\ ServerMoves(local, local', s)
  <1> DEFINE rejects == local.server[s].awaiting /\ ~w.server[s].awaiting
             v == [w.server[s] EXCEPT !.dialog = "failed"]
  <1>1. /\ local' = IF rejects /\ Starters(s) = {} THEN WithServer(w, s, v) ELSE w
        /\ call' = [o \in Calls |-> IF rejects /\ o \in Starters(s) THEN [call[o] EXCEPT !.at = "over"]
                                    ELSE call[o]]
    BY DEF Becomes, WithServer
  <1>2. call \in [Calls -> CallRecord] /\ w \in Supervisors /\ w.server[s] \in ServerRecord
    BY DEF ShellInv, SessionTypes, Sound, Supervisors
  <1>3. ~Forgetful' => ~Forgetful
    BY DEF Forgetful
  <1>4. CASE ~rejects
    <2>1. call' = call /\ local' = w
      BY <1>1, <1>2, <1>4
    <2>2. ~Forgetful' /\ Alive(local', local'.server[s].child)
           => router = Local(s) \/ Starters(s) # {} \/ local.server[s].ending # 0
      BY <1>3, <2>1 DEF ShellInv, UsedInv
    <2>3. router = Local(s) => ServedBy(local'.server[s])
      BY <1>4, <2>1
    <2>4. QED BY <2>1, <2>2, <2>3, ServerKept
  <1>5. CASE rejects /\ Starters(s) # {}
    <2>1. StartFails(s) /\ local' = w /\ w.server[s].child = 0
      BY <1>1, <1>5 DEF StartFails
    <2>2. router # Local(s)
      BY <1>5 DEF ShellInv, RouterInv
    <2>3. ~Alive(local', local'.server[s].child)
      BY <2>1 DEF Alive
    <2>4. QED BY <2>1, <2>2, <2>3, ServerKept
  <1>6. CASE rejects /\ Starters(s) = {}
    <2>1. call' = call /\ local' = WithServer(w, s, v)
      BY <1>1, <1>2, <1>6
    <2>2. /\ v \in ServerRecord /\ v.child = w.server[s].child /\ v.dialog = "failed"
          /\ v.phase = w.server[s].phase /\ v.ending = w.server[s].ending
          /\ v.awaiting = w.server[s].awaiting
      BY <1>2 DEF ServerRecord
    <2> HIDE DEF v
    <2>3. local'.server[s] = v /\ local'.proc = w.proc
      BY <1>2, <2>1, <2>2, ServerSet
    <2>4. SoundServer(WithServer(w, s, v), s)
      BY <2>1, <2>2, <2>3 DEF Sound, SoundServer
    <2>5. Sound(local') /\ ServerMoves(w, local', s)
      BY <2>1, <2>2, <2>4, ServerSound
    <2>6. ServerMoves(local, local', s)
      BY <2>5, MovesOn DEF ShellInv
    <2>7. ~Alive(local', local'.server[s].child)
      BY <1>6, <2>2, <2>3 DEF Alive
    <2>8. ServedBy(local'.server[s])
      BY <2>2, <2>3 DEF ServedBy
    <2>9. QED BY <2>1, <2>2, <2>3, <2>5, <2>6, <2>7, <2>8, ServerKept
  <1>7. QED BY <1>4, <1>5, <1>6

(* SaysHello of a server nobody waits for: it runs.                        *)
LEMMA HelloKept ==
  ASSUME ShellInv, NEW s \in Servers, local.server[s].awaiting, Alive(local, local.server[s].child),
         local' = Serves(local, s), UNCHANGED <<router, handle, daemon, call, dialogs, past>>
  PROVE  ShellInv' /\ ServerMoves(local, local', s)
  <1>1. /\ Sound(local') /\ ServerMoves(local, local', s) /\ local'.server[s].phase = "running"
        /\ local'.server[s].ending = local.server[s].ending
    BY Serving DEF ShellInv
  <1>2. local.server[s] # NewServer
    BY DEF NewServer
  <1>3. ~Forgetful' => router = Local(s) \/ Starters(s) # {} \/ local.server[s].ending # 0
    BY DEF ShellInv, UsedInv, Forgetful
  <1>4. QED BY <1>1, <1>2, <1>3, ServerKept DEF ServedBy

(* SaysHello of a server a call waits for: the window comes to it.         *)
LEMMA ComesBackKept ==
  ASSUME ShellInv, NEW s \in Servers, local.server[s].awaiting, Alive(local, local.server[s].child),
         NEW o \in Starters(s), ComesBackTo(Serves(local, s), s, o), UNCHANGED <<daemon, dialogs>>
  PROVE  ShellInv'
  <1> DEFINE w == Serves(local, s)
             To(at) == [call[o] EXCEPT !.at = at]
  <1>1. /\ Sound(w) /\ ServerMoves(local, w, s) /\ w.server[s].phase = "running"
        /\ w.server[s].ending = local.server[s].ending
    BY Serving DEF ShellInv
  <1>2. \A t \in Servers \ {s} : /\ w.server[t] = local.server[t]
                                 /\ Alive(w, local.server[t].child) => Alive(local, local.server[t].child)
    BY <1>1, OthersStay DEF ShellInv
  <1>3. /\ SessionTypes /\ o \in Calls /\ call[o].at = "spawning" /\ call[o].kind # "none"
        /\ router \in Routers /\ handle \in [Handles -> HandleStates] /\ daemon \in Procs \cup {0}
        /\ router # Local(s) /\ call \in [Calls -> CallRecord]
    <2>1. o \in Calls /\ call[o].at = "spawning"
      BY DEF Starters
    <2>2. QED BY <2>1 DEF ShellInv, SessionTypes, RouterInv, NewCallsInv
  <1>4. "leaving" \in CallStages \ {"retrying"} /\ "over" \in CallStages \ {"retrying"}
    BY DEF CallStages
  <1>5. \A at \in CallStages \ {"retrying"} :
          To(at) \in CallRecord /\ To(at).at = at /\ To(at).kind = call[o].kind
    BY <1>3, GoesOn
  <1> HIDE DEF w
  <1>6. router' = Local(s) /\ Local(s) \in Routers
    BY DEF ComesBackTo, Routers
  <1>7. ASSUME NEW at \in {"leaving", "over"}, call' = [call EXCEPT ![o].at = at], Sound(local'),
               \/ handle' = handle
               \/ \E h \in Handles : handle' = Closed(handle, h),
               local'.server[s].phase = "running", local'.server[s].ending = local.server[s].ending,
               \A t \in Servers \ {s} :
                 /\ local'.server[t].child = local.server[t].child
                 /\ Alive(local', local.server[t].child) => Alive(local, local.server[t].child)
                 /\ router # Local(t) \/ local.server[t].phase \in {"stopped", "stopping"}
                      => local'.server[t] = local.server[t]
                 /\ router = Local(t) => Forgetful' \/ local'.server[t].ending # 0
                                         \/ local.server[t].phase \in {"stopped", "stopping"},
               past \subseteq past'
        PROVE  ShellInv'
    <2> DEFINE r == To(at)
    <2>1. call' = [call EXCEPT ![o] = r]
      BY <1>7
    <2>2. r \in CallRecord /\ r.kind # "none" /\ r.at # "spawning"
      BY <1>3, <1>4, <1>5
    <2> HIDE DEF r
    <2>3. call' \in [Calls -> CallRecord]
      BY <1>3, <2>1, <2>2
    <2>4. handle' \in [Handles -> HandleStates]
      BY <1>3, <1>7, HandlesMove
    <2>5. SessionTypes'
      BY <1>3, <1>6, <2>3, <2>4 DEF SessionTypes
    <2>6. QED BY <1>6, <1>7, <2>1, <2>2, <2>5, BackKept
  <1>8. CASE \E h \in Handles : router = Remote(h)
    <2>1. PICK h \in Handles : router = Remote(h)
      BY <1>8
    <2>2. handle' = Closed(handle, h) /\ past' = past
      BY <2>1, FrontsDiffer DEF ComesBackTo, Previous
    <2>3. \A t \in Servers : router # Local(t)
      BY <2>1, FrontsDiffer
    <2>4. CASE call[o].kind = "disconnect"
      <3>1. local' = w /\ call' = [call EXCEPT ![o].at = "leaving"]
        BY <2>4 DEF ComesBackTo, w
      <3>2. QED BY <1>1, <1>2, <1>7, <2>2, <2>3, <3>1
    <2>5. CASE call[o].kind # "disconnect"
      <3>1. local' = TellsDaemon(w, h) /\ call' = [call EXCEPT ![o].at = "over"]
        BY <2>1, <2>5, FrontsDiffer DEF ComesBackTo, Previous, Over, w
      <3>2. local' = w \/ (daemon \in Procs /\ local' = Told(w, daemon))
        BY <1>3, <3>1 DEF TellsDaemon, Alive
      <3>3. /\ Sound(local') /\ local'.server = w.server
            /\ \A q \in Procs : Alike(w, local', q)
        BY <1>1, <3>2, Telling DEF Alike
      <3>4. \A t \in Servers : w.server[t].child \in Procs \cup {0}
        BY <1>1 DEF Sound, Supervisors, ServerRecord
      <3>5. \A t \in Servers \ {s} :
              Alive(local', local.server[t].child) => Alive(local, local.server[t].child)
        BY <1>2, <3>3, <3>4 DEF Alive, Alike
      <3>6. QED BY <1>1, <1>2, <1>7, <2>2, <2>3, <3>1, <3>3, <3>5
    <2>6. QED BY <2>4, <2>5
  <1>9. CASE \E t \in Servers : router = Local(t)
    <2>1. PICK t \in Servers : router = Local(t)
      BY <1>9
    <2>2. handle' = handle /\ past \subseteq past' /\ t # s
      BY <1>3, <2>1, FrontsDiffer DEF ComesBackTo, Previous
    <2>3. \A u \in Servers : router = Local(u) => u = t
      BY <2>1, FrontsDiffer
    <2>4. CASE call[o].kind = "disconnect"
      <3>1. local' = w /\ call' = [call EXCEPT ![o].at = "leaving"] /\ Forgetful'
        BY <2>1, <2>4, FrontsDiffer DEF ComesBackTo, Previous, Forgetful, w
      <3>2. QED BY <1>1, <1>2, <1>7, <2>2, <3>1
    <2>5. CASE call[o].kind # "disconnect"
      <3>1. local' = BeginsShutdown(w, t) /\ call' = [call EXCEPT ![o].at = "over"]
        BY <2>1, <2>5, FrontsDiffer DEF ComesBackTo, Previous, Over, w
      <3>2. /\ Sound(local') /\ ServerMoves(w, local', t) /\ \A q \in Procs : Alike(w, local', q)
            /\ local'.server[t].child = w.server[t].child
            /\ w.server[t].phase \in {"stopped", "stopping"} => local' = w
            /\ w.server[t].phase \notin {"stopped", "stopping"} => local'.server[t].ending # 0
        BY <1>1, <3>1, Shuts
      <3>3. \A u \in Servers \ {t} : local'.server[u] = w.server[u]
        BY <3>2 DEF ServerMoves
      <3>4. \A u \in Servers : w.server[u].child \in Procs \cup {0}
        BY <1>1 DEF Sound, Supervisors, ServerRecord
      <3>5. \A u \in Servers \ {s} :
              /\ local'.server[u].child = local.server[u].child
              /\ Alive(local', local.server[u].child) => Alive(local, local.server[u].child)
        BY <1>2, <3>2, <3>3, <3>4 DEF Alive, Alike
      <3>6. \A u \in Servers \ {s} :
              /\ router # Local(u) \/ local.server[u].phase \in {"stopped", "stopping"}
                   => local'.server[u] = local.server[u]
              /\ router = Local(u) => local'.server[u].ending # 0
                                      \/ local.server[u].phase \in {"stopped", "stopping"}
        BY <1>2, <2>1, <2>3, <3>2, <3>3
      <3>7. local'.server[s].phase = "running" /\ local'.server[s].ending = local.server[s].ending
        BY <1>1, <2>2, <3>3
      <3>8. QED BY <1>7, <2>2, <3>1, <3>2, <3>5, <3>6, <3>7
    <2>6. QED BY <2>4, <2>5
  <1>10. QED BY <1>3, <1>8, <1>9 DEF Routers

(* Restart: the child that crashed is replaced.                            *)
LEMMA RestartKept ==
  ASSUME ShellInv, NEW s \in Servers, Restart(s)
  PROVE  ShellInv' /\ ServerMoves(local, local', s)
  <1>1. PICK p \in Procs : /\ local.proc[p].state = "none"
                           /\ local' = [StartAttempt(local, s, p) EXCEPT !.server[s].dialog = "none"]
    BY DEF Restart, NextProc
  <1> DEFINE x == StartAttempt(local, s, p)
             v == [x.server[s] EXCEPT !.dialog = "none"]
  <1>2. /\ local \in Supervisors /\ local.server[s] \in ServerRecord /\ SoundServer(local, s)
        /\ Sound(local)
    BY DEF ShellInv, Sound, Supervisors
  <1>3. /\ local.server[s].dialog = "crashed" /\ local.server[s].child = 0
    BY <1>2 DEF Restart, SoundServer
  <1>4. local' = WithServer(x, s, v)
    BY <1>1 DEF WithServer
  <1> HIDE DEF x
  <1>5. /\ x \in Supervisors
        /\ x.server[s] = Fronting(local.server[s], p)
        /\ \A t \in Servers \ {s} : x.server[t] = local.server[t]
        /\ x.proc[p] = Process("booting", s)
        /\ \A q \in Procs \ {p} : x.proc[q] = local.proc[q]
    BY <1>2, Starts DEF x
  <1>6. /\ x.server[s] \in ServerRecord /\ x.server[s].phase = "starting" /\ x.server[s].child = p
        /\ x.server[s].ending = local.server[s].ending /\ x.server[s].awaiting
    BY <1>2, <1>5 DEF ServerRecord, Fronting, Supervisors
  <1>7. /\ v \in ServerRecord /\ v.phase = "starting" /\ v.child = p /\ v.dialog = "none"
        /\ v.ending = local.server[s].ending /\ v.awaiting
    BY <1>6 DEF ServerRecord
  <1> HIDE DEF v
  <1>8. /\ local' \in Supervisors /\ local'.proc = x.proc /\ local'.server[s] = v
        /\ \A t \in Servers \ {s} : local'.server[t] = local.server[t]
    BY <1>4, <1>5, <1>7, ServerSet
  <1>9. \A q \in Procs : ~(Alive(local, q) /\ local.proc[q].of = s)
    <2> SUFFICES ASSUME NEW q \in Procs, Alive(local, q), local.proc[q].of = s PROVE FALSE
      OBVIOUS
    <2>1. 0 \notin Servers /\ q # 0
      BY SupervisorAssumption DEF Servers, Alive
    <2>2. QED BY <1>2, <1>3, <2>1 DEF Sound
  <1>10. Sound(local') /\ ServerMoves(local, local', s)
    <2>1. /\ local'.server[s].phase = "starting" /\ local'.server[s].child = p
          /\ local'.server[s].dialog # "crashed" /\ local'.proc[p] = Process("booting", s)
          /\ \A q \in Procs \ {p} : local'.proc[q] = local.proc[q]
      BY <1>5, <1>7, <1>8
    <2>2. QED BY <1>1, <1>2, <1>8, <1>9, <2>1, AttemptIsSound
  <1>11. router = Local(s) \/ Forgetful'
    BY DEF Restart, Forgetful
  <1>12. local.server[s] # NewServer
    BY <1>3 DEF NewServer
  <1>13. past \subseteq past' /\ UNCHANGED <<router, handle, daemon, dialogs, call>>
    BY DEF Restart
  <1>14. QED BY <1>7, <1>8, <1>10, <1>11, <1>12, <1>13, ServerKept DEF ServedBy

(* The steps of the local servers.                                         *)
LEMMA ServerStepKept ==
  ASSUME ShellInv, NEW s \in Servers, ServerStep(s)
  PROVE  ShellInv' /\ (SaysHello(s) \/ ServerMoves(local, local', s))
  <1>0. Sound(local) /\ local.server[s] \in ServerRecord
    BY DEF ShellInv, Sound, Supervisors
  <1>1. CASE SaysHello(s)
    <2>1. CASE local' = Serves(local, s) /\ UNCHANGED <<router, handle, call, past>>
      BY <1>1, <2>1, HelloKept DEF SaysHello
    <2>2. CASE \E o \in Starters(s) : ComesBackTo(Serves(local, s), s, o)
      BY <1>1, <2>2, ComesBackKept DEF SaysHello
    <2>3. QED BY <1>1, <2>1, <2>2 DEF SaysHello
  <1>2. CASE HelloFails(s)
    <2>1. /\ local.server[s].awaiting /\ Alive(local, local.server[s].child)
          /\ UNCHANGED <<router, handle, daemon, dialogs, past>>
      BY <1>2 DEF HelloFails
    <2>2. PICK p \in Procs : local.proc[p].state = "none" /\ Becomes(HelloLost(local, s, p), s)
      BY <1>2 DEF HelloFails, NextProc
    <2> DEFINE w == HelloLost(local, s, p)
    <2>3. /\ Sound(w) /\ ServerMoves(local, w, s) /\ w.server[s].ending = local.server[s].ending
          /\ w.server[s].awaiting \/ w.server[s].child = 0
      BY <1>0, <2>1, <2>2, LosesHello
    <2>4. local.server[s] # NewServer
      BY <2>1 DEF NewServer
    <2> HIDE DEF w
    <2>5. QED BY <2>1, <2>2, <2>3, <2>4, BecomesKept DEF ServedBy, w
  <1>3. CASE ChildExits(s)
    <2>1. /\ Alive(local, local.server[s].child) /\ past \subseteq past'
          /\ UNCHANGED <<router, handle, daemon, dialogs>>
      BY <1>3 DEF ChildExits
    <2>2. PICK q \in Procs : local.proc[q].state = "none" /\ Becomes(Exits(local, s, q), s)
      BY <1>3 DEF ChildExits, NextProc
    <2> DEFINE w == Exits(local, s, q)
    <2>3. /\ Sound(w) /\ ServerMoves(local, w, s)
          /\ \/ w.server[s].ending = local.server[s].ending
             \/ w.server[s].ending = 0 /\ w.server[s].child = 0
          /\ local.server[s].awaiting /\ ~w.server[s].awaiting => w.server[s].child = 0
          /\ local.server[s].ending = 0 /\ ServedBy(local.server[s])
               => ServedBy(w.server[s]) \/ (local.server[s].awaiting /\ ~w.server[s].awaiting)
      BY <1>0, <2>1, <2>2, Exiting
    <2>4. local.server[s] # NewServer
      BY <2>1 DEF NewServer, Alive
    <2>5. router = Local(s) => local.server[s].ending = 0 /\ ServedBy(local.server[s])
      BY DEF ShellInv, RouterInv, WindowInv
    <2> HIDE DEF w
    <2>6. QED BY <2>1, <2>2, <2>3, <2>4, <2>5, BecomesKept DEF w
  <1>4. CASE ShutdownEnds(s)
    <2> DEFINE w == EndsShutdown(local, s)
    <2>1. /\ local.server[s].ending # 0 /\ Becomes(w, s)
          /\ UNCHANGED <<router, handle, daemon, dialogs, past>>
      BY <1>4 DEF ShutdownEnds
    <2>2. /\ Sound(w) /\ ServerMoves(local, w, s)
          /\ w.server[s].ending = 0 /\ w.server[s].child = 0
      BY <1>0, ShutsDown
    <2> HIDE DEF w
    <2>3. local.server[s] # NewServer /\ router # Local(s)
      BY <2>1 DEF NewServer, ShellInv, RouterInv
    <2>4. ~Alive(w, w.server[s].child)
      BY <2>2 DEF Alive
    <2>5. QED BY <2>1, <2>2, <2>3, <2>4, BecomesKept
  <1>5. CASE Restart(s)
    BY <1>5, RestartKept DEF Restart
  <1>6. QED BY <1>1, <1>2, <1>3, <1>4, <1>5 DEF ServerStep

(* Every step but those of the ssh connections keeps the invariant.        *)
LEMMA ShellKept ==
  ASSUME ShellInv, [Next]_vars
  PROVE  ShellInv'
  <1>1. CASE \E o \in Calls : AsksToStart(o) \/ StartCall(o)
    BY <1>1, StartCallKept
  <1>2. ASSUME NEW o \in Calls, AsksToDisconnect(o) PROVE ShellInv'
    <2>1. call[o].kind = "none" /\ UNCHANGED <<router, handle, daemon, dialogs, past>>
      BY <1>2 DEF AsksToDisconnect, FreeCall
    <2>2. CASE router.kind = "remote"
      BY <1>2, <2>1, <2>2, SpawnKept DEF AsksToDisconnect
    <2>3. CASE router.kind # "remote"
      <3> DEFINE r == Begun("disconnect", "leaving")
      <3>1. r \in CallRecord /\ r.kind = "disconnect" /\ r.at = "leaving"
        <4>1. "leaving" \in CallStages
          BY DEF CallStages
        <4>2. QED BY <4>1, CallBegins
      <3>2. call' = [call EXCEPT ![o] = r] /\ local' = local
        BY <1>2, <2>3 DEF AsksToDisconnect, Begun
      <3> HIDE DEF r
      <3>3. call[o].at = "new"
        BY <2>1 DEF ShellInv, NewCallsInv
      <3>4. CallGoesOn(o, r)
        BY <3>1, <3>2, <3>3 DEF CallGoesOn
      <3>5. SessionTypes' /\ Sound(local')
        BY <2>1, <3>1, <3>2, <3>4, StartersStay DEF ShellInv, SessionTypes
      <3>6. \A h \in Handles : router = Remote(h) => handle'[h] \notin Unserving
        BY <2>1 DEF ShellInv, WindowInv
      <3>7. QED BY <2>1, <3>1, <3>2, <3>4, <3>5, <3>6, CalmKept
    <2>4. QED BY <2>2, <2>3
  <1>3. ASSUME NEW o \in Calls, AsksToEnd(o) PROVE ShellInv'
    BY <1>3, SpawnKept DEF AsksToEnd, FreeCall
  <1>4. CASE \E s \in Servers : ServerStep(s)
    BY <1>4, ServerStepKept
  <1>5. CASE CalmStep
    BY <1>5, CalmStepsKept
  <1>6. CASE UNCHANGED vars
    BY <1>6 DEF vars, sessionVars, ShellInv, SessionTypes, NewCallsInv, RouterInv, WindowInv,
       UsedInv, Forgetful, Starters, ServerOf
  <1>7. QED BY <1>1, <1>2, <1>3, <1>4, <1>5, <1>6 DEF Next, CalmStep

(* At first the window is on a server that runs.                           *)
LEMMA ShellInits ==
  ASSUME Init
  PROVE  ShellInv
  <1> DEFINE one == [NewServer EXCEPT !.phase = "running", !.child = 1]
             servers == [s \in Servers |-> IF s = 1 THEN one ELSE NewServer]
             procs == [p \in Procs |-> IF p = 1 THEN Process("up", 1) ELSE NewProc]
  <1>1. 1 \in Servers /\ 1 \in Procs /\ 0 \notin Procs /\ 0 \notin Servers
    BY SupervisorAssumption DEF Servers, Procs
  <1>2. /\ NewServer \in ServerRecord /\ NewServer.phase = "stopped" /\ NewServer.child = 0
        /\ ~NewServer.awaiting /\ NewServer.ending = 0 /\ NewServer.dialog = "none"
    <2>1. \A b \in BOOLEAN : [phase |-> "stopped", child |-> 0, awaiting |-> b, tries |-> 0,
                              ending |-> 0, dialog |-> "none"] \in ServerRecord
      BY DEF ServerRecord
    <2>2. NewServer \in ServerRecord
      BY <2>1 DEF NewServer
    <2>3. QED BY <2>2 DEF NewServer
  <1>3. /\ one \in ServerRecord /\ one.phase = "running" /\ one.child = 1
        /\ ~one.awaiting /\ one.ending = 0 /\ one.dialog = "none"
    BY <1>1, <1>2 DEF ServerRecord
  <1>4. /\ Process("up", 1) \in ProcRecord /\ Process("up", 1).state = "up"
        /\ Process("up", 1).of = 1 /\ NewProc \in ProcRecord /\ NewProc.state = "none"
    BY <1>1 DEF Process, NewProc, ProcRecord
  <1>5. local = [server |-> servers, proc |-> procs]
    BY DEF Init
  <1> HIDE DEF one
  <1>6. /\ servers \in [Servers -> ServerRecord] /\ servers[1] = one
        /\ \A s \in Servers \ {1} : servers[s] = NewServer
    BY <1>1, <1>2, <1>3
  <1>7. /\ procs \in [Procs -> ProcRecord] /\ procs[1] = Process("up", 1)
        /\ \A p \in Procs \ {1} : procs[p] = NewProc
    BY <1>1, <1>4
  <1> HIDE DEF servers, procs
  <1>8. local.server = servers /\ local.proc = procs /\ local \in Supervisors
    BY <1>5, <1>6, <1>7 DEF Supervisors
  <1>9. \A s \in Servers : SoundServer(local, s)
    BY <1>1, <1>2, <1>3, <1>4, <1>6, <1>7, <1>8 DEF SoundServer
  <1>10. \A p \in Procs : Alive(local, p) => p = 1
    BY <1>4, <1>7, <1>8 DEF Alive
  <1>11. Sound(local)
    BY <1>1, <1>3, <1>4, <1>6, <1>7, <1>8, <1>9, <1>10 DEF Sound
  <1>12. /\ router = Local(1) /\ handle = [h \in Handles |-> "none"] /\ daemon = 0
         /\ call = [o \in Calls |-> NewCall] /\ dialogs = {} /\ past = {}
    BY DEF Init
  <1>13. NewCall \in CallRecord /\ NewCall.kind = "none" /\ NewCall.at = "new"
    BY DEF NewCall, CallRecord, CallFields, CallStages
  <1>14. /\ \A o \in Calls : call[o].kind = "none" /\ call[o].at = "new"
         /\ call \in [Calls -> CallRecord]
    BY <1>12, <1>13
  <1>15. SessionTypes
    BY <1>1, <1>12, <1>14 DEF SessionTypes, Routers, HandleStates
  <1>16. \A o \in Calls : ServerOf(o) \in Servers \ {1}
    BY SupervisorAssumption, ShellAssumption DEF ServerOf, Calls, Servers
  <1>17. NewCallsInv
    BY <1>6, <1>8, <1>14, <1>16 DEF NewCallsInv
  <1>18. \A s \in Servers : local.server[s].ending = 0 /\ Starters(s) = {}
    BY <1>1, <1>2, <1>3, <1>6, <1>8, <1>14 DEF Starters
  <1>19. \A s \in Servers : router = Local(s) => s = 1
    BY <1>1, <1>12, FrontsDiffer
  <1>20. \A h \in Handles : router # Remote(h)
    BY <1>1, <1>12, FrontsDiffer
  <1>21. RouterInv /\ WindowInv
    BY <1>3, <1>6, <1>8, <1>18, <1>19, <1>20 DEF RouterInv, WindowInv, ServedBy
  <1>22. UsedInv
    BY <1>1, <1>2, <1>6, <1>8, <1>12 DEF UsedInv, Alive
  <1>23. QED BY <1>11, <1>15, <1>17, <1>21, <1>22 DEF ShellInv

(* The invariant says where the window is and who is used.                 *)
LEMMA ShellSays ==
  ASSUME ShellInv
  PROVE  WindowIsServed /\ NoServerIsAbandoned
  <1>1. WindowIsServed
    <2>1. CASE \E s \in Servers : router = Local(s)
      BY <2>1, FrontsDiffer DEF WindowIsServed, ShellInv, WindowInv, ServedBy
    <2>2. CASE \E h \in Handles : router = Remote(h)
      BY <2>2, FrontsDiffer DEF WindowIsServed, ShellInv, WindowInv, Unserving
    <2>3. QED BY <2>1, <2>2 DEF ShellInv, SessionTypes, Routers
  <1>2. NoServerIsAbandoned
    <2> SUFFICES ASSUME ~Forgetful, NEW p \in Procs, Alive(local, p), local.proc[p].of # 0
                 PROVE  LET s == local.proc[p].of
                        IN  local.server[s].child = p
                            /\ (router = Local(s) \/ Starters(s) # {} \/ local.server[s].ending # 0)
      BY DEF NoServerIsAbandoned, ServersAreUsed, Forgetful
    <2>1. local.proc[p].of \in Servers
      BY DEF ShellInv, Sound, Supervisors, ProcRecord
    <2>2. local.server[local.proc[p].of].child = p
      BY DEF ShellInv, Sound
    <2>3. QED BY <2>1, <2>2 DEF ShellInv, UsedInv
  <1>3. QED BY <1>1, <1>2

(* The window always has a server: on a local one that runs, restarts or   *)
(* asks to be restarted, or on a handle nobody closed, a takeover apart.   *)
THEOREM Window == Spec => []WindowIsServed
  <1>1. Init => ShellInv
    BY ShellInits
  <1>2. ShellInv /\ [Next]_vars => ShellInv'
    BY ShellKept
  <1>3. ShellInv => WindowIsServed
    BY ShellSays
  <1>4. QED BY <1>1, <1>2, <1>3, PTL DEF Spec

(* No local server is left running that nobody uses, but for the two ways  *)
(* a call forgets one: the disconnect that finds the window on another     *)
(* local server, and the restart of one the window is not on.              *)
THEOREM Used == Spec => []NoServerIsAbandoned
  <1>1. Init => ShellInv
    BY ShellInits
  <1>2. ShellInv /\ [Next]_vars => ShellInv'
    BY ShellKept
  <1>3. ShellInv => NoServerIsAbandoned
    BY ShellSays
  <1>4. QED BY <1>1, <1>2, <1>3, PTL DEF Spec

----------------------------------------------------------------------------
(* The confirms: which process a dialog's answer reaches.                  *)

NoPending(w, p) == \A n \in DOMAIN w.proc[p].asked : w.proc[p].asked[n].state # "pending"

(* An answer to this dialog settles a request of the process that asked,   *)
(* or none: what its front reaches has no pending request, or is gone.     *)
LocalOwn(d) ==
  \A s \in Servers : d.of = Local(s) =>
    IF router = Local(s) THEN d.asker = local.server[s].child
    ELSE local.server[s].child \in {0, d.asker} \/ NoPending(local, local.server[s].child)
RemoteOwn(d) ==
  \A h \in Handles : d.of = Remote(h) =>
    handle[h] = "closed" \/ (router = Remote(h) /\ d.asker = daemon /\ Alive(local, daemon))
OwnInv == "outlived" \notin past => AnswersAreOwn /\ \A d \in dialogs : LocalOwn(d) /\ RemoteOwn(d)

(* What shows a dialog was fronted once: no start of it is to come.        *)
FrontIsOver(d) ==
  \A o \in Calls :
    /\ d.of = Local(ServerOf(o)) => call[o].kind # "none" /\ call[o].at # "spawning"
    /\ d.of = Remote(o) => call[o].at = "over"
DialogsInv == \A d \in dialogs : local.proc[d.asker].state \in {"up", "gone"} /\ FrontIsOver(d)

DaemonInv == daemon # 0 => local.proc[daemon].state # "none" /\ local.proc[daemon].of = 0
SilenceInv ==
  \A p \in Procs : local.proc[p].state \in {"none", "booting"} => DOMAIN local.proc[p].asked = {}

AsksInv == DaemonInv /\ SilenceInv /\ DialogsInv /\ OwnInv

(* A process goes on, and asks for nothing more.                           *)
Grows(w, x, q) ==
  /\ w.proc[q].state # "none" => x.proc[q].state # "none" /\ x.proc[q].of = w.proc[q].of
  /\ w.proc[q].state \in {"up", "gone"} => x.proc[q].state \in {"up", "gone"}
  /\ Withdrawn(w.proc[q].asked, x.proc[q].asked)

(* The calls go on: none comes to wait for a server, or begins again.      *)
CallsStay ==
  \A o \in Calls :
    /\ call[o].kind # "none" /\ call[o].at # "spawning"
         => call'[o].kind # "none" /\ call'[o].at # "spawning"
    /\ call[o].at = "over" => call'[o].at = "over"

(* How a process may change, and go on.                                    *)
LEMMA Growing ==
  ASSUME NEW w, NEW x, NEW q, NEW s
  PROVE  /\ Alike(w, x, q) => Grows(w, x, q)
         /\ Turns(w, x, q) => Grows(w, x, q)
         /\ Fresh(w, x, q, s) => Grows(w, x, q)
  BY DEF Alike, Turns, Fresh, Grows, Withdrawn

(* A supervisor that goes on leaves every process going on.                *)
LEMMA MovesGrow ==
  ASSUME NEW w, NEW x, NEW s \in Servers, ServerMoves(w, x, s)
  PROVE  \A q \in Procs : Grows(w, x, q)
  BY Growing DEF ServerMoves

(* Going on twice.                                                         *)
LEMMA GrowsTwice ==
  ASSUME NEW w, NEW y, NEW x, NEW q, Grows(w, y, q), Grows(y, x, q)
  PROVE  Grows(w, x, q)
  <1>1. Withdrawn(w.proc[q].asked, x.proc[q].asked)
    BY WithdrawnTwice DEF Grows
  <1>2. QED BY <1>1 DEF Grows

(* Processes that go on keep what is said of their requests.               *)
LEMMA GrowthKeeps ==
  ASSUME Sound(local), Sound(local'), SilenceInv, \A q \in Procs : Grows(local, local', q)
  PROVE  /\ SilenceInv' /\ (AnswersAreOwn => AnswersAreOwn')
         /\ \A p \in Procs : NoPending(local, p) => NoPending(local', p)
         /\ \A p \in Procs : local.proc[p].state = "none" => NoPending(local', p)
  <1>1. \A p \in Procs : /\ local.proc[p].state \in {"none", "booting", "up", "gone"}
                         /\ local'.proc[p].state \in {"none", "booting", "up", "gone"}
    BY DEF Sound, Supervisors, ProcRecord
  <1>2. \A p \in Procs : Withdrawn(local.proc[p].asked, local'.proc[p].asked)
    BY DEF Grows
  <1>3. SilenceInv'
    <2> SUFFICES ASSUME NEW p \in Procs, local'.proc[p].state \in {"none", "booting"}
                 PROVE  DOMAIN local'.proc[p].asked = {}
      BY DEF SilenceInv
    <2>1. local.proc[p].state \in {"none", "booting"}
      BY <1>1 DEF Grows
    <2>2. DOMAIN local.proc[p].asked = {}
      BY <2>1 DEF SilenceInv
    <2>3. QED BY <1>2, <2>2 DEF Withdrawn
  <1>4. AnswersAreOwn => AnswersAreOwn'
    BY <1>2 DEF AnswersAreOwn, Withdrawn
  <1>5. \A p \in Procs : NoPending(local, p) => NoPending(local', p)
    BY <1>2 DEF NoPending, Withdrawn
  <1>6. \A p \in Procs : local.proc[p].state = "none" => NoPending(local', p)
    BY <1>5 DEF SilenceInv, NoPending
  <1>7. QED BY <1>3, <1>4, <1>5, <1>6

(* A dialog of a local server stays its child's own while no other server  *)
(* comes to the window.                                                    *)
LEMMA LocalStaysOwn ==
  ASSUME ShellInv, Sound(local'), SilenceInv, \A q \in Procs : Grows(local, local', q),
         NEW d, LocalOwn(d),
         \A s \in Servers : \/ local'.server[s].child \in {0, local.server[s].child}
                            \/ local.proc[local'.server[s].child].state = "none",
         \A s \in Servers : d.of = Local(s) /\ router' = Local(s) =>
           router = Local(s) /\ local'.server[s].child = local.server[s].child
  PROVE  LocalOwn(d)'
  <1>1. /\ \A p \in Procs : NoPending(local, p) => NoPending(local', p)
        /\ \A p \in Procs : local.proc[p].state = "none" => NoPending(local', p)
    BY GrowthKeeps DEF ShellInv
  <1>2. \A s \in Servers : /\ local.server[s].child \in Procs \cup {0}
                           /\ local'.server[s].child \in Procs \cup {0}
    BY DEF ShellInv, Sound, Supervisors, ServerRecord
  <1>3. QED BY <1>1, <1>2 DEF LocalOwn

(* A dialog whose front is over keeps it so.                               *)
LEMMA FrontStaysOver ==
  ASSUME NEW d, FrontIsOver(d), CallsStay
  PROVE  FrontIsOver(d)'
  BY DEF FrontIsOver, CallsStay, ServerOf

(* The window is on what no call is to start.                              *)
LEMMA RouterFrontIsOver ==
  ASSUME ShellInv, NEW d, d.of = router
  PROVE  FrontIsOver(d)
  <1>1. ASSUME NEW o \in Calls, router = Local(ServerOf(o))
        PROVE  call[o].kind # "none" /\ call[o].at # "spawning"
    <2>1. ServerOf(o) \in Servers /\ o \notin Starters(ServerOf(o))
      BY <1>1, ServersOfCalls DEF ShellInv, RouterInv
    <2>2. local.server[ServerOf(o)] # NewServer
      BY <1>1, <2>1 DEF ShellInv, WindowInv, ServedBy, NewServer
    <2>3. QED BY <2>1, <2>2, ServersOfCalls DEF ShellInv, NewCallsInv
  <1>2. \A o \in Calls : router = Remote(o) => call[o].at = "over"
    BY DEF ShellInv, RouterInv, Handles
  <1>3. QED BY <1>1, <1>2 DEF FrontIsOver

(* A call that goes on, from no start and to none.                         *)
LEMMA CallsGoOn ==
  ASSUME SessionTypes, call' = call \/ \E o \in Calls, r \in CallRecord : CallGoesOn(o, r)
  PROVE  CallsStay
  <1>1. CASE call' = call
    BY <1>1 DEF CallsStay
  <1>2. ASSUME NEW o \in Calls, NEW r \in CallRecord, CallGoesOn(o, r) PROVE CallsStay
    BY <1>2 DEF SessionTypes, CallGoesOn, CallsStay
  <1>3. QED BY <1>1, <1>2

(* A step whose processes go on, which asks nothing new of the window.     *)
LEMMA AsksKept ==
  ASSUME ShellInv, Sound(local'), AsksInv, \A q \in Procs : Grows(local, local', q),
         DaemonInv', CallsStay, past \subseteq past',
         \A d \in dialogs' \ dialogs :
           local.proc[d.asker].state \in {"up", "gone"} /\ FrontIsOver(d) /\ d.asker \in Procs,
         "outlived" \notin past' => \A d \in dialogs' : LocalOwn(d)' /\ RemoteOwn(d)'
  PROVE  AsksInv'
  <1>1. SilenceInv' /\ (AnswersAreOwn => AnswersAreOwn')
    BY GrowthKeeps DEF ShellInv, AsksInv
  <1>2. DialogsInv'
    <2> SUFFICES ASSUME NEW d \in dialogs'
                 PROVE  local'.proc[d.asker].state \in {"up", "gone"} /\ FrontIsOver(d)'
      BY DEF DialogsInv
    <2>1. local.proc[d.asker].state \in {"up", "gone"} /\ FrontIsOver(d) /\ d.asker \in Procs
      BY DEF AsksInv, DialogsInv, ShellInv, SessionTypes
    <2>2. QED BY <2>1, FrontStaysOver DEF Grows
  <1>3. OwnInv'
    BY <1>1 DEF AsksInv, OwnInv
  <1>4. QED BY <1>1, <1>2, <1>3 DEF AsksInv

(* A step of the handles and the calls only.                               *)
LEMMA StillAsks ==
  ASSUME ShellInv, AsksInv, UNCHANGED <<local, router, daemon, dialogs, past>>, CallsStay,
         \A d \in dialogs, h \in Handles :
           d.of = Remote(h) /\ handle[h] = "closed" => handle'[h] = "closed"
  PROVE  AsksInv'
  <1>1. \A q \in Procs : Grows(local, local', q)
    BY Growing DEF Alike
  <1>2. DaemonInv' /\ Sound(local')
    BY DEF AsksInv, DaemonInv, ShellInv
  <1>3. ASSUME NEW d \in dialogs, LocalOwn(d), RemoteOwn(d) PROVE LocalOwn(d)' /\ RemoteOwn(d)'
    BY <1>3 DEF LocalOwn, RemoteOwn
  <1>4. QED BY <1>1, <1>2, <1>3, AsksKept DEF AsksInv, OwnInv

(* A step of one local server, while the window and the daemon stay.       *)
LEMMA ServerAsks ==
  ASSUME ShellInv, Sound(local'), AsksInv, NEW s \in Servers, ServerMoves(local, local', s),
         UNCHANGED <<router, handle, daemon, dialogs>>, CallsStay, past \subseteq past',
         "outlived" \notin past' => \A d \in dialogs :
           d.of = Local(s) /\ router = Local(s) /\ d.asker = local.server[s].child
             => local'.server[s].child = local.server[s].child
  PROVE  AsksInv'
  <1>1. \A q \in Procs : Grows(local, local', q)
    BY MovesGrow
  <1>2. DaemonInv'
    BY <1>1 DEF AsksInv, DaemonInv, Grows, ShellInv, SessionTypes
  <1>3. Alive(local, daemon) => Alive(local', daemon)
    <2> SUFFICES ASSUME Alive(local, daemon) PROVE Alive(local', daemon)
      OBVIOUS
    <2>1. daemon \in Procs /\ daemon # 0 /\ 0 \notin Servers /\ SoundServer(local, s)
      BY SupervisorAssumption DEF ShellInv, SessionTypes, Alive, Servers, Sound
    <2>2. local.proc[daemon].of = 0 /\ local.proc[daemon].state # "none"
      BY <2>1 DEF AsksInv, DaemonInv
    <2>3. daemon # local.server[s].child
      BY <2>1, <2>2 DEF SoundServer
    <2>4. Alike(local, local', daemon)
      BY <2>1, <2>2, <2>3 DEF ServerMoves, Fresh
    <2>5. QED BY <2>4 DEF Alive, Alike
  <1>4. \A t \in Servers : \/ local'.server[t].child \in {0, local.server[t].child}
                           \/ local.proc[local'.server[t].child].state = "none"
    BY DEF ServerMoves
  <1>5. ASSUME "outlived" \notin past', NEW d \in dialogs PROVE LocalOwn(d)' /\ RemoteOwn(d)'
    <2>1. LocalOwn(d) /\ RemoteOwn(d)
      BY <1>5 DEF AsksInv, OwnInv
    <2>2. \A t \in Servers : d.of = Local(t) /\ router' = Local(t) =>
            router = Local(t) /\ local'.server[t].child = local.server[t].child
      BY <1>5, <2>1 DEF LocalOwn, ServerMoves
    <2>3. LocalOwn(d)'
      BY <1>1, <1>4, <2>1, <2>2, LocalStaysOwn DEF AsksInv
    <2>4. QED BY <1>3, <2>1, <2>3 DEF RemoteOwn
  <1>6. QED BY <1>1, <1>2, <1>5, AsksKept

(* The daemon that is reached goes on, or is there for the first time.     *)
LEMMA ReachedGrows ==
  ASSUME ShellInv, AsksInv, NEW d \in Reachable
  PROVE  LET x == WithDaemon(d) IN
         /\ \A q \in Procs : Grows(local, x, q)
         /\ d \in Procs /\ x.proc[d].state # "none" /\ x.proc[d].of = 0
         /\ \/ d = daemon /\ x = local /\ Alive(local, daemon)
            \/ ~Alive(local, daemon)
  <1> DEFINE x == WithDaemon(d)
  <1>1. /\ d \in Procs /\ \A q \in Procs \ {d} : Alike(local, x, q)
        /\ \/ d = daemon /\ Alive(local, daemon) /\ x = local
           \/ /\ d # daemon /\ ~Alive(local, daemon) /\ local.proc[d].state = "none"
              /\ Alive(x, d) /\ x.proc[d].of = 0 /\ DOMAIN x.proc[d].asked = {}
           \/ d = daemon /\ local.proc[d].state = "none"
    BY Reaches
  <1> HIDE DEF x
  <1>2. d # 0
    BY <1>1, SupervisorAssumption DEF Procs
  <1>3. CASE d = daemon
    <2>1. Alive(local, daemon) /\ x = local /\ local.proc[d].of = 0 /\ local.proc[d].state # "none"
      BY <1>1, <1>2, <1>3 DEF AsksInv, DaemonInv
    <2>2. \A q \in Procs : Grows(local, x, q)
      BY <2>1, Growing DEF Alike
    <2>3. QED BY <1>1, <1>3, <2>1, <2>2 DEF x
  <1>4. CASE d # daemon
    <2>1. Fresh(local, x, d, 0) /\ ~Alive(local, daemon)
      BY <1>1, <1>4 DEF Fresh, Alive
    <2>2. \A q \in Procs : Grows(local, x, q)
      BY <1>1, <2>1, Growing
    <2>3. QED BY <1>1, <2>1, <2>2 DEF Fresh, x
  <1>5. QED BY <1>3, <1>4

(* A channel is resumed: the daemon that lives may ask again.              *)
LEMMA ResumeAsks ==
  ASSUME ShellInv, AsksInv, NEW h \in Handles, handle[h] \in {"lost", "retrying", "auth-required"},
         handle' = AttachedAs(handle, h), NEW d \in Reachable, local' = WithDaemon(d), daemon' = d,
         NEW again \in AskedAgain(h), dialogs' = dialogs \cup again, CallsStay,
         UNCHANGED <<router, past>>
  PROVE  AsksInv'
  <1>1. /\ \A q \in Procs : Grows(local, local', q)
        /\ d \in Procs /\ local'.proc[d].state # "none" /\ local'.proc[d].of = 0
        /\ \/ d = daemon /\ local' = local /\ Alive(local, daemon)
           \/ ~Alive(local, daemon)
    BY ReachedGrows
  <1>2. Sound(local') /\ local'.server = local.server
    BY Reaches
  <1>3. DaemonInv'
    BY <1>1 DEF DaemonInv
  <1>4. handle \in [Handles -> HandleStates] /\ router \in Routers
    BY DEF ShellInv, SessionTypes
  <1>5. \A g \in Handles : handle[g] = "closed" => handle'[g] = "closed"
    BY DEF AttachedAs
  <1>6. ASSUME NEW e \in again
        PROVE  /\ e.of = Remote(h) /\ router = Remote(h) /\ e.asker = daemon /\ e.asker \in Procs
               /\ Alive(local, daemon) /\ local.proc[e.asker].state \in {"up", "gone"}
               /\ FrontIsOver(e)
    <2>1. /\ e.of = Remote(h) /\ e.asker = daemon /\ e.asker \in Procs
          /\ router = Remote(h) /\ Alive(local, daemon)
          /\ e.n \in DOMAIN local.proc[daemon].asked
      BY AsksAgain
    <2>2. local.proc[daemon].state = "up"
      BY <2>1 DEF AsksInv, SilenceInv, Alive
    <2>3. QED BY <2>1, <2>2, RouterFrontIsOver
  <1>7. ASSUME "outlived" \notin past', NEW e \in dialogs PROVE LocalOwn(e)' /\ RemoteOwn(e)'
    <2>1. LocalOwn(e) /\ RemoteOwn(e)
      BY <1>7 DEF AsksInv, OwnInv
    <2>2. LocalOwn(e)'
      BY <1>1, <1>2, <2>1, LocalStaysOwn DEF AsksInv
    <2>3. RemoteOwn(e)'
      BY <1>1, <1>5, <2>1 DEF RemoteOwn
    <2>4. QED BY <2>2, <2>3
  <1>8. ASSUME NEW e \in again PROVE LocalOwn(e)' /\ RemoteOwn(e)'
    BY <1>1, <1>6, FrontsDiffer DEF LocalOwn, RemoteOwn
  <1>9. QED BY <1>1, <1>2, <1>3, <1>6, <1>7, <1>8, AsksKept

(* The window moves to a handle: it is no local server's any more, and a   *)
(* handle it leaves is closed.                                             *)
LEMMA MoveAsks ==
  ASSUME ShellInv, AsksInv, NEW o \in Calls, call[o].at # "over", NEW w, Sound(w),
         w.server = local.server, \A q \in Procs : Grows(local, w, q),
         NEW hs \in [Handles -> HandleStates],
         \A g \in Handles \ {o} : handle[g] = "closed" => hs[g] = "closed",
         daemon' # 0 => daemon' \in Procs /\ w.proc[daemon'].state # "none" /\ w.proc[daemon'].of = 0,
         MovesTo(w, hs, o), CallsStay, UNCHANGED <<dialogs, past>>
  PROVE  AsksInv'
  <1>0. o \in Handles /\ router \in Routers
    BY DEF ShellInv, SessionTypes, Handles
  <1>1. /\ router' = Remote(o)
        /\ \/ \E h \in Handles : router = Remote(h) /\ handle' = Closed(hs, h) /\ local' = w
           \/ \E t \in Servers : router = Local(t) /\ handle' = hs /\ local' = BeginsShutdown(w, t)
    BY <1>0, FrontsDiffer DEF MovesTo, Previous, Routers
  <1>2. /\ Sound(local') /\ \A q \in Procs : Alike(w, local', q)
        /\ \A t \in Servers : local'.server[t].child = local.server[t].child
    <2>1. CASE local' = w
      BY <2>1 DEF Alike
    <2>2. ASSUME NEW t \in Servers, local' = BeginsShutdown(w, t)
          PROVE  /\ Sound(local') /\ \A q \in Procs : Alike(w, local', q)
                 /\ \A u \in Servers : local'.server[u].child = local.server[u].child
      <3>1. /\ Sound(local') /\ ServerMoves(w, local', t) /\ \A q \in Procs : Alike(w, local', q)
            /\ local'.server[t].child = w.server[t].child
        BY <2>2, Shuts
      <3>2. QED BY <3>1 DEF ServerMoves
    <2>3. QED BY <1>1, <2>1, <2>2
  <1>3. \A q \in Procs : Grows(local, local', q)
    BY <1>2, Growing, GrowsTwice
  <1>4. DaemonInv'
    BY <1>2 DEF DaemonInv, Alike
  <1>5. ASSUME "outlived" \notin past', NEW d \in dialogs PROVE LocalOwn(d)' /\ RemoteOwn(d)'
    <2>1. LocalOwn(d) /\ RemoteOwn(d) /\ FrontIsOver(d)
      BY <1>5 DEF AsksInv, OwnInv, DialogsInv
    <2>2. LocalOwn(d)'
      BY <1>1, <1>2, <1>3, <2>1, <1>0, FrontsDiffer, LocalStaysOwn DEF AsksInv
    <2>3. ASSUME NEW g \in Handles, d.of = Remote(g) PROVE handle'[g] = "closed"
      <3>1. g # o
        BY <2>1, <2>3 DEF FrontIsOver
      <3>2. CASE router = Remote(g)
        BY <1>1, <3>2, FrontsDiffer DEF Closed
      <3>3. CASE handle[g] = "closed"
        BY <1>1, <3>1, <3>3 DEF Closed
      <3>4. QED BY <2>1, <2>3, <3>2, <3>3 DEF RemoteOwn
    <2>4. QED BY <2>2, <2>3 DEF RemoteOwn
  <1>6. QED BY <1>2, <1>3, <1>4, <1>5, AsksKept

(* The steps of "run session here" keep answers in their own hands.        *)
LEMMA StartCallAsks ==
  ASSUME ShellInv, AsksInv, NEW o \in Calls, AsksToStart(o) \/ StartCall(o)
  PROVE  AsksInv'
  <1>0. o \in Handles /\ handle \in [Handles -> HandleStates] /\ router \in Routers
        /\ daemon \in Procs \cup {0} /\ call \in [Calls -> CallRecord]
    BY DEF ShellInv, SessionTypes, Handles
  <1>1. \A d \in dialogs : call[o].at # "over" => d.of # Remote(o)
    BY DEF AsksInv, DialogsInv, FrontIsOver
  <1>2. CallsStay
    <2>1. CASE AsksToStart(o)
      <3>1. call[o].kind = "none" /\ call[o].at = "new"
        BY <2>1 DEF AsksToStart, FreeCall, ShellInv, NewCallsInv
      <3>2. QED BY <1>0, <2>1, <3>1 DEF AsksToStart, CallsStay
    <2>2. CASE StartCall(o)
      <3>1. call[o].kind = "start" /\ call[o].at \in {"shipping", "retrying", "attaching", "configuring"}
        BY <2>2 DEF StartCall, Shipped, CannotShip, RetryAttaches, RetryFails, Attaches,
           CannotAttach, Configures, CannotConfigure, At
      <3>2. \/ \E at \in {"attaching", "configuring", "over"} : call' = [call EXCEPT ![o].at = at]
            \/ \E h : call' = [call EXCEPT ![o].at = "retrying", ![o].retried = h]
        BY <2>2 DEF StartCall, Shipped, CannotShip, RetryAttaches, RetryFails, Attaches,
           CannotAttach, Configures, CannotConfigure, AttachesFresh, Over
      <3>3. \A b \in Calls \ {o} : call'[b] = call[b]
        BY <1>0, <3>2
      <3>4. call'[o].kind = call[o].kind /\ call'[o].at \in {"attaching", "configuring", "over", "retrying"}
        <4>1. call[o] \in CallFields
          BY <1>0 DEF CallRecord
        <4>2. QED BY <1>0, <3>2, <4>1 DEF CallFields
      <3>5. QED BY <3>1, <3>3, <3>4 DEF CallsStay
    <2>3. QED BY <2>1, <2>2
  <1>3. ASSUME UNCHANGED <<local, router, daemon, dialogs, past>>,
               \A h \in Handles \ {o} : handle[h] = "closed" => handle'[h] = "closed",
               handle' = handle \/ call[o].at # "over"
        PROVE  AsksInv'
    BY <1>1, <1>2, <1>3, StillAsks
  <1>4. CASE AsksToStart(o)
    BY <1>3, <1>4 DEF AsksToStart
  <1>5. CASE CannotShip(o)
    BY <1>3, <1>5 DEF CannotShip
  <1>6. CASE Shipped(o)
    <2>1. CASE AttachesFresh(o)
      BY <1>0, <1>3, <1>6, <2>1 DEF Shipped, AttachesFresh, At
    <2>2. CASE router.kind = "local"
      BY <1>6, <2>1, <2>2 DEF Shipped
    <2>3. CASE router.kind # "local" /\ ~AttachesFresh(o)
      <3>1. PICK h \in Handles : router.id = h
        BY <1>0, <2>3, FrontsDiffer DEF Routers
      <3>2. UNCHANGED handle \/ (handle[h] # "closed" /\ handle' = [handle EXCEPT ![h] = "retrying"])
        BY <1>6, <2>3, <3>1 DEF Shipped
      <3>3. call[o].at # "over" /\ UNCHANGED <<local, router, daemon, dialogs, past>>
        BY <1>6 DEF Shipped, At
      <3>4. QED BY <1>0, <1>3, <3>2, <3>3
    <2>4. QED BY <2>1, <2>2, <2>3
  <1>7. CASE RetryAttaches(o)
    <2>1. call[o].retried \in Handles
      BY <1>0, <1>7 DEF RetryAttaches, At, CallRecord
    <2>2. QED BY <1>2, <1>7, <2>1, ResumeAsks DEF RetryAttaches
  <1>8. CASE RetryFails(o)
    <2>1. \A h \in Handles \ {o} : handle[h] = "closed" => handle'[h] = "closed"
      BY <1>0, <1>8 DEF RetryFails
    <2>2. QED BY <1>3, <1>8, <2>1 DEF RetryFails, At
  <1>9. CASE Attaches(o)
    <2> DEFINE hs == AttachedAs(handle, o)
    <2>1. PICK d \in Reachable :
            /\ daemon' = d /\ At(o, "start", "attaching") /\ UNCHANGED <<dialogs, past>>
            /\ \/ MovesTo(WithDaemon(d), hs, o)
               \/ handle' = hs /\ local' = WithDaemon(d) /\ UNCHANGED router
      BY <1>9 DEF Attaches
    <2>2. /\ hs \in [Handles -> HandleStates]
          /\ \A g \in Handles \ {o} : handle[g] = "closed" => hs[g] = "closed"
      BY <1>0, HandlesMove DEF AttachedAs
    <2> HIDE DEF hs
    <2>3. call[o].at # "over"
      BY <2>1 DEF At
    <2>4. /\ Sound(WithDaemon(d)) /\ WithDaemon(d).server = local.server
          /\ \A q \in Procs : Grows(local, WithDaemon(d), q)
          /\ d \in Procs /\ WithDaemon(d).proc[d].state # "none" /\ WithDaemon(d).proc[d].of = 0
          /\ \/ d = daemon /\ WithDaemon(d) = local /\ Alive(local, daemon)
             \/ ~Alive(local, daemon)
      BY Reaches, ReachedGrows
    <2>5. CASE MovesTo(WithDaemon(d), hs, o)
      BY <1>2, <2>1, <2>2, <2>3, <2>4, <2>5, MoveAsks
    <2>6. CASE handle' = hs /\ local' = WithDaemon(d) /\ UNCHANGED router
      <3>1. DaemonInv' /\ Sound(local') /\ \A q \in Procs : Grows(local, local', q)
        BY <2>1, <2>4, <2>6 DEF DaemonInv
      <3>2. ASSUME "outlived" \notin past', NEW e \in dialogs PROVE LocalOwn(e)' /\ RemoteOwn(e)'
        <4>1. LocalOwn(e) /\ RemoteOwn(e) /\ e.of # Remote(o)
          BY <1>1, <2>1, <2>3, <3>2 DEF AsksInv, OwnInv
        <4>2. LocalOwn(e)'
          BY <2>4, <2>6, <3>1, <4>1, LocalStaysOwn DEF AsksInv
        <4>3. RemoteOwn(e)'
          BY <2>1, <2>2, <2>4, <2>6, <4>1 DEF RemoteOwn
        <4>4. QED BY <4>2, <4>3
      <3>3. QED BY <1>2, <2>1, <3>1, <3>2, AsksKept
    <2>7. QED BY <2>1, <2>5, <2>6
  <1>10. CASE CannotAttach(o)
    <2>1. \A h \in Handles \ {o} : handle[h] = "closed" => handle'[h] = "closed"
      BY <1>0, <1>10 DEF CannotAttach
    <2>2. QED BY <1>3, <1>10, <2>1 DEF CannotAttach, At
  <1>11. CASE Configures(o)
    <2>1. /\ MovesTo(local, handle, o) /\ call[o].at # "over" /\ UNCHANGED <<daemon, dialogs, past>>
      BY <1>11 DEF Configures, At
    <2>2. Sound(local) /\ \A q \in Procs : Grows(local, local, q)
      BY Growing DEF ShellInv, Alike
    <2>3. daemon' # 0 => daemon' \in Procs /\ local.proc[daemon'].state # "none" /\ local.proc[daemon'].of = 0
      BY <1>0, <2>1 DEF AsksInv, DaemonInv
    <2>4. QED BY <1>0, <1>2, <2>1, <2>2, <2>3, MoveAsks
  <1>12. CASE CannotConfigure(o)
    <2>1. \A h \in Handles \ {o} : handle[h] = "closed" => handle'[h] = "closed"
      BY <1>0, <1>12 DEF CannotConfigure, Closed
    <2>2. QED BY <1>3, <1>12, <2>1 DEF CannotConfigure, At
  <1>13. QED
    BY <1>4, <1>5, <1>6, <1>7, <1>8, <1>9, <1>10, <1>11, <1>12 DEF StartCall

(* The window comes back to a server no dialog was opened for yet.         *)
LEMMA ComesBackAsks ==
  ASSUME ShellInv, AsksInv, Sound(local'), NEW s \in Servers, local.server[s].awaiting,
         Alive(local, local.server[s].child), NEW o \in Starters(s),
         ComesBackTo(Serves(local, s), s, o), UNCHANGED <<daemon, dialogs>>
  PROVE  AsksInv'
  <1> DEFINE w == Serves(local, s)
  <1>1. /\ Sound(w) /\ ServerMoves(local, w, s) /\ w.server[s].child = local.server[s].child
    BY Serving DEF ShellInv
  <1>2. /\ \A q \in Procs : Grows(local, w, q)
        /\ \A t \in Servers : w.server[t].child = local.server[t].child
    BY <1>1, MovesGrow DEF ServerMoves
  <1>3. /\ o \in Calls /\ call[o].at = "spawning" /\ s = ServerOf(o) /\ call \in [Calls -> CallRecord]
        /\ router \in Routers /\ daemon \in Procs \cup {0}
    BY DEF Starters, ShellInv, SessionTypes
  <1> HIDE DEF w
  <1>4. /\ router' = Local(s) /\ past \subseteq past'
        /\ \E at \in {"leaving", "over"} : call' = [call EXCEPT ![o].at = at]
        /\ \/ \E h \in Handles : router = Remote(h) /\ handle' = Closed(handle, h)
           \/ \E t \in Servers : router = Local(t) /\ handle' = handle
        /\ local' = w \/ (daemon \in Procs /\ local' = Told(w, daemon))
           \/ \E t \in Servers : local' = BeginsShutdown(w, t)
    <2>1. CASE \E h \in Handles : router = Remote(h)
      BY <1>3, <2>1, FrontsDiffer DEF ComesBackTo, Previous, Over, TellsDaemon, Alive, w
    <2>2. CASE \E t \in Servers : router = Local(t)
      BY <1>3, <2>2, FrontsDiffer DEF ComesBackTo, Previous, Over, w
    <2>3. QED BY <1>3, <2>1, <2>2 DEF Routers
  <1>5. /\ \A q \in Procs : Alike(w, local', q)
        /\ \A t \in Servers : local'.server[t].child = local.server[t].child
    <2>1. CASE local' = w
      BY <1>2, <2>1 DEF Alike
    <2>2. CASE daemon \in Procs /\ local' = Told(w, daemon)
      BY <1>1, <1>2, <2>2, Telling
    <2>3. ASSUME NEW t \in Servers, local' = BeginsShutdown(w, t)
          PROVE  /\ \A q \in Procs : Alike(w, local', q)
                 /\ \A u \in Servers : local'.server[u].child = local.server[u].child
      <3>1. /\ ServerMoves(w, local', t) /\ \A q \in Procs : Alike(w, local', q)
            /\ local'.server[t].child = w.server[t].child
        BY <1>1, <2>3, Shuts
      <3>2. QED BY <1>2, <3>1 DEF ServerMoves
    <2>4. QED BY <1>4, <2>1, <2>2, <2>3
  <1>6. \A q \in Procs : Grows(local, local', q)
    BY <1>2, <1>5, Growing, GrowsTwice
  <1>7. CallsStay
    <2>1. \A b \in Calls \ {o} : call'[b] = call[b]
      BY <1>3, <1>4
    <2>2. QED BY <1>3, <2>1 DEF CallsStay
  <1>8. DaemonInv'
    BY <1>3, <1>6 DEF AsksInv, DaemonInv, Grows
  <1>9. ASSUME "outlived" \notin past', NEW d \in dialogs PROVE LocalOwn(d)' /\ RemoteOwn(d)'
    <2>1. LocalOwn(d) /\ RemoteOwn(d) /\ d.of # Local(s)
      BY <1>3, <1>4, <1>9 DEF AsksInv, OwnInv, DialogsInv, FrontIsOver
    <2>2. \A t \in Servers : d.of = Local(t) => router' # Local(t)
      BY <1>4, <2>1
    <2>3. LocalOwn(d)'
      BY <1>5, <1>6, <2>1, <2>2, LocalStaysOwn DEF AsksInv
    <2>4. ASSUME NEW g \in Handles, d.of = Remote(g) PROVE handle'[g] = "closed"
      <3>1. handle[g] = "closed" \/ router = Remote(g)
        BY <2>1, <2>4 DEF RemoteOwn
      <3>2. handle \in [Handles -> HandleStates]
        BY DEF ShellInv, SessionTypes
      <3>3. QED BY <1>4, <3>1, <3>2, FrontsDiffer DEF Closed
    <2>5. QED BY <2>3, <2>4 DEF RemoteOwn
  <1>10. QED BY <1>4, <1>6, <1>7, <1>8, <1>9, AsksKept

(* A call whose server does not start was not over, and is.                *)
LEMMA BecomesCalls ==
  ASSUME ShellInv, NEW s, NEW w, Becomes(w, s)
  PROVE  CallsStay
  <1>1. \A o \in Calls : call[o] \in CallFields
    BY DEF ShellInv, SessionTypes, CallRecord
  <1>2. \A o \in Calls : call'[o] = call[o]
                         \/ (call[o].at = "spawning" /\ call'[o] = [call[o] EXCEPT !.at = "over"])
    BY DEF Becomes, Starters
  <1>3. QED BY <1>1, <1>2 DEF CallsStay, CallFields

(* The steps of the local servers keep answers in their own hands.         *)
LEMMA ServerStepAsks ==
  ASSUME ShellInv, AsksInv, NEW s \in Servers, ServerStep(s)
  PROVE  AsksInv'
  <1>1. Sound(local') /\ (SaysHello(s) \/ ServerMoves(local, local', s))
    BY ServerStepKept DEF ShellInv
  <1>2. \A d \in dialogs : d.asker \in Procs /\ local.proc[d.asker].state \in {"up", "gone"}
    BY DEF ShellInv, SessionTypes, AsksInv, DialogsInv
  <1>3. SoundServer(local, s) /\ Sound(local)
    BY DEF ShellInv, Sound
  <1>4. CASE SaysHello(s)
    <2>1. CASE local' = Serves(local, s) /\ UNCHANGED <<router, handle, call, past>>
      <3>1. ServerMoves(local, local', s) /\ local'.server[s].child = local.server[s].child
        BY <1>3, <1>4, <2>1, Serving DEF SaysHello
      <3>2. CallsStay /\ UNCHANGED <<router, handle, daemon, dialogs, past>>
        BY <1>4, <2>1 DEF CallsStay, SaysHello
      <3>3. QED BY <1>1, <3>1, <3>2, ServerAsks
    <2>2. CASE \E o \in Starters(s) : ComesBackTo(Serves(local, s), s, o)
      BY <1>1, <1>4, <2>2, ComesBackAsks DEF SaysHello
    <2>3. QED BY <1>4, <2>1, <2>2 DEF SaysHello
  <1>5. CASE HelloFails(s) /\ ServerMoves(local, local', s)
    <2>1. /\ local.server[s].awaiting /\ Alive(local, local.server[s].child)
          /\ UNCHANGED <<router, handle, daemon, dialogs, past>>
      BY <1>5 DEF HelloFails
    <2>2. \E w : Becomes(w, s)
      BY <1>5 DEF HelloFails
    <2>3. local.proc[local.server[s].child].state = "booting"
      BY <1>3, <2>1 DEF SoundServer, Alive
    <2>4. CallsStay
      BY <2>2, BecomesCalls
    <2>5. \A d \in dialogs : d.asker # local.server[s].child
      BY <1>2, <2>3
    <2>6. QED BY <1>1, <1>5, <2>1, <2>4, <2>5, ServerAsks
  <1>6. CASE ChildExits(s) /\ ServerMoves(local, local', s)
    <2>1. /\ past' = past \cup Outlived(local.server[s].child)
          /\ UNCHANGED <<router, handle, daemon, dialogs>>
      BY <1>6 DEF ChildExits
    <2>2. \E w : Becomes(w, s)
      BY <1>6 DEF ChildExits
    <2>3. CallsStay
      BY <2>2, BecomesCalls
    <2>4. "outlived" \notin past' => \A d \in dialogs :
            ~(d.asker = local.server[s].child /\ d.of = router)
      BY <2>1 DEF Outlived
    <2>5. QED BY <1>1, <1>6, <2>1, <2>3, <2>4, ServerAsks
  <1>7. CASE ShutdownEnds(s) /\ ServerMoves(local, local', s)
    <2>1. /\ local.server[s].ending # 0 /\ Becomes(EndsShutdown(local, s), s)
          /\ UNCHANGED <<router, handle, daemon, dialogs, past>>
      BY <1>7 DEF ShutdownEnds
    <2>2. CallsStay
      BY <2>1, BecomesCalls
    <2>3. router # Local(s)
      BY <2>1 DEF ShellInv, RouterInv
    <2>4. QED BY <1>1, <1>7, <2>1, <2>2, <2>3, ServerAsks
  <1>8. CASE Restart(s) /\ ServerMoves(local, local', s)
    <2>1. /\ local.server[s].dialog = "crashed" /\ past \subseteq past'
          /\ UNCHANGED <<router, handle, daemon, dialogs, call>>
      BY <1>8 DEF Restart
    <2>2. local.server[s].child = 0 /\ 0 \notin Procs
      BY <1>3, <2>1, SupervisorAssumption DEF SoundServer, Procs
    <2>3. CallsStay
      BY <2>1 DEF CallsStay
    <2>4. \A d \in dialogs : d.asker # local.server[s].child
      BY <1>2, <2>2
    <2>5. QED BY <1>1, <1>8, <2>1, <2>3, <2>4, ServerAsks
  <1>9. QED BY <1>1, <1>4, <1>5, <1>6, <1>7, <1>8 DEF ServerStep

(* A call that starts a server: no dialog is of that server yet.           *)
LEMMA SpawnAsks ==
  ASSUME ShellInv, AsksInv, NEW o \in Calls, call[o].kind = "none",
         NEW kind \in {"disconnect", "end"}, SpawnsFor(o, kind),
         UNCHANGED <<router, handle, daemon, dialogs, past>>
  PROVE  AsksInv'
  <1>1. Sound(local') /\ ServerMoves(local, local', ServerOf(o)) /\ ServerOf(o) \in Servers
    BY SpawnKept, ServersOfCalls DEF ShellInv
  <1>2. call[o].at = "new" /\ call \in [Calls -> CallRecord]
    BY DEF ShellInv, NewCallsInv, SessionTypes
  <1>3. CallsStay
    BY <1>2 DEF SpawnsFor, CallsStay
  <1>4. \A d \in dialogs : d.of # Local(ServerOf(o))
    BY DEF AsksInv, DialogsInv, FrontIsOver
  <1>5. QED BY <1>1, <1>3, <1>4, ServerAsks

(* The daemon ends: what it asked outlives it, or was for a closed handle. *)
LEMMA DaemonEndAsks ==
  ASSUME ShellInv, AsksInv, DaemonEnds
  PROVE  AsksInv'
  <1>1. /\ past' = past \cup Outlived(daemon) /\ local' = Gone(local, daemon)
        /\ handle' = Lost(handle) /\ UNCHANGED <<router, daemon, call, dialogs>>
    BY DEF DaemonEnds
  <1>2. handle \in [Handles -> HandleStates] /\ daemon \in Procs \cup {0} /\ Sound(local)
    BY DEF ShellInv, SessionTypes
  <1>3. /\ Sound(local') /\ local'.server = local.server
        /\ \A q \in Procs : local'.proc[q] = local.proc[q] \/ Turns(local, local', q)
    BY <1>1, <1>2, ProcGoes
  <1>4. \A q \in Procs : Grows(local, local', q)
    BY <1>3, Growing DEF Alike
  <1>5. CallsStay
    BY <1>1 DEF CallsStay
  <1>6. DaemonInv'
    BY <1>1, <1>2, <1>4 DEF AsksInv, DaemonInv, Grows
  <1>7. ASSUME "outlived" \notin past', NEW d \in dialogs PROVE LocalOwn(d)' /\ RemoteOwn(d)'
    <2>1. LocalOwn(d) /\ RemoteOwn(d) /\ ~(d.asker = daemon /\ d.of = router)
      BY <1>1, <1>7 DEF AsksInv, OwnInv, Outlived
    <2>2. LocalOwn(d)'
      BY <1>1, <1>3, <1>4, <2>1, LocalStaysOwn DEF AsksInv
    <2>3. \A h \in Handles : d.of = Remote(h) => handle'[h] = "closed"
      BY <1>1, <1>2, <2>1 DEF RemoteOwn, Lost
    <2>4. QED BY <2>2, <2>3 DEF RemoteOwn
  <1>8. QED BY <1>1, <1>3, <1>4, <1>5, <1>6, <1>7, AsksKept

(* A process is fronted by one server, or is the daemon.                   *)
LEMMA FrontedOnce ==
  ASSUME ShellInv, DaemonInv, NEW p \in Procs, NEW s \in Servers, local.server[s].child = p
  PROVE  p # daemon /\ Local(s) \in Fronts(p) /\ \A t \in Servers : local.server[t].child = p => t = s
  <1>1. 0 \notin Servers /\ 0 \notin Procs
    BY SupervisorAssumption DEF Servers, Procs
  <1>2. \A t \in Servers : local.server[t].child = p => local.proc[p].of = t
    BY <1>1 DEF ShellInv, Sound, SoundServer
  <1>3. p # daemon
    BY <1>1, <1>2 DEF DaemonInv
  <1>4. QED BY <1>2, <1>3 DEF Fronts

(* A confirm is asked: of the window if it is on what asks, or of nobody.  *)
LEMMA ConfirmStaysOwn ==
  ASSUME ShellInv, AsksInv, NEW p \in Procs, Confirms(p)
  PROVE  AsksInv'
  <1> DEFINE shown == router \in Fronts(p)
             state == IF shown \/ Fronts(p) = {} THEN "pending" ELSE "cancelled"
             asked == Append(local.proc[p].asked, [state |-> state, by |-> 0])
             new == [of |-> router, asker |-> p, n |-> Len(local.proc[p].asked) + 1]
  <1>1. /\ asked \in Seq(AskRecord) /\ local.proc[p].asked \in Seq(AskRecord) /\ AskedOf(p, asked)
        /\ dialogs' = dialogs \cup (IF shown THEN {new} ELSE {})
        /\ local.proc[p].state = "up"
    BY ConfirmAsks
  <1>2. UNCHANGED <<router, handle, daemon, call, past>>
    BY DEF Confirms
  <1>3. new.of = router /\ new.asker = p
    OBVIOUS
  <1>4. \A n \in DOMAIN asked : \/ n \in DOMAIN local.proc[p].asked /\ asked[n] = local.proc[p].asked[n]
                                \/ asked[n].state = state
    BY <1>1
  <1>5. state \in {"pending", "cancelled"} /\ (~shown /\ Fronts(p) # {} => state = "cancelled")
    OBVIOUS
  <1> HIDE DEF asked, new, state
  <1>6. /\ Sound(local') /\ local'.server = local.server
        /\ local'.proc[p].state = local.proc[p].state /\ local'.proc[p].of = local.proc[p].of
        /\ local'.proc[p].asked = asked
        /\ \A q \in Procs \ {p} : local'.proc[q] = local.proc[q]
    BY <1>1, AsksChange DEF AskedOf, ShellInv
  <1>7. \A q \in Procs : /\ local'.proc[q].state = local.proc[q].state
                         /\ local'.proc[q].of = local.proc[q].of
    BY <1>6
  <1>8. daemon \in Procs \cup {0} /\ router \in Routers /\ 0 \notin Procs
    BY SupervisorAssumption DEF ShellInv, SessionTypes, Procs
  <1>9. DaemonInv'
    BY <1>2, <1>7, <1>8 DEF AsksInv, DaemonInv
  <1>10. SilenceInv'
    BY <1>1, <1>6 DEF AsksInv, SilenceInv
  <1>11. \A d \in dialogs' : d \in dialogs \/ (d = new /\ shown)
    BY <1>1
  <1>12. DialogsInv'
    <2> SUFFICES ASSUME NEW d \in dialogs'
                 PROVE  local'.proc[d.asker].state \in {"up", "gone"} /\ FrontIsOver(d)'
      BY DEF DialogsInv
    <2>1. local.proc[d.asker].state \in {"up", "gone"} /\ FrontIsOver(d) /\ d.asker \in Procs
      BY <1>1, <1>3, <1>11, RouterFrontIsOver DEF AsksInv, DialogsInv, ShellInv, SessionTypes
    <2>2. CallsStay
      BY <1>2 DEF CallsStay
    <2>3. QED BY <1>7, <2>1, <2>2, FrontStaysOver
  <1>13. AnswersAreOwn => AnswersAreOwn'
    BY <1>4, <1>5, <1>6 DEF AnswersAreOwn
  <1>14. \A q \in Procs \ {p} : NoPending(local, q) => NoPending(local', q)
    BY <1>6 DEF NoPending
  <1>15. state = "cancelled" /\ NoPending(local, p) => NoPending(local', p)
    BY <1>4, <1>6 DEF NoPending
  <1>16. Alive(local', daemon) <=> Alive(local, daemon)
    BY <1>7, <1>8 DEF Alive
  <1>17. ASSUME NEW d \in dialogs, LocalOwn(d), RemoteOwn(d) PROVE LocalOwn(d)' /\ RemoteOwn(d)'
    <2>1. ASSUME NEW s \in Servers, d.of = Local(s), router # Local(s)
          PROVE  local.server[s].child \in {0, d.asker} \/ NoPending(local', local.server[s].child)
      <3>1. CASE local.server[s].child # p
        BY <1>14, <1>17, <2>1, <3>1 DEF LocalOwn, ShellInv, Sound, Supervisors, ServerRecord
      <3>2. CASE local.server[s].child = p
        <4>1. /\ p # daemon /\ Local(s) \in Fronts(p)
              /\ \A t \in Servers : local.server[t].child = p => t = s
          BY <3>2, FrontedOnce DEF AsksInv
        <4>2. ~shown
          BY <2>1, <4>1 DEF Fronts
        <4>3. QED BY <1>5, <1>15, <1>17, <2>1, <3>2, <4>1, <4>2 DEF LocalOwn
      <3>3. QED BY <3>1, <3>2
    <2>2. LocalOwn(d)'
      BY <1>2, <1>6, <1>17, <2>1 DEF LocalOwn
    <2>3. QED BY <1>2, <1>16, <1>17, <2>2 DEF RemoteOwn
  <1>18. ASSUME NEW d, d = new, shown PROVE LocalOwn(d)' /\ RemoteOwn(d)'
    <2>1. ASSUME NEW s \in Servers, router = Local(s) PROVE local.server[s].child = p
      BY <1>18, <2>1, FrontsDiffer DEF Fronts
    <2>2. ASSUME NEW h \in Handles, router = Remote(h) PROVE p = daemon
      BY <1>18, <2>2, FrontsDiffer DEF Fronts
    <2>3. LocalOwn(d)'
      BY <1>2, <1>3, <1>6, <1>18, <2>1 DEF LocalOwn
    <2>4. p = daemon => Alive(local', daemon)
      BY <1>1, <1>7, <1>8 DEF Alive
    <2>5. RemoteOwn(d)'
      BY <1>2, <1>3, <1>18, <2>2, <2>4 DEF RemoteOwn
    <2>6. QED BY <2>3, <2>5
  <1>19. OwnInv'
    BY <1>2, <1>11, <1>13, <1>17, <1>18 DEF AsksInv, OwnInv
  <1>20. QED BY <1>9, <1>10, <1>12, <1>19 DEF AsksInv

(* An answer settles a request of the process that asked it, or none.      *)
LEMMA AnswerStaysOwn ==
  ASSUME ShellInv, AsksInv, NEW e \in dialogs, Answers(e)
  PROVE  AsksInv'
  <1>1. dialogs' = dialogs \ {e} /\ UNCHANGED <<router, handle, daemon, call, past>>
    BY DEF Answers
  <1>2. CallsStay
    BY <1>1 DEF CallsStay
  <1>3. CASE local' = local
    <2>1. Sound(local') /\ DaemonInv' /\ \A q \in Procs : Grows(local, local', q)
      BY <1>1, <1>3, Growing DEF Alike, ShellInv, AsksInv, DaemonInv
    <2>2. ASSUME "outlived" \notin past', NEW d \in dialogs' PROVE LocalOwn(d)' /\ RemoteOwn(d)'
      <3>1. LocalOwn(d) /\ RemoteOwn(d)
        BY <1>1, <2>2 DEF AsksInv, OwnInv
      <3>2. QED BY <1>1, <1>3, <3>1 DEF LocalOwn, RemoteOwn
    <2>3. QED BY <1>1, <1>2, <2>1, <2>2, AsksKept
  <1>4. CASE local' # local
    <2> DEFINE p == ReachedBy(e.of)
               asked == [local.proc[p].asked EXCEPT ![e.n] = [state |-> "settled", by |-> e.asker]]
    <2>1. /\ p \in Procs /\ Alive(local, p) /\ e.n \in DOMAIN local.proc[p].asked
          /\ local.proc[p].asked[e.n].state = "pending"
          /\ local.proc[p].asked \in Seq(AskRecord) /\ asked \in Seq(AskRecord)
          /\ AskedOf(p, asked)
      BY <1>4, AnswerSettles
    <2>2. /\ DOMAIN asked = DOMAIN local.proc[p].asked
          /\ asked[e.n].state = "settled" /\ asked[e.n].by = e.asker
          /\ \A n \in DOMAIN asked \ {e.n} : asked[n] = local.proc[p].asked[n]
      BY <2>1
    <2>3. \/ \E s \in Servers : e.of = Local(s) /\ p = local.server[s].child
          \/ \E h \in Handles : e.of = Remote(h) /\ p = daemon /\ handle[h] = "connected"
      <3>1. e.of \in Routers /\ p # 0
        BY <2>1 DEF ShellInv, SessionTypes, Alive
      <3>2. QED BY <3>1, FrontsDiffer DEF Routers, ReachedBy
    <2> HIDE DEF p, asked
    <2>4. /\ Sound(local') /\ local'.server = local.server
          /\ local'.proc[p].state = local.proc[p].state /\ local'.proc[p].of = local.proc[p].of
          /\ local'.proc[p].asked = asked
          /\ \A q \in Procs \ {p} : local'.proc[q] = local.proc[q]
      BY <2>1, AsksChange DEF AskedOf, ShellInv
    <2>5. \A q \in Procs : /\ local'.proc[q].state = local.proc[q].state
                           /\ local'.proc[q].of = local.proc[q].of
                           /\ DOMAIN local'.proc[q].asked = DOMAIN local.proc[q].asked
      BY <2>2, <2>4
    <2>6. daemon \in Procs \cup {0}
      BY DEF ShellInv, SessionTypes
    <2>7. DaemonInv' /\ SilenceInv'
      BY <1>1, <2>5, <2>6 DEF AsksInv, DaemonInv, SilenceInv
    <2>8. DialogsInv'
      <3> SUFFICES ASSUME NEW d \in dialogs'
                   PROVE  local'.proc[d.asker].state \in {"up", "gone"} /\ FrontIsOver(d)'
        BY DEF DialogsInv
      <3>1. local.proc[d.asker].state \in {"up", "gone"} /\ FrontIsOver(d) /\ d.asker \in Procs
        BY <1>1 DEF AsksInv, DialogsInv, ShellInv, SessionTypes
      <3>2. QED BY <1>2, <2>5, <3>1, FrontStaysOver
    <2>9. \A q \in Procs : NoPending(local, q) => NoPending(local', q)
      BY <2>2, <2>4 DEF NoPending
    <2>10. Alive(local', daemon) <=> Alive(local, daemon)
      BY <2>5, <2>6 DEF Alive
    <2>11. ASSUME NEW d, LocalOwn(d), RemoteOwn(d) PROVE LocalOwn(d)' /\ RemoteOwn(d)'
      <3>1. \A s \in Servers : local.server[s].child \in Procs \cup {0}
        BY DEF ShellInv, Sound, Supervisors, ServerRecord
      <3>2. LocalOwn(d)'
        BY <1>1, <2>4, <2>9, <2>11, <3>1 DEF LocalOwn
      <3>3. QED BY <1>1, <2>10, <2>11, <3>2 DEF RemoteOwn
    <2>12. LocalOwn(e) /\ RemoteOwn(e) => e.asker = p
      <3>1. ~NoPending(local, p) /\ p # 0
        BY <2>1 DEF NoPending, Alive
      <3>2. QED BY <2>3, <3>1 DEF LocalOwn, RemoteOwn
    <2>13. AnswersAreOwn /\ e.asker = p => AnswersAreOwn'
      BY <2>2, <2>4 DEF AnswersAreOwn
    <2>14. OwnInv'
      BY <1>1, <2>11, <2>12, <2>13 DEF AsksInv, OwnInv
    <2>15. QED BY <2>7, <2>8, <2>14 DEF AsksInv
  <1>5. QED BY <1>3, <1>4

(* The steps that move no server and not the window.                       *)
LEMMA CalmStepsAsk ==
  ASSUME ShellInv, AsksInv, CalmStep
  PROVE  AsksInv'
  <1>1. handle \in [Handles -> HandleStates] /\ call \in [Calls -> CallRecord]
    BY DEF ShellInv, SessionTypes
  <1>2. ASSUME UNCHANGED call PROVE CallsStay
    BY <1>2 DEF CallsStay
  <1>3. ASSUME NEW o \in Calls, Disconnected(o) PROVE AsksInv'
    <2>1. /\ call' = [call EXCEPT ![o].at = "over"] /\ call[o].kind = "disconnect"
          /\ UNCHANGED <<local, router, handle, daemon, dialogs, past>>
      BY <1>3 DEF Disconnected, Over, At
    <2>2. \A b \in Calls \ {o} : call'[b] = call[b]
      BY <1>1, <2>1
    <2>3. call'[o].kind = "disconnect" /\ call'[o].at = "over"
      <3>1. call[o] \in CallFields
        BY <1>1 DEF CallRecord
      <3>2. QED BY <1>1, <2>1, <3>1 DEF CallFields
    <2>4. CallsStay
      BY <2>2, <2>3 DEF CallsStay
    <2>5. QED BY <2>1, <2>4, StillAsks
  <1>4. CASE ChannelDrops
    <2>1. handle' = Lost(handle) /\ UNCHANGED <<local, router, daemon, call, dialogs, past>>
      BY <1>4 DEF ChannelDrops
    <2>2. \A h \in Handles : handle[h] = "closed" => handle'[h] = "closed"
      BY <2>1 DEF Lost
    <2>3. QED BY <1>2, <2>1, <2>2, StillAsks
  <1>5. CASE DaemonEnds
    BY <1>5, DaemonEndAsks
  <1>6. ASSUME NEW h \in Handles, Reattaches(h) PROVE AsksInv'
    BY <1>2, <1>6, ResumeAsks DEF Reattaches
  <1>7. ASSUME NEW h \in Handles, GivesUp(h) PROVE AsksInv'
    <2>1. /\ handle[h] = "lost" /\ handle' = [handle EXCEPT ![h] = "auth-required"]
          /\ UNCHANGED <<local, router, daemon, call, dialogs, past>>
      BY <1>7 DEF GivesUp
    <2>2. \A g \in Handles : handle[g] = "closed" => handle'[g] = "closed"
      BY <1>1, <2>1
    <2>3. QED BY <1>2, <2>1, <2>2, StillAsks
  <1>8. ASSUME NEW p \in Procs, Confirms(p) PROVE AsksInv'
    BY <1>8, ConfirmStaysOwn
  <1>9. ASSUME NEW d \in dialogs, Answers(d) PROVE AsksInv'
    BY <1>9, AnswerStaysOwn
  <1>10. CASE UNCHANGED <<local, router, handle, daemon, call, dialogs, past>>
    BY <1>2, <1>10, StillAsks
  <1>11. QED BY <1>3, <1>4, <1>5, <1>6, <1>7, <1>8, <1>9, <1>10 DEF CalmStep

(* Every step keeps answers in their own hands.                            *)
LEMMA AsksStay ==
  ASSUME ShellInv, AsksInv, [Next]_vars
  PROVE  AsksInv'
  <1>1. CASE \E o \in Calls : AsksToStart(o) \/ StartCall(o)
    BY <1>1, StartCallAsks
  <1>2. ASSUME NEW o \in Calls, AsksToDisconnect(o) PROVE AsksInv'
    <2>1. call[o].kind = "none" /\ UNCHANGED <<router, handle, daemon, dialogs, past>>
      BY <1>2 DEF AsksToDisconnect, FreeCall
    <2>2. CASE router.kind = "remote"
      BY <1>2, <2>1, <2>2, SpawnAsks DEF AsksToDisconnect
    <2>3. CASE router.kind # "remote"
      <3>1. call[o].at = "new" /\ call \in [Calls -> CallRecord]
        BY <2>1 DEF ShellInv, NewCallsInv, SessionTypes
      <3>2. \A b \in Calls \ {o} : call'[b] = call[b]
        BY <1>2, <2>3, <3>1 DEF AsksToDisconnect
      <3>3. CallsStay
        BY <2>1, <3>1, <3>2 DEF CallsStay
      <3>4. UNCHANGED local
        BY <1>2, <2>3 DEF AsksToDisconnect
      <3>5. QED BY <2>1, <3>3, <3>4, StillAsks
    <2>4. QED BY <2>2, <2>3
  <1>3. ASSUME NEW o \in Calls, AsksToEnd(o) PROVE AsksInv'
    BY <1>3, SpawnAsks DEF AsksToEnd, FreeCall
  <1>4. CASE \E s \in Servers : ServerStep(s)
    BY <1>4, ServerStepAsks
  <1>5. CASE CalmStep
    BY <1>5, CalmStepsAsk
  <1>6. CASE UNCHANGED vars
    <2>1. UNCHANGED <<local, router, handle, daemon, call, dialogs, past>>
      BY <1>6 DEF vars, sessionVars
    <2>2. CallsStay
      BY <2>1 DEF CallsStay
    <2>3. QED BY <2>1, <2>2, StillAsks
  <1>7. QED BY <1>1, <1>2, <1>3, <1>4, <1>5, <1>6 DEF Next, CalmStep

(* At first nothing was asked.                                             *)
LEMMA NothingAskedAtFirst ==
  ASSUME Init
  PROVE  AsksInv
  <1>1. daemon = 0 /\ dialogs = {}
    BY DEF Init
  <1>2. \A p \in Procs : local.proc[p].asked = <<>>
    BY DEF Init, Process, NewProc
  <1>3. \A p \in Procs : DOMAIN local.proc[p].asked = {}
    BY <1>2
  <1>4. QED
    BY <1>1, <1>3 DEF AsksInv, DaemonInv, SilenceInv, DialogsInv, OwnInv, AnswersAreOwn

(* A confirm is settled by the answer to its own dialog, whatever swaps    *)
(* happened while it was open, unless the server that asked died under it. *)
THEOREM OwnAnswers == Spec => []AnswerIsOwn
  <1>1. Init => ShellInv /\ AsksInv
    BY ShellInits, NothingAskedAtFirst
  <1>2. ShellInv /\ AsksInv /\ [Next]_vars => (ShellInv /\ AsksInv)'
    BY ShellKept, AsksStay
  <1>3. ShellInv /\ AsksInv => AnswerIsOwn
    BY DEF AsksInv, OwnInv, AnswerIsOwn
  <1>4. QED BY <1>1, <1>2, <1>3, PTL DEF Spec

=============================================================================
