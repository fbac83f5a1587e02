-------------------------- MODULE MCRemoteSession --------------------------
(***************************************************************************)
(* TLC instance of RemoteSession.  Faults and Traffic name what may happen *)
(* in a run, so that each run can spend its states on one question; MaxSeq *)
(* bounds the numbers an incarnation of the journal hands out.             *)
(***************************************************************************)
EXTENDS RemoteSession

(* Every daemon speaks the client's protocol, or only the first one does:  *)
(* the host was upgraded before the second was started.                    *)
SameProtocol == [e \in 1 .. MaxEpoch |-> {1}]
Upgraded == [e \in 1 .. MaxEpoch |-> {e}]

CONSTANTS
  MaxSeq,   \* bound: numbers handed out by one incarnation
  Faults,   \* which faults may happen
  Traffic   \* which pushes there are: "session", "handler", or neither

MCShellStep ==
  \/ \E a \in Foreground : Start(a) \/ ("retry" \in Faults /\ RetryNow(a))
  \/ \E a \in Attempts :
       Continue(a) \/ ("openFails" \in Faults /\ (OpenFails(a) \/ HelloTimeout(a)))
  \/ LoopTimer
  \/ \E c \in Channels :
       Receive(c) \/ NoticesClose(c) \/ ("unresponsive" \in Faults /\ Unresponsive(c))
  \/ \E i \in Invokes : Invoke(i) \/ ("ttl" \in Faults /\ Age(i))
  \/ SweepTick
  \/ ("disconnect" \in Faults /\ Disconnect)

MCPush(e, size) ==
  /\ nextSeq < MaxSeq
  /\ \/ "session" \in Traffic /\ SessionPush(e, size)
     \/ "handler" \in Traffic /\ \E w \in running : HandlerPush(w, e, size)

MCDaemonStep ==
  \/ \E c \in Channels :
       \/ ServerReceive(c) \/ RunImmediates(c)
       \/ DropSuperseded(c) \/ ServerNoticesClose(c)
       \/ "deadline" \in Faults /\ AttachDeadline(c)
  \/ \E w \in running : Finish(w)
  \/ \E e \in Events, size \in FrameSizes : MCPush(e, size)
  \/ nextSeq < MaxSeq /\ "encode" \in Faults /\ PushFails
  \/ "age" \in Faults /\ SettlementAgesOut
  \/ "foreign" \in Faults /\ (ForeignAttach \/ ForeignLeaves)
  \/ "crash" \in Faults /\ DaemonCrash

MCNext ==
  \/ \E a \in Attempts, c \in Channels : Connect(a, c)
  \/ MCShellStep /\ UNCHANGED <<storeVars, hostVars>>
  \/ MCDaemonStep /\ UNCHANGED handleVars
  \/ \E c \in Channels : "cut" \in Faults /\ BreakChannel(c)

MCSpec == Init /\ [][MCNext]_vars

(* With fairness: breaks are noticed, or, silent ones, only by the pings.  *)
MCFairSpec == MCSpec /\ TurnsAreTaken /\ BreaksAreNoticed
MCSilentSpec == MCSpec /\ TurnsAreTaken /\ PingsAreCounted
=============================================================================
