--------------------------- MODULE RemoteSession ---------------------------
(***************************************************************************)
(* A remote session end to end: the shell's handle (RemoteHandle), the     *)
(* session daemon (SessionHost) and the channels between them (Wires),     *)
(* with broken channels, unanswered pings, a daemon that dies and is       *)
(* started again, and another client that takes the session over.          *)
(***************************************************************************)
EXTENDS SessionHost, RemoteHandle

ASSUME SessionAssumption ==
  /\ NInvokes \in Nat
  /\ MaxEpoch \in Nat \ {0}
  /\ \A e \in 1 .. MaxEpoch : ServedProtocols[e] \subseteq Nat
  /\ Invokes = 1 .. NInvokes
  /\ Mutations \subseteq Invokes
  /\ MaxTries \in Nat \ {0}
  /\ Loop \notin Foreground

vars == <<journalVars, retained, wireVars, hostVars, handleVars>>

Init == InitWires /\ InitHost /\ InitHandle

(* The ssh channel is up: the daemon accepts the socket attach-cli opened, *)
(* and the handle constructs its client over the stream pair.              *)
Connect(a, c) == ChannelOpens(a, c) /\ Accept(c)

(* What the shell does by itself.                                          *)
ShellStep ==
  \/ \E a \in Foreground : Start(a) \/ RetryNow(a)
  \/ \E a \in Attempts : OpenFails(a) \/ HelloTimeout(a) \/ Continue(a)
  \/ LoopTimer
  \/ \E c \in Channels : Receive(c) \/ NoticesClose(c) \/ Unresponsive(c)
  \/ \E i \in Invokes : Invoke(i) \/ Age(i)
  \/ SweepTick
  \/ Disconnect

(* What the daemon does by itself.                                         *)
DaemonStep ==
  \/ \E c \in Channels :
       \/ ServerReceive(c) \/ RunImmediates(c)
       \/ AttachDeadline(c) \/ DropSuperseded(c) \/ ServerNoticesClose(c)
  \/ \E w \in running : Finish(w)
  \/ \E e \in Events, size \in FrameSizes :
       SessionPush(e, size) \/ \E w \in running : HandlerPush(w, e, size)
  \/ PushFails
  \/ SettlementAgesOut
  \/ ForeignAttach \/ ForeignLeaves
  \/ DaemonCrash

BreakChannel(c) == Cut(c) /\ UNCHANGED <<storeVars, hostVars, handleVars>>

Next ==
  \/ \E a \in Attempts, c \in Channels : Connect(a, c)
  \/ ShellStep /\ UNCHANGED <<storeVars, hostVars>>
  \/ DaemonStep /\ UNCHANGED handleVars
  \/ \E c \in Channels : BreakChannel(c)

Spec == Init /\ [][Next]_vars

(* Fairness: event loops take their turns, timers fire, ssh ends its       *)
(* attempt one way or the other, and a written message is read.  None is   *)
(* assumed for the faults, the users, the handlers or the kernel.          *)
ShellTurn(A) == A /\ UNCHANGED <<storeVars, hostVars>>
DaemonTurn(A) == A /\ UNCHANGED handleVars
OpeningEnds(a) == ShellTurn(OpenFails(a)) \/ \E c \in Channels : Connect(a, c)

TurnsAreTaken ==
  /\ \A c \in Channels :
       /\ WF_vars(ShellTurn(Receive(c)))
       /\ WF_vars(DaemonTurn(ServerReceive(c))) /\ WF_vars(DaemonTurn(RunImmediates(c)))
  /\ \A a \in Attempts : WF_vars(ShellTurn(Continue(a))) /\ WF_vars(OpeningEnds(a))
  /\ WF_vars(ShellTurn(LoopTimer)) /\ WF_vars(ShellTurn(SweepTick))
  /\ \A i \in Invokes : WF_vars(ShellTurn(Age(i)))

(* A broken channel is reported: its stream ends, errors or closes.        *)
BreaksAreNoticed == \A c \in Channels : WF_vars(ShellTurn(NoticesClose(c)))

(* A channel that breaks silently is noticed only where pings are sent.    *)
PingsAreCounted ==
  \A c \in Channels : WF_vars(ShellTurn(link[c] = "cut" /\ Unresponsive(c)))

----------------------------------------------------------------------------
(* The types of the session's variables, the journal's apart.              *)
TypeOK ==
  /\ epoch \in 1 .. MaxEpoch
  /\ active \in Channels \cup {NoChannel, Foreign}
  /\ conn \in [Channels -> {"unused", "gated", "attached", "open", "gone"}]
  /\ doomed \subseteq Connected
  /\ link \in [Channels -> {"unused", "up", "cut"}]
  /\ h.state \in {"connecting", "connected", "reconnecting", "auth-required",
                  "disconnected"}
  /\ h.client \in Channels \cup {None}
  /\ h.owned \in [Invokes -> {"new", "owned", "ok", "failed", "lost"}]
  /\ \A a \in Attempts :
       /\ h.attempt[a].pc \in {"idle", "waiting", "opening", "hello", "attaching",
                               "reconciling"}
       /\ h.attempt[a].pc = "waiting" => a = Loop

(* A mutation is never run twice: whatever is cut, parked, retried or      *)
(* reconciled, the daemon dispatches it to its handler at most once.       *)
MutationAtMostOnce == \A i \in Mutations : ran[i] <= 1

(* The session keeps the contract of its callers, see CallContract: this   *)
(* one formula covers what a promise may become and when a handler may run.*)
Contract ==
  INSTANCE CallContract WITH Calls <- Invokes, Unsafe <- Mutations, owned <- h.owned
KeepsContract == Contract!Spec

(* The pushes an attach announced as a replay on a channel that closed.    *)
CutShort == UNION {promised[c] : c \in {d \in Channels : ~h.rpc[d].open}}

(* The push cursor a client counts from is honest: every push of this      *)
(* session up to it was received or made up for by a resync, but for those *)
(* of a replay the channel did not survive, and those a client that had no *)
(* cursor stepped over.  Those two are the only silent losses.             *)
LossIsLoud ==
  \A c \in Channels :
    h.rpc[c].open /\ h.client = c /\ h.epoch = epoch =>
      \A s \in journalled :
        s <= h.rpc[c].seq => <<epoch, s>> \in accounted \cup CutShort \cup blind

(* One client is served at a time: a connection that attached and does not *)
(* hold the session has its drop timer running.                            *)
OneHolder ==
  \A c \in Channels :
    conn[c] \in {"attached", "open"} => c = active \/ c \in doomed

(* Whether the answer to wire id may still come through channel c.         *)
Answerable(id, c) ==
  \/ link[c] = "cut" \/ c \in doomed
  \/ \E w \in running : w.id = id
  \/ \E k \in DOMAIN toServer[c] :
       toServer[c][k].type = "invoke" /\ toServer[c][k].id = id
  \/ \E k \in DOMAIN due[c] : due[c][k].type = "response" /\ due[c][k].id = id
  \/ \E k \in DOMAIN toClient[c] :
       toClient[c][k].type = "response" /\ toClient[c][k].id = id

(* Nobody waits for nothing: an invoke the connected client waits for is   *)
(* running, on its way, or about to be reported lost with the channel, or  *)
(* its response was discarded as late traffic for nobody.                  *)
WaitIsAnswerable ==
  \A i \in Invokes :
    h.owned[i] = "owned" /\ h.state = "connected" /\ ShellIdle /\ h.client # None =>
      \/ ~h.rpc[h.client].open
      \/ h.wire[i] = NoWire
      \/ <<h.client, h.wire[i]>> \in dropped
      \/ Answerable(h.wire[i], h.client)

(* A handle that says it is connected has a client that is not closed, or  *)
(* has been told to stop.                                                  *)
ConnectedIsAlive ==
  h.state = "connected" /\ ~h.stopped => h.client # None /\ h.rpc[h.client].open

(* A lost connection is chased to an end: the handle does not stay in      *)
(* "reconnecting", it is connected again, waits for the user, or is closed.*)
ChaseEnds == h.state = "reconnecting" ~> h.state # "reconnecting"

(* An invoke still owed when the loop gave up does not hang: it settles,   *)
(* unless the session is reattached first.                                 *)
OwedExpires ==
  \A i \in Invokes :
    h.sweep /\ h.owned[i] = "owned" ~> h.owned[i] # "owned" \/ h.state = "connected"

----------------------------------------------------------------------------
(* What the comments promise and the code does not keep, one by one: each  *)
(* is refuted by a run of MCRemoteSession.                                  *)

(* A push the client counts as received was received, or made up for by a  *)
(* resync (protocol.ts, RpcAttachRequest.lastSeq: "Highest push seq the    *)
(* client actually received").                                             *)
CursorWasReceived ==
  \A c \in Channels :
    h.rpc[c].open /\ h.client = c /\ h.epoch = epoch =>
      \A s \in journalled : s <= h.rpc[c].seq => <<epoch, s>> \in accounted \cup blind

(* After an attach the next push is the one after the cursor (rpc-server.ts,*)
(* RpcServer.push: what the gate withholds reaches the client through the  *)
(* attach replay, "which is what keeps the client's first post-attach      *)
(* frame contiguous with its cursor").                                     *)
NextPushIsContiguous ==
  \A c \in Channels :
    h.rpc[c].open /\ h.state = "connected" /\ ShellIdle /\ toClient[c] # <<>> =>
      LET m == Head(toClient[c])
      IN  m.type = "push" => m.seq <= h.rpc[c].seq + 1

(* A push is delivered once (push-journal.ts: a client that reattaches     *)
(* receives "exactly what it missed").                                     *)
DeliveredOnce == repeated = {}

(* A response the handle waits for is not discarded (remote-server.ts,     *)
(* reconcile: else "the caller would wait forever on work that is running, *)
(* or has already finished").                                              *)
OwedIsKept ==
  \A i \in Invokes : h.owned[i] = "owned" => <<h.client, h.wire[i]>> \notin dropped

(* A mutation is reported lost only if the session cannot account for it   *)
(* (RpcRequestLostError): its handler is not running there.                *)
LostIsUnaccounted ==
  \A w \in running : h.owned[w.inv] # "lost"

(* A push made while a client is attached is written to that client, who-  *)
(* ever makes it (server-main.ts: "handlers must push through the session").*)
PushReachesHolder ==
  [][\A c \in Channels :
       nextSeq' > nextSeq /\ active = c /\ conn[c] = "open" /\ link[c] = "up"
         => toClient'[c] # toClient[c]]_vars

(* A handle that was disconnected is not connected (disconnect(): "Stop    *)
(* watching the session").                                                 *)
StoppedIsNotConnected == h.stopped => h.state # "connected"

(* An attach attempt ends, one way or the other, whatever becomes of its   *)
(* channel (remote-server.ts, connectInner: "parking its own attach leaves *)
(* connect() awaiting forever, which wedges whoever called it").           *)
AttachEnds ==
  \A a \in Attempts : h.attempt[a].pc = "attaching" ~> h.attempt[a].pc # "attaching"

(* An owed invoke settles, reconnect or not (remote-server.ts,             *)
(* reconnectLoop: "every owed promise settles within one TTL of its        *)
(* creation, reconnect or not").                                           *)
OwedSettles ==
  \A i \in Invokes :
    h.state = "auth-required" /\ h.owned[i] = "owned"
      ~> h.owned[i] # "owned" \/ h.state # "auth-required"

(* The missed pushes are written before the retained responses             *)
(* (protocol.ts, RpcAttachResult: "missed pushes follow, then parked       *)
(* responses").                                                            *)
ResponsesFollowReplay ==
  \A c \in Channels : \A j, k \in DOMAIN due[c] :
    due[c][j].type = "push" /\ due[c][k].type = "response" => j < k
=============================================================================
