---------------------------- MODULE SessionHost ----------------------------
(***************************************************************************)
(* The session daemon: it outlives the connections to it, owns the push    *)
(* journal and the retained settlements, serves one client at a time, and  *)
(* lets the newest attach win.  Per connection it runs an RpcServer, which *)
(* dispatches requests, writes pushes through a gate and answers attaches. *)
(*                                                                         *)
(* Control that spans event-loop turns is kept: a handler runs between its *)
(* dispatch and its settlement, and what an attach schedules with          *)
(* setImmediate happens in a later turn.  Handlers, their results and push *)
(* payloads are data: an invoke's result is the invoke.                    *)
(***************************************************************************)
EXTENDS PushJournal, ResponseStore, Wires

CONSTANTS
  Invokes,           \* the invokes the shell may make
  ServedProtocols,   \* per incarnation, RPC_PROTOCOL_MIN .. RPC_PROTOCOL_VERSION
  MaxEpoch           \* bound: incarnations of the daemon

VARIABLES
  epoch,    \* which incarnation of the daemon is running
  conn,     \* per channel: "unused", "gated", "attached" (its replay is due), "open", "gone"
  active,   \* the connection that holds the session, or NoChannel, or Foreign
  doomed,   \* superseded connections whose drop timer is running
  due,      \* per connection: what its setImmediate callbacks will write
  running,  \* dispatched handlers not yet settled: wire id, invoke, connection
  ran,      \* history: how often each invoke was dispatched to its handler
  done      \* history: the invokes some handler finished

hostVars == <<epoch, conn, active, doomed, due, running, ran, done>>
storeVars == <<ring, nextSeq, retainedBytes, journalled, retained>>

NoChannel == 0
Foreign == -1      \* another client's connection, whose traffic is not modelled
NoEpoch == 0       \* sessionEpoch: null
AttachId(c) == [ch |-> c, n |-> 0]
AttachCall == 0    \* the "invoke" of an attach request's settlement

Response(r) == [type |-> "response", id |-> r.id, inv |-> r.inv]

(* A push on the wire; its epoch is not sent, it is for the properties.    *)
PushMessage(f) == [type |-> "push", seq |-> f.seq, event |-> f.event, epoch |-> epoch]

Pushes(frames) == [i \in DOMAIN frames |-> PushMessage(frames[i])]

Connected == {c \in Channels : conn[c] \notin {"unused", "gone"}}

InitHost ==
  /\ InitJournal /\ InitStore
  /\ epoch = 1
  /\ conn = [c \in Channels |-> "unused"]
  /\ active = NoChannel
  /\ doomed = {}
  /\ due = [c \in Channels |-> <<>>]
  /\ running = {}
  /\ ran = [i \in Invokes |-> 0]
  /\ done = {}

----------------------------------------------------------------------------
(* Accepting a connection: gated, hello sent, attach deadline armed.       *)
Accept(c) ==
  /\ conn[c] = "unused"
  /\ conn' = [conn EXCEPT ![c] = "gated"]
  /\ link' = [link EXCEPT ![c] = "up"]
  /\ toClient' = [toClient EXCEPT ![c] = <<[type |-> "hello"]>>]
  /\ UNCHANGED <<storeVars, toServer, epoch, active, doomed, due, running, ran, done>>

(* forgetConnection, for a set of connections: they are no longer read.    *)
Forget(cs) ==
  /\ conn' = [c \in Channels |-> IF c \in cs THEN "gone" ELSE conn[c]]
  /\ active' = IF active \in cs THEN NoChannel ELSE active
  /\ doomed' = doomed \ cs
  /\ due' = Emptied(due, cs)
  /\ toServer' = Emptied(toServer, cs)

(* dropConnection: forget it, then destroy its socket.                     *)
DropConnection(c) ==
  /\ Forget({c})
  /\ CutLinks({c})
  /\ UNCHANGED <<storeVars, toClient, epoch, running, ran, done>>

(* The attach deadline passes on a connection that never attached.         *)
AttachDeadline(c) == conn[c] = "gated" /\ DropConnection(c)

(* The drop timer of a superseded connection fires.                        *)
DropSuperseded(c) == c \in doomed /\ DropConnection(c)

(* The socket of a broken channel reports close or error.                  *)
ServerNoticesClose(c) ==
  /\ link[c] = "cut" /\ c \in Connected
  /\ Forget({c})
  /\ UNCHANGED <<storeVars, link, toClient, epoch, running, ran, done>>

----------------------------------------------------------------------------
(* What planAttach's reconciler says of a request id.                      *)
Verdict(id) ==
  CASE \E w \in running : w.id = id -> "in-flight"
    [] OTHER -> IF Retained(id) THEN "completed" ELSE "unknown"

(* Mutant: the cursor is compared with a ring of another epoch.            *)
AttachStatusAnyEpoch(m) ==
  IF m.epoch = NoEpoch THEN "no-cursor"
  ELSE IF ~CanReplayFrom(m.seq) THEN "replay-gap"
  ELSE "ok"

(* planAttach, in the order of its checks: no cursor, then another epoch,  *)
(* and only then may the cursor be compared with the ring.                 *)
AttachStatus(m) ==
  IF m.epoch = NoEpoch THEN "no-cursor"
  ELSE IF m.epoch # epoch THEN "epoch-mismatch"
  ELSE IF ~CanReplayFrom(m.seq) THEN "replay-gap"
  ELSE "ok"

AttachResult(m) ==
  [type    |-> "attached",
   status  |-> AttachStatus(m),
   epoch   |-> epoch,
   seq     |-> LastSeq,
   verdict |-> [id \in m.pending |-> Verdict(id)]]

(* setImmediate: the retained settlements, then the replay.                *)
AttachDue(m) ==
  LET settled == SettlementsOf({id \in m.pending : Verdict(id) = "completed"})
  IN  [i \in DOMAIN settled |-> Response(settled[i])]
        \o IF AttachStatus(m) = "ok" THEN Pushes(FramesSince(m.seq)) ELSE <<>>

(* The protocol range, planAttach's first check.                           *)
Speaks(m) == m.protocol \in ServedProtocols[epoch]

(* Mutants: nobody is told, and whoever it was is told.                    *)
DisplacesNobody(c) == {}
DisplacesAnybody(c) == {active} \ {c}

(* The connection an attach through c takes the session from.              *)
Displaced(c) == {active} \cap (Channels \ {c})

(* An attach that is served: the newest connection takes the session, the  *)
(* one that held it is told and will be dropped, the response is recorded  *)
(* and written, and the rest is left to later turns.                       *)
ServeAttach(c, m) ==
  /\ Speaks(m)
  /\ conn' = [conn EXCEPT ![c] = "attached"]
  /\ active' = c
  /\ doomed' = doomed \cup Displaced(c)
  /\ due' = [due EXCEPT ![c] = AttachDue(m)]
  /\ RecordResponse([id |-> AttachId(c), inv |-> AttachCall])
  /\ toClient' = Written(toClient,
       [x \in Channels |->
          CASE x = c -> <<AttachResult(m)>>
            [] x \in Displaced(c) -> <<[type |-> "superseded"]>>
            [] OTHER -> <<>>])
  /\ UNCHANGED <<running, ran>>

(* An attach that is refused: the error is sent and the call rejected; the *)
(* connection stays, gated, until its deadline.                            *)
RefuseAttach(c, m) ==
  /\ ~Speaks(m)
  /\ RecordResponse([id |-> AttachId(c), inv |-> AttachCall])
  /\ toClient' = Written(toClient, OnlyTo(c, <<[type |-> "refused"]>>))
  /\ UNCHANGED <<conn, active, doomed, due, running, ran>>

(* Any other request: its handler starts, gated connection or not.         *)
DispatchInvoke(c, m) ==
  /\ running' = running \cup {[id |-> m.id, inv |-> m.inv, from |-> c]}
  /\ ran' = [ran EXCEPT ![m.inv] = @ + 1]
  /\ UNCHANGED <<retained, toClient, conn, active, doomed, due>>

ServerReceive(c) ==
  /\ c \in Connected
  /\ toServer[c] # <<>>
  /\ toServer' = [toServer EXCEPT ![c] = Tail(@)]
  /\ LET m == Head(toServer[c])
     IN  \/ m.type = "attach" /\ ServeAttach(c, m)
         \/ m.type = "attach" /\ RefuseAttach(c, m)
         \/ m.type = "invoke" /\ DispatchInvoke(c, m)
  /\ UNCHANGED <<journalVars, link, epoch, done>>

(* The turn in which the setImmediate callbacks of an attach run.          *)
RunImmediates(c) ==
  /\ conn[c] = "attached"
  /\ toClient' = Written(toClient, OnlyTo(c, due[c]))
  /\ due' = [due EXCEPT ![c] = <<>>]
  /\ conn' = [conn EXCEPT ![c] = "open"]
  /\ UNCHANGED <<storeVars, link, toServer, epoch, active, doomed, running, ran, done>>

----------------------------------------------------------------------------
(* Mutant: only the connection the request came in on.                     *)
SettlesToSender(w) == {w.from}

(* Who is written a settlement: the connection the request came in on, and *)
(* (deliverSettlement) the one that holds the session now.                 *)
SettlesTo(w) == {w.from, active}

(* A handler settles: the settlement is recorded, then written.            *)
Finish(w) ==
  /\ running' = running \ {w}
  /\ done' = done \cup {w.inv}
  /\ RecordResponse([id |-> w.id, inv |-> w.inv])
  /\ toClient' = Written(toClient,
       [x \in Channels |-> IF x \in SettlesTo(w) THEN <<Response(w)>> ELSE <<>>])
  /\ UNCHANGED <<journalVars, link, toServer, epoch, conn, active, doomed, due, ran>>

GateOpen(c) == c \in Channels /\ conn[c] = "open"

(* RpcServer.push: journalled, and written unless the gate is down.        *)
PushThrough(c, event, size) ==
  /\ AppendPush(event, size)
  /\ toClient' =
       IF GateOpen(c)
       THEN Written(toClient,
              OnlyTo(c, <<PushMessage([seq |-> nextSeq, event |-> event])>>))
       ELSE toClient
  /\ UNCHANGED <<retained, link, toServer, hostVars>>

(* SessionHost.push: through whoever holds the session, else journal only. *)
SessionPush(event, size) == PushThrough(active, event, size)

(* ctx.push, which a handler was given when it was dispatched: it pushes   *)
(* through the connection the request came in on.                          *)
HandlerPush(w, event, size) == PushThrough(w.from, event, size)

(* A push whose payload cannot be encoded throws out of push().            *)
PushFails ==
  /\ AppendThrows
  /\ UNCHANGED <<retained, wireVars, hostVars>>

SettlementAgesOut ==
  /\ AgeOut
  /\ UNCHANGED <<journalVars, wireVars, hostVars>>

----------------------------------------------------------------------------
(* Another client attaches to the session, or goes away.                   *)
ForeignAttach ==
  /\ active # Foreign
  /\ active' = Foreign
  /\ doomed' = doomed \cup ({active} \cap Channels)
  /\ toClient' = Written(toClient, OnlyTo(active, <<[type |-> "superseded"]>>))
  /\ UNCHANGED <<storeVars, link, toServer, epoch, conn, due, running, ran, done>>

ForeignLeaves ==
  /\ active = Foreign
  /\ active' = NoChannel
  /\ UNCHANGED <<storeVars, wireVars, epoch, conn, doomed, due, running, ran, done>>

(* The daemon dies, and with it its memory and its sockets.  A channel     *)
(* opened later reaches the next incarnation.                              *)
DaemonCrash ==
  /\ epoch < MaxEpoch
  /\ epoch' = epoch + 1
  /\ ring' = <<>> /\ nextSeq' = 0 /\ retainedBytes' = 0 /\ journalled' = {}
  /\ retained' = <<>>
  /\ running' = {}
  /\ conn' = [c \in Channels |-> IF conn[c] = "unused" THEN "unused" ELSE "gone"]
  /\ active' = NoChannel
  /\ doomed' = {}
  /\ due' = Emptied(due, Channels)
  /\ CutLinks(Connected)
  /\ toServer' = Emptied(toServer, Channels)
  /\ UNCHANGED <<toClient, ran, done>>
=============================================================================
