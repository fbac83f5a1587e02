---------------------------- MODULE RemoteHandle ----------------------------
(***************************************************************************)
(* The shell's handle on a remote session: it owns the invokes, opens one  *)
(* disposable RpcClient per channel, attaches, and chases a lost           *)
(* connection with a bounded backoff loop.                                 *)
(*                                                                         *)
(* The shell is single-threaded: an action is one event-loop turn with its *)
(* microtasks.  One continuation is an action of its own, Continue,        *)
(* because the messages of one chunk are decoded before it: between the    *)
(* arrival of an attach result and Continue, only messages of the same     *)
(* channel are received (ChunkOf).  The handle's fields are one record, h, *)
(* and the code's synchronous methods are functions from h to h.           *)
(***************************************************************************)
EXTENDS Wires, FiniteSets

CONSTANTS
  NInvokes,        \* the invokes the shell may make are 1 .. NInvokes
  Mutations,       \* those whose channel is not idempotent
  Foreground,      \* callers of start() and retryNow()
  MaxTries,        \* attempts of the reconnect loop: the length of RECONNECT_DELAYS_MS
  ClientProtocol   \* the protocol the shell speaks

VARIABLES
  h,          \* the handle's fields, its RpcClients and its attempts
  got,        \* history: the pushes the handle was given, as <<epoch, seq>>
  accounted,  \* history: those, and the ones a resync made up for
  repeated,   \* history: the pushes it was given more than once
  promised,   \* history: per channel, the pushes its attach announced as a replay
  blind,      \* history: the pushes skipped by a client with no cursor
  dropped     \* history: the responses nobody was waiting for, as <<channel, wire id>>

ghostVars == <<got, accounted, repeated, promised, blind, dropped>>
handleVars == <<h, ghostVars>>

MyInvokes == 1 .. NInvokes
Loop == 0                     \* the reconnect loop, as an attempt beside Foreground
Attempts == Foreground \cup {Loop}
None == 0                     \* no channel, no epoch
NoWire == [ch |-> None, n |-> 0]
NoResult == [type |-> "none"]
Idle == [pc |-> "idle", ch |-> None, why |-> "none", result |-> NoResult]
Opening(why) == [Idle EXCEPT !.pc = "opening", !.why = why]
Unused == [open |-> FALSE, seq |-> -1, pending |-> {}, pinging |-> FALSE, nextId |-> 0]

InitHandle ==
  /\ h = [state |-> "disconnected", stopped |-> FALSE, reconnecting |-> FALSE,
          started |-> FALSE, tries |-> 0, client |-> None, lastSeq |-> -1,
          epoch |-> None, sweep |-> FALSE,
          attempt  |-> [a \in Attempts |-> Idle],
          rpc      |-> [c \in Channels |-> Unused],
          owned    |-> [i \in MyInvokes |-> "new"],
          wire     |-> [i \in MyInvokes |-> NoWire],
          aged     |-> {}]
  /\ got = {} /\ accounted = {} /\ repeated = {} /\ blind = {} /\ dropped = {}
  /\ promised = [c \in Channels |-> {}]

----------------------------------------------------------------------------
Owned(s) == {i \in MyInvokes : s.owned[i] = "owned"}

Settle(s, is, how) ==
  [s EXCEPT !.owned = [i \in MyInvokes |-> IF i \in is THEN how ELSE s.owned[i]]]

FailOwned(s) == Settle(s, Owned(s), "failed")

(* Mutant: mutations are left waiting.                                     *)
ExpireReads(s) == Settle(s, (Owned(s) \cap s.aged) \ Mutations, "failed")

(* expireOwned: a mutation past its TTL is lost, a read has failed.        *)
ExpireOwned(s) ==
  LET old == Owned(s) \cap s.aged
  IN  Settle(Settle(s, old \cap Mutations, "lost"), old \ Mutations, "failed")

(* The attempts whose attach fails when channel c closes.                  *)
WaitingOn(s, c) ==
  {a \in Attempts : s.attempt[a].ch = c /\ s.attempt[a].pc \in {"hello", "attaching"}}

CloseClient(s, c) == [s EXCEPT !.rpc[c].open = FALSE, !.rpc[c].pinging = FALSE]

TeardownChannel(s) ==
  IF s.client = None THEN s
  ELSE [CloseClient(s, s.client) EXCEPT !.client = None]

OnConnectionLost(s) ==
  IF s.stopped \/ s.reconnecting THEN s
  ELSE [s EXCEPT !.state = "reconnecting", !.reconnecting = TRUE, !.tries = 0,
                 !.attempt[Loop] = [Idle EXCEPT !.pc = "waiting"]]

(* Mutant: the loop ends without a word.                                   *)
LoopEndsQuietly(s) == [s EXCEPT !.reconnecting = FALSE, !.attempt[Loop] = Idle]

(* The end of reconnectLoop: out of attempts, or stopped.                  *)
LoopEnds(s) ==
  LET ended == [s EXCEPT !.reconnecting = FALSE, !.attempt[Loop] = Idle]
  IN  IF s.stopped THEN ended
      ELSE [ExpireOwned(ended) EXCEPT !.state = "auth-required", !.sweep = TRUE]

(* What the caller of connect() does with its failure.                     *)
CallerFails(s, a) ==
  CASE a = Loop ->
         IF s.stopped \/ s.tries + 1 = MaxTries THEN LoopEnds(s)
         ELSE [s EXCEPT !.tries = @ + 1,
                        !.attempt[Loop] = [Idle EXCEPT !.pc = "waiting"]]
    [] s.attempt[a].why = "retry" ->
         [s EXCEPT !.state = "auth-required", !.attempt[a] = Idle]
    [] OTHER -> [s EXCEPT !.attempt[a] = Idle]

(* Closing a client rejects the attach that was under way on it, if any.   *)
FailAll(s, as) ==
  IF as = {} THEN s ELSE CallerFails(s, CHOOSE a \in as : TRUE)

(* connect() fails for a: whatever client the handle has by now is torn    *)
(* down, and with it the attempt of whoever was attaching through it.      *)
ConnectFails(s, a) ==
  FailAll(CallerFails(TeardownChannel(s), a), WaitingOn(s, s.client) \ {a})

(* The step that leaves the handle in n.  A client that closes reads and   *)
(* writes no more, so that its channel is as good as cut, although the ssh *)
(* process is only disposed of at the next teardown.                       *)
Becomes(n) ==
  LET closing == {c \in Channels : h.rpc[c].open /\ ~n.rpc[c].open}
  IN  /\ h' = n
      /\ CutLinks(closing)
      /\ toClient' = Emptied(toClient, closing)
      /\ UNCHANGED toServer

----------------------------------------------------------------------------
Reconciling == {a \in Attempts : h.attempt[a].pc = "reconciling"}

(* A client action other than a receipt waits for the microtasks.          *)
ShellIdle == Reconciling = {}
ChunkOf(c) == \A a \in Reconciling : h.attempt[a].ch = c

Start(a) ==
  /\ ShellIdle
  /\ h.state = "disconnected" /\ ~h.stopped
  /\ Becomes([h EXCEPT !.state = "connecting", !.attempt[a] = Opening("start")])
  /\ UNCHANGED ghostVars

RetryNow(a) ==
  /\ ShellIdle
  /\ h.started /\ h.attempt[a] = Idle
  /\ ~h.stopped
  /\ h.state # "connected" /\ ~h.reconnecting
  /\ LET torn == TeardownChannel([h EXCEPT !.state = "connecting"])
     IN  Becomes(FailAll([torn EXCEPT !.attempt[a] = Opening("retry")],
                         WaitingOn(h, h.client)))
  /\ UNCHANGED ghostVars

(* The backoff timer fires.                                                *)
LoopTimer ==
  /\ ShellIdle
  /\ h.attempt[Loop].pc = "waiting"
  /\ IF h.stopped THEN Becomes(LoopEnds(h))
     ELSE Becomes(FailAll([TeardownChannel(h) EXCEPT !.attempt[Loop] = Opening("loop")],
                          WaitingOn(h, h.client)))
  /\ UNCHANGED ghostVars

(* openChannel resolves with channel c: the handle makes it its own, over  *)
(* any client it already has.  The wire's side of it is the daemon's.      *)
ChannelOpens(a, c) ==
  /\ ShellIdle
  /\ h.attempt[a].pc = "opening"
  /\ link[c] = "unused" /\ \A d \in 1 .. c - 1 : link[d] # "unused"
  /\ h' = [h EXCEPT !.attempt[a].pc = "hello", !.attempt[a].ch = c,
                    !.client = c,
                    !.rpc[c] = [Unused EXCEPT !.open = TRUE, !.seq = h.lastSeq]]
  /\ UNCHANGED ghostVars

OpenFails(a) ==
  /\ ShellIdle
  /\ h.attempt[a].pc = "opening"
  /\ Becomes(ConnectFails(h, a))
  /\ UNCHANGED ghostVars

HelloTimeout(a) ==
  /\ ShellIdle
  /\ h.attempt[a].pc = "hello"
  /\ Becomes(ConnectFails(h, a))
  /\ UNCHANGED ghostVars

(* The client of channel c closes: onClose, then the attach that was       *)
(* waiting on it fails.                                                    *)
ClientCloses(c) ==
  LET closed == CloseClient(h, c)
      lost   == IF h.client = c THEN OnConnectionLost(closed) ELSE closed
      failed == WaitingOn(h, c)
  IN  /\ Becomes(IF failed = {} THEN lost
                 ELSE ConnectFails(lost, CHOOSE a \in failed : TRUE))
      /\ UNCHANGED ghostVars

NoticesClose(c) ==
  /\ ShellIdle
  /\ h.rpc[c].open /\ link[c] = "cut"
  /\ ClientCloses(c)

(* Three pings in a row went unanswered.                                   *)
Unresponsive(c) ==
  /\ ShellIdle
  /\ h.rpc[c].open /\ h.rpc[c].pinging /\ h.client = c
  /\ ClientCloses(c)

----------------------------------------------------------------------------
(* Invokes that are dispatched together go in the order they were made.    *)
Place(is, i) == Cardinality({j \in is : j <= i})

(* Mutant: ids without the per-connection prefix.                          *)
WireWithoutPrefix(s, is, i) ==
  [ch |-> 1, n |-> s.rpc[s.client].nextId + Place(is, i)]

(* The id of invoke i when the invokes is are dispatched: the prefix of    *)
(* its connection, and a number that starts again with each connection.    *)
WireFor(s, is, i) ==
  [ch |-> s.client, n |-> s.rpc[s.client].nextId + Place(is, i)]

(* Dispatching these invokes through the current client: with none they    *)
(* stay owned; a closed one rejects them; otherwise each gets the next id. *)
Dispatched(s, is) ==
  IF s.client = None THEN s
  ELSE IF ~s.rpc[s.client].open THEN Settle(s, is, "failed")
  ELSE [s EXCEPT
          !.wire = [i \in MyInvokes |-> IF i \in is THEN WireFor(s, is, i) ELSE s.wire[i]],
          !.rpc[s.client].nextId = @ + Cardinality(is),
          !.rpc[s.client].pending =
             @ \cup {[id |-> WireFor(s, is, i), inv |-> i] : i \in is}]

Requests(s, is) ==
  LET sent(k) == CHOOSE i \in is : Place(is, i) = k
  IN  [k \in 1 .. Cardinality(is) |->
         [type |-> "invoke", id |-> WireFor(s, is, sent(k)), inv |-> sent(k)]]

(* Written to the server when these invokes are dispatched from s.         *)
Sends(s, is) ==
  /\ toServer' = IF s.client = None \/ ~s.rpc[s.client].open THEN toServer
                 ELSE Written(toServer, OnlyTo(s.client, Requests(s, is)))
  /\ UNCHANGED <<link, toClient>>

Invoke(i) ==
  /\ ShellIdle
  /\ h.started /\ ~h.stopped
  /\ h.owned[i] = "new"
  /\ h' = Dispatched([h EXCEPT !.owned[i] = "owned"], {i})
  /\ Sends(h, {i})
  /\ UNCHANGED ghostVars

----------------------------------------------------------------------------
AttachRequest ==
  [type |-> "attach", epoch |-> h.epoch, seq |-> h.lastSeq,
   pending |-> {h.wire[i] : i \in Owned(h)} \ {NoWire}, protocol |-> ClientProtocol]

ReceiveHello(c) ==
  \E a \in Attempts :
    /\ h.attempt[a].ch = c /\ h.attempt[a].pc = "hello"
    /\ h' = [h EXCEPT !.attempt[a].pc = "attaching"]
    /\ toServer' = Written(toServer, OnlyTo(c, <<AttachRequest>>))
    /\ toClient' = [toClient EXCEPT ![c] = Tail(@)]
    /\ UNCHANGED <<link, ghostVars>>

ReceiveAttached(c, m) ==
  \E a \in Attempts :
    /\ h.attempt[a].ch = c /\ h.attempt[a].pc = "attaching"
    /\ h' = [h EXCEPT !.attempt[a].pc = "reconciling", !.attempt[a].result = m]
    /\ toClient' = [toClient EXCEPT ![c] = Tail(@)]
    /\ UNCHANGED <<link, toServer, ghostVars>>

ReceiveRefused(c) ==
  \E a \in Attempts :
    /\ h.attempt[a].ch = c /\ h.attempt[a].pc = "attaching"
    /\ Becomes(ConnectFails(h, a))
    /\ UNCHANGED ghostVars

(* A push: the client's cursor never goes back, a hole in the numbering    *)
(* forces a resync unless the client has no cursor yet, and only a push    *)
(* that is not reserved moves the handle's own cursor, to where it is.     *)
ReceivePush(c, m) ==
  LET cursor == h.rpc[c].seq
      key    == <<m.epoch, m.seq>>
      upTo   == {<<m.epoch, s>> : s \in 0 .. m.seq}
      gap    == m.seq # cursor + 1 /\ cursor >= 0
  IN  /\ h' = [h EXCEPT !.rpc[c].seq = IF m.seq > cursor THEN m.seq ELSE cursor,
                        !.lastSeq = IF m.event = "reserved" THEN @ ELSE m.seq]
      /\ got' = got \cup {key}
      /\ repeated' = repeated \cup (got \cap {key})
      /\ accounted' = accounted \cup (IF gap THEN upTo ELSE {key})
      /\ blind' = IF cursor = -1 THEN blind \cup (upTo \ {key}) ELSE blind
      /\ toClient' = [toClient EXCEPT ![c] = Tail(@)]
      /\ UNCHANGED <<link, toServer, promised, dropped>>

ReceiveResponse(c, m) ==
  LET mine == {p \in h.rpc[c].pending : p.id = m.id}
  IN  /\ h' = [Settle(h, {p.inv : p \in mine} \cap Owned(h), "ok")
                 EXCEPT !.rpc[c].pending = @ \ mine]
      /\ dropped' = IF mine = {} THEN dropped \cup {<<c, m.id>>} ELSE dropped
      /\ toClient' = [toClient EXCEPT ![c] = Tail(@)]
      /\ UNCHANGED <<link, toServer, got, accounted, repeated, promised, blind>>

(* Another client took the session over.                                   *)
ReceiveSuperseded(c) ==
  /\ h' = [FailOwned(h) EXCEPT !.stopped = TRUE, !.state = "disconnected"]
  /\ toClient' = [toClient EXCEPT ![c] = Tail(@)]
  /\ UNCHANGED <<link, toServer, ghostVars>>

Receive(c) ==
  /\ ChunkOf(c)
  /\ h.rpc[c].open /\ toClient[c] # <<>>
  /\ LET m == Head(toClient[c])
     IN  \/ m.type = "hello" /\ ReceiveHello(c)
         \/ m.type = "attached" /\ ReceiveAttached(c, m)
         \/ m.type = "refused" /\ ReceiveRefused(c)
         \/ m.type = "push" /\ ReceivePush(c, m)
         \/ m.type = "response" /\ ReceiveResponse(c, m)
         \/ m.type = "superseded" /\ ReceiveSuperseded(c)

----------------------------------------------------------------------------
(* The rest of connectInner once the attach result is in.                  *)
AdoptCursor(s, c, r) ==
  [s EXCEPT !.epoch = r.epoch,
            !.lastSeq = IF r.status = "ok" /\ s.lastSeq > r.seq THEN @ ELSE r.seq,
            !.rpc[c].seq = IF r.status = "ok" THEN @ ELSE r.seq]

(* Mutant: whatever is not adopted is sent again.                          *)
SentAgainAll(s, r) ==
  {i \in Owned(s) : s.client = None \/ s.wire[i] \notin DOMAIN r.verdict
                                     \/ r.verdict[s.wire[i]] = "unknown"}

(* reconcile(): which owned invokes are adopted, and which of the others   *)
(* may be sent again; the rest are lost.                                   *)
Adopted(s, r) ==
  IF s.client = None THEN {}
  ELSE {i \in Owned(s) : s.wire[i] \in DOMAIN r.verdict /\ r.verdict[s.wire[i]] # "unknown"}

SentAgain(s, r) ==
  {i \in Owned(s) \ Adopted(s, r) : i \notin Mutations \/ s.wire[i] = NoWire}

Adopt(s, r) ==
  IF s.client = None THEN s
  ELSE IF ~s.rpc[s.client].open THEN Settle(s, Adopted(s, r), "failed")
  ELSE [s EXCEPT !.rpc[s.client].pending =
          @ \cup {[id |-> s.wire[i], inv |-> i] : i \in Adopted(s, r)}]

Forgotten(s, is) ==
  [s EXCEPT !.wire = [i \in MyInvokes |-> IF i \in is THEN NoWire ELSE s.wire[i]]]

Lost(s, r) == Settle(s, Owned(s) \ (Adopted(s, r) \cup SentAgain(s, r)), "lost")

(* Mutant: the loop that succeeded is never over.                          *)
ConnectsStuck(s, a, c) ==
  [s EXCEPT !.sweep = FALSE, !.state = "connected",
            !.started = @ \/ s.attempt[a].why = "start",
            !.rpc[c].pinging = s.rpc[c].open, !.attempt[a] = Idle]

Connects(s, a, c) ==
  [s EXCEPT !.sweep = FALSE, !.state = "connected",
            !.started = @ \/ s.attempt[a].why = "start",
            !.rpc[c].pinging = s.rpc[c].open,
            !.reconnecting = IF a = Loop THEN FALSE ELSE @,
            !.attempt[a] = Idle]

Continue(a) ==
  /\ h.attempt[a].pc = "reconciling"
  /\ LET c     == h.attempt[a].ch
         r     == h.attempt[a].result
         s     == AdoptCursor(h, c, r)
         again == SentAgain(s, r)
         kept  == Forgotten(Lost(Adopt(s, r), r), again)
     IN  /\ h' = Connects(Dispatched(kept, again), a, c)
         /\ Sends(kept, again)
         /\ promised' = [promised EXCEPT ![c] =
              IF r.status = "ok"
              THEN {<<r.epoch, n>> : n \in h.rpc[c].seq + 1 .. r.seq} ELSE {}]
         /\ accounted' = IF r.status = "ok" THEN accounted
                         ELSE accounted \cup {<<r.epoch, n>> : n \in 0 .. r.seq}
  /\ UNCHANGED <<got, repeated, blind, dropped>>

----------------------------------------------------------------------------
(* An owned invoke gets older than PARKED_INVOKE_TTL_MS.                   *)
Age(i) ==
  /\ i \in Owned(h) \ h.aged
  /\ h' = [h EXCEPT !.aged = @ \cup {i}]
  /\ UNCHANGED <<wireVars, ghostVars>>

(* The interval timer armed in auth-required; it stops once nothing is owed.*)
SweepTick ==
  /\ ShellIdle
  /\ h.sweep
  /\ LET s == ExpireOwned(h)
     IN  Becomes([s EXCEPT !.sweep = Owned(s) # {}])
  /\ UNCHANGED ghostVars

Disconnect ==
  /\ ShellIdle
  /\ ~h.stopped /\ h.state # "disconnected"
  /\ LET s == TeardownChannel(FailOwned([h EXCEPT !.stopped = TRUE, !.sweep = FALSE]))
     IN  Becomes(FailAll([s EXCEPT !.state = "disconnected"], WaitingOn(h, h.client)))
  /\ UNCHANGED ghostVars
=============================================================================
