------------------------- MODULE RemoteSession_proofs -------------------------
(***************************************************************************)
(* Proofs about RemoteSession, for any number of invokes, callers,         *)
(* channels, retries and incarnations of the daemon.                       *)
(*                                                                         *)
(* Over the types (RemoteTypes_proofs) and the quiet steps of the shell:   *)
(* on the daemon's side a step makes no response up (Flows) and adds no    *)
(* request (Drains).  The invariants of the calls (CallsInv), of the       *)
(* attempts (AttemptInv), of the gate (GateInv), of what is awaited        *)
(* (WaitInv) and of the cursors (CursorsInv) are inductive one over the    *)
(* other, and the refinement of CallContract and the safety properties     *)
(* follow.                                                                 *)
(***************************************************************************)
EXTENDS RemoteTypes_proofs

----------------------------------------------------------------------------
(* What a request, a handler or a response can come from.                  *)

Kept(id, i) == Answered(id, i) \/ (Runs(id, i) /\ i \in done')

\* A step that asks for nothing new: requests become handlers, handlers answers.
Flows ==
  /\ \A id \in CallId, i \in MyInvokes :
       /\ Waits(id, i)' => Waits(id, i)
       /\ Asked(id, i)' => Asked(id, i)
       /\ Runs(id, i)' => Runs(id, i) \/ (Asked(id, i) /\ ran'[i] > 0)
       /\ Answered(id, i)' => Kept(id, i)
  /\ \A i \in MyInvokes : ran[i] <= ran'[i]
  /\ done \subseteq done'
  /\ \A c \in Channels : h.rpc[c].nextId <= h'.rpc[c].nextId
  /\ \A i \in MyInvokes : /\ h'.wire[i] = h.wire[i]
                          /\ h'.owned[i] = "new" <=> h.owned[i] = "new"

\* What is left of the requests in a queue.
Drained(q, r) ==
  \E o \in {0, 1} : \A k \in DOMAIN r : r[k].type = "invoke" => k + o \in DOMAIN q /\ r[k] = q[k + o]
Drains == \A d \in Channels : Drained(toServer[d], toServer'[d])

\* What a queue drains to.
LEMMA Drainings ==
  ASSUME NEW S, NEW q \in Seq(S)
  PROVE  /\ Drained(q, q) /\ Drained(q, <<>>)
         /\ q # <<>> => Drained(q, Tail(q))
  <1>1. DOMAIN q = 1 .. Len(q) /\ Len(q) \in Nat
    OBVIOUS
  <1>2. Drained(q, q)
    <2>1. \A k \in DOMAIN q : k + 0 = k
      BY <1>1
    <2>2. QED BY <2>1 DEF Drained
  <1>3. Drained(q, <<>>)
    BY DEF Drained
  <1>4. ASSUME q # <<>> PROVE Drained(q, Tail(q))
    BY <1>4, Takes DEF Drained
  <1>5. QED BY <1>2, <1>3, <1>4

DrainedJoin(q, x) == Drained(q, Joined(q, <<x>>))

\* Writing a message that is no request drains.
LEMMA JoinDrains ==
  ASSUME NEW S, NEW q \in Seq(S), NEW x, x.type # "invoke"
  PROVE  DrainedJoin(q, x)
  <1>1. DOMAIN q = 1 .. Len(q) /\ Len(q) \in Nat
    OBVIOUS
  <1> DEFINE r == q \o <<x>>
  <1>2. DOMAIN r = 1 .. Len(q) + 1 /\ (\A k \in 1 .. Len(q) : r[k] = q[k]) /\ r[Len(q) + 1] = x
    BY <1>1
  <1> HIDE DEF r
  <1>3. \A k \in DOMAIN r : r[k].type = "invoke" => k + 0 \in DOMAIN q /\ r[k] = q[k + 0]
    <2> TAKE k \in DOMAIN r
    <2>1. k \in 1 .. Len(q) \/ k = Len(q) + 1
      BY <1>1, <1>2
    <2>2. QED BY <1>1, <1>2, <2>1
  <1>4. Drained(q, r)
    BY <1>3 DEF Drained
  <1>5. QED BY <1>4 DEF r, Joined, DrainedJoin

\* A step that drains asks for nothing new.
LEMMA DrainsAsked ==
  ASSUME Drains
  PROVE  \A id \in CallId, i \in MyInvokes : Asked(id, i)' => Asked(id, i)
  <1> SUFFICES ASSUME NEW id \in CallId, NEW i \in MyInvokes, Asked(id, i)'
               PROVE  Asked(id, i)
    OBVIOUS
  <1>0. PICK c \in Channels : Asks(toServer'[c], id, i)
    BY DEF Asked
  <1>1. PICK k \in DOMAIN toServer'[c] :
          toServer'[c][k].type = "invoke" /\ toServer'[c][k].id = id /\ toServer'[c][k].inv = i
    BY <1>0 DEF Asks, Range
  <1>2. PICK l \in DOMAIN toServer[c] : toServer'[c][k] = toServer[c][l]
    BY <1>1 DEF Drains, Drained
  <1>3. QED BY <1>1, <1>2 DEF Asked, Asks, Range

\* Responses that come from responses, or from handlers that finished.
LEMMA AnswersFlow ==
  ASSUME \A d \in Channels : \A x \in Range(toClient'[d]) : x.type = "response" => Kept(x.id, x.inv),
         \A d \in Channels : \A x \in Range(due'[d]) : x.type = "response" => Kept(x.id, x.inv),
         \A x \in Range(retained') : x.id \in AttachIds \/ Kept(x.id, x.inv)
  PROVE  \A id \in CallId, i \in MyInvokes : Answered(id, i)' => Kept(id, i)
  <1> SUFFICES ASSUME NEW id \in CallId, NEW i \in MyInvokes, Answered(id, i)'
               PROVE  Kept(id, i)
    OBVIOUS
  <1>1. CASE \E x \in Range(retained') : x.id = id /\ x.inv = i
    BY <1>1, IdsDiffer
  <1>2. CASE \E d \in Channels : \/ \E x \in Range(due'[d]) : x.type = "response" /\ x.id = id /\ x.inv = i
                                 \/ \E x \in Range(toClient'[d]) : x.type = "response" /\ x.id = id /\ x.inv = i
    BY <1>2
  <1>3. QED BY <1>1, <1>2 DEF Answered, Carries

\* Every response that is around now.
LEMMA Keeps ==
  /\ \A x \in Range(retained) : Kept(x.id, x.inv)
  /\ \A d \in Channels : \A x \in Range(due[d]) : x.type = "response" => Kept(x.id, x.inv)
  /\ \A d \in Channels : \A x \in Range(toClient[d]) : x.type = "response" => Kept(x.id, x.inv)
  BY DEF Kept, Answered, Carries

\* The flow of a step the handle has no part in.
LEMMA DaemonFlows ==
  ASSUME Types, UNCHANGED handleVars, Drains,
         \A id \in CallId, i \in MyInvokes :
           Runs(id, i)' => Runs(id, i) \/ (Asked(id, i) /\ ran'[i] > 0),
         \A id \in CallId, i \in MyInvokes : Answered(id, i)' => Kept(id, i),
         \A i \in MyInvokes : ran[i] <= ran'[i], done \subseteq done'
  PROVE  Flows
  <1>1. h' = h
    BY DEF handleVars
  <1>2. \A c \in Channels : h.rpc[c].nextId \in Nat
    BY HostFacts DEF HandleRecord, ClientRecord
  <1>3. \A id \in CallId, i \in MyInvokes : Waits(id, i)' => Waits(id, i)
    BY <1>1 DEF Waits
  <1>4. QED BY <1>1, <1>2, <1>3, DrainsAsked DEF Flows

\* A message the daemon reads makes nothing up.
LEMMA ReceiveFlows ==
  ASSUME Types, NEW c \in Channels, ServerReceive(c), UNCHANGED handleVars
  PROVE  Flows /\ Drains
  <1> DEFINE m == Head(toServer[c])
  <1>1. /\ c \in Connected /\ toServer[c] # <<>> /\ toServer' = [toServer EXCEPT ![c] = Tail(@)]
        /\ \/ m.type = "attach" /\ ServeAttach(c, m)
           \/ m.type = "attach" /\ RefuseAttach(c, m)
           \/ m.type = "invoke" /\ DispatchInvoke(c, m)
        /\ UNCHANGED journalVars /\ link' = link /\ epoch' = epoch /\ done' = done
    BY DEF ServerReceive
  <1>2. m \in ToServerMessage /\ m \in Range(toServer[c])
    BY <1>1, HostFacts, Takes
  <1>3. Drains
    <2>1. \A d \in Channels : toServer[d] \in Seq(ToServerMessage)
      BY HostFacts
    <2>2. toServer'[c] = Tail(toServer[c]) /\ \A d \in Channels : d # c => toServer'[d] = toServer[d]
      BY <1>1, HostFacts
    <2>3. QED BY <1>1, <2>1, <2>2, Drainings DEF Drains
  <1> HIDE DEF m
  <1>4. ran \in [MyInvokes -> Nat]
    BY HostFacts, Callers
  <1>5. CASE m.type = "attach" /\ ServeAttach(c, m)
    <2> DEFINE out == [x \in Channels |->
                         CASE x = c -> <<AttachResult(m)>>
                           [] x \in Displaced(c) -> <<[type |-> "superseded"]>>
                           [] OTHER -> <<>>]
               s == [id |-> AttachId(c), inv |-> AttachCall]
    <2>1. m \in Attaches
      BY <1>2, <1>5, Kinds
    <2>2. /\ due' = [due EXCEPT ![c] = AttachDue(m)]
          /\ RecordResponse(s) /\ toClient' = Written(toClient, out)
          /\ running' = running /\ ran' = ran
      BY <1>5 DEF ServeAttach
    <2>3. AttachResult(m) \in ToClientMessage /\ AttachResult(m).type = "attached"
      BY <2>1, AttachMessages, Kinds DEF AttachResult
    <2>4. out \in [Channels -> Seq(ToClientMessage)] /\ \A d \in Channels : \A x \in Range(out[d]) : x.type # "response"
      <3> DEFINE q == <<AttachResult(m)>>
                 r == <<[type |-> "superseded"]>>
      <3>1. q \in Seq(ToClientMessage) /\ \A x \in Range(q) : x.type # "response"
        BY <2>3, One
      <3>2. r \in Seq(ToClientMessage) /\ \A x \in Range(r) : x.type # "response"
        <4>1. r \in Seq(ToClientMessage) /\ Range(r) = {[type |-> "superseded"]}
          BY Kinds, One
        <4>2. QED BY <4>1
      <3>3. <<>> \in Seq(ToClientMessage) /\ \A x \in Range(<<>>) : x.type # "response"
        BY Nothing
      <3>4. \A d \in Channels : out[d] \in {q, r, <<>>}
        OBVIOUS
      <3>5. out = [d \in Channels |-> out[d]]
        OBVIOUS
      <3> HIDE DEF q, r, out
      <3>6. QED BY <3>1, <3>2, <3>3, <3>4, <3>5
    <2> HIDE DEF out
    <2>5. \A d \in Channels : \A x \in Range(toClient'[d]) : x.type = "response" => Kept(x.id, x.inv)
      <3> TAKE d \in Channels
      <3>1. Range(toClient'[d]) \subseteq Range(toClient[d]) \cup Range(out[d])
        <4>1. toClient \in [Channels -> Seq(ToClientMessage)]
          BY HostFacts
        <4>2. QED BY <2>2, <2>4, <4>1, WritesRange
      <3>2. QED BY <2>4, <3>1, Keeps
    <2>6. \A d \in Channels : \A x \in Range(due'[d]) : x.type = "response" => Kept(x.id, x.inv)
      <3>1. \A x \in Range(AttachDue(m)) : x.type = "response" => \E y \in Range(retained) : y.id = x.id /\ y.inv = x.inv
        <4> TAKE x \in Range(AttachDue(m))
        <4>1. \/ \E i \in DOMAIN retained : retained[i].id = x.id /\ retained[i].inv = x.inv
              \/ x \in PushMessages
          BY <2>1, AttachMessages
        <4>2. x \in PushMessages => x.type # "response"
          BY DEF PushMessages
        <4>3. \A i \in DOMAIN retained : retained[i] \in Range(retained)
          BY DEF Range
        <4>4. QED BY <4>1, <4>2, <4>3
      <3>2. \A d \in Channels : due'[d] = due[d] \/ due'[d] = AttachDue(m)
        BY <2>2, HostFacts
      <3>3. \A x \in Range(AttachDue(m)) : x.type = "response" => Kept(x.id, x.inv)
        <4> TAKE x \in Range(AttachDue(m))
        <4>1. ASSUME NEW y \in Range(retained), y.id = x.id, y.inv = x.inv PROVE Kept(x.id, x.inv)
          <5>1. Kept(y.id, y.inv)
            BY Keeps
          <5>2. QED BY <4>1, <5>1
        <4>2. QED BY <3>1, <4>1
      <3>4. QED BY <3>2, <3>3, Keeps
    <2>7. \A x \in Range(retained') : x.id \in AttachIds \/ Kept(x.id, x.inv)
      <3>1. s \in Settlement /\ s.id \in AttachIds
        BY Kinds DEF AttachId, AttachIds
      <3> HIDE DEF s
      <3>2. Range(retained') \subseteq Range(retained) \cup {s}
        BY <2>2, <3>1, HostFacts, Records
      <3>3. QED BY <3>1, <3>2, Keeps
    <2>8. \A id \in CallId, i \in MyInvokes : Runs(id, i)' => Runs(id, i)
      BY <2>2 DEF Runs
    <2>9. \A i \in MyInvokes : ran[i] <= ran'[i]
      BY <1>4, <2>2
    <2>10. QED BY <1>1, <1>3, <2>5, <2>6, <2>7, <2>8, <2>9, AnswersFlow, DaemonFlows
  <1>6. CASE m.type = "attach" /\ RefuseAttach(c, m)
    <2> DEFINE s == [id |-> AttachId(c), inv |-> AttachCall]
               q == <<[type |-> "refused"]>>
    <2>1. /\ RecordResponse(s) /\ toClient' = Written(toClient, OnlyTo(c, q))
          /\ UNCHANGED <<conn, active, doomed, due, running, ran>>
      BY <1>6 DEF RefuseAttach
    <2>2. q \in Seq(ToClientMessage) /\ \A x \in Range(q) : x.type # "response"
      <3>1. q \in Seq(ToClientMessage) /\ Range(q) = {[type |-> "refused"]}
        BY Kinds, One
      <3>2. QED BY <3>1
    <2> HIDE DEF q
    <2>3. OnlyTo(c, q) \in [Channels -> Seq(ToClientMessage)] /\ \A d \in Channels : OnlyTo(c, q)[d] \in {q, <<>>}
      BY <2>2, Nothing DEF OnlyTo
    <2>4. \A d \in Channels : \A x \in Range(toClient'[d]) : x.type = "response" => Kept(x.id, x.inv)
      <3> TAKE d \in Channels
      <3>1. Range(toClient'[d]) \subseteq Range(toClient[d]) \cup Range(OnlyTo(c, q)[d])
        <4> DEFINE out == OnlyTo(c, q)
        <4>1. toClient \in [Channels -> Seq(ToClientMessage)] /\ out \in [Channels -> Seq(ToClientMessage)]
          BY <2>3, HostFacts
        <4>2. toClient' = Written(toClient, out)
          BY <2>1
        <4> HIDE DEF out
        <4>3. Range(toClient'[d]) \subseteq Range(toClient[d]) \cup Range(out[d])
          BY <4>1, <4>2, WritesRange
        <4>4. QED BY <4>3 DEF out
      <3>2. \A x \in Range(OnlyTo(c, q)[d]) : x.type # "response"
        BY <2>2, <2>3, Nothing
      <3>3. QED BY <3>1, <3>2, Keeps
    <2>5. \A d \in Channels : \A x \in Range(due'[d]) : x.type = "response" => Kept(x.id, x.inv)
      BY <2>1, Keeps
    <2>6. \A x \in Range(retained') : x.id \in AttachIds \/ Kept(x.id, x.inv)
      <3>1. s \in Settlement /\ s.id \in AttachIds
        BY Kinds DEF AttachId, AttachIds
      <3> HIDE DEF s
      <3>2. Range(retained') \subseteq Range(retained) \cup {s}
        BY <2>1, <3>1, HostFacts, Records
      <3>3. QED BY <3>1, <3>2, Keeps
    <2>7. \A id \in CallId, i \in MyInvokes : Runs(id, i)' => Runs(id, i)
      BY <2>1 DEF Runs
    <2>8. \A i \in MyInvokes : ran[i] <= ran'[i]
      BY <1>4, <2>1
    <2>9. QED BY <1>1, <1>3, <2>4, <2>5, <2>6, <2>7, <2>8, AnswersFlow, DaemonFlows
  <1>7. CASE m.type = "invoke" /\ DispatchInvoke(c, m)
    <2>1. m \in InvokeMessages /\ m.inv \in MyInvokes
      BY <1>2, <1>7, Kinds DEF InvokeMessages
    <2>2. /\ running' = running \cup {[id |-> m.id, inv |-> m.inv, from |-> c]}
          /\ ran' = [ran EXCEPT ![m.inv] = @ + 1]
          /\ UNCHANGED <<retained, toClient, conn, active, doomed, due>>
      BY <1>7 DEF DispatchInvoke
    <2>3. \A i \in MyInvokes : ran'[i] = IF i = m.inv THEN ran[i] + 1 ELSE ran[i]
      BY <1>4, <2>1, <2>2
    <2>4. Asked(m.id, m.inv)
      BY <1>2, <1>7 DEF Asked, Asks
    <2>5. \A id \in CallId, i \in MyInvokes : Runs(id, i)' => Runs(id, i) \/ (Asked(id, i) /\ ran'[i] > 0)
      <3> SUFFICES ASSUME NEW id \in CallId, NEW i \in MyInvokes, Runs(id, i)', ~Runs(id, i)
                   PROVE  Asked(id, i) /\ ran'[i] > 0
        OBVIOUS
      <3>1. id = m.id /\ i = m.inv
        BY <2>2 DEF Runs
      <3>2. QED BY <1>4, <2>3, <2>4, <3>1
    <2>6. \A id \in CallId, i \in MyInvokes : Answered(id, i)' => Kept(id, i)
      BY <2>2 DEF Answered, Kept
    <2>7. \A i \in MyInvokes : ran[i] <= ran'[i]
      BY <1>4, <2>3
    <2>8. QED BY <1>1, <1>3, <2>5, <2>6, <2>7, DaemonFlows
  <1>8. QED BY <1>1, <1>3, <1>5, <1>6, <1>7

\* Queues that stay or are emptied are drained.
LEMMA StaysDrained ==
  ASSUME Types, \A d \in Channels : toServer'[d] \in {toServer[d], <<>>}
  PROVE  Drains
  <1>1. \A d \in Channels : toServer[d] \in Seq(ToServerMessage)
    BY HostFacts
  <1>2. QED BY <1>1, Drainings DEF Drains

\* A step of the daemon that writes only what was due and starts nothing.
LEMMA CalmFlows ==
  ASSUME Types, UNCHANGED handleVars, \A d \in Channels : toServer'[d] \in {toServer[d], <<>>},
         running' \subseteq running, ran' = ran, done \subseteq done',
         \A d \in Channels : due'[d] \in {due[d], <<>>},
         \A d \in Channels : \A x \in Range(toClient'[d]) :
           x.type = "response" => \/ x \in Range(toClient[d]) \/ x \in Range(due[d]) \/ Kept(x.id, x.inv),
         \A x \in Range(retained') : x \in Range(retained) \/ Kept(x.id, x.inv)
  PROVE  Flows /\ Drains
  <1>1. Drains
    BY StaysDrained
  <1>2. \A id \in CallId, i \in MyInvokes : Runs(id, i)' => Runs(id, i)
    BY DEF Runs
  <1>3. \A i \in MyInvokes : ran[i] <= ran'[i]
    <2>1. \A i \in MyInvokes : ran[i] \in Nat
      BY HostFacts, Callers
    <2>2. QED BY <2>1
  <1>4. \A d \in Channels : \A x \in Range(toClient'[d]) : x.type = "response" => Kept(x.id, x.inv)
    BY Keeps
  <1>5. \A d \in Channels : \A x \in Range(due'[d]) : x.type = "response" => Kept(x.id, x.inv)
    <2> TAKE d \in Channels
    <2>1. due'[d] = due[d] \/ due'[d] = <<>>
      OBVIOUS
    <2>2. QED BY <2>1, Keeps, Nothing
  <1>6. \A x \in Range(retained') : x.id \in AttachIds \/ Kept(x.id, x.inv)
    BY Keeps
  <1>7. QED BY <1>1, <1>2, <1>3, <1>4, <1>5, <1>6, AnswersFlow, DaemonFlows

\* Writing what is due makes nothing up.
LEMMA ImmediateFlows ==
  ASSUME Types, NEW c \in Channels, RunImmediates(c), UNCHANGED handleVars
  PROVE  Flows /\ Drains /\ ran' = ran
  <1>1. /\ toClient' = Written(toClient, OnlyTo(c, due[c])) /\ due' = [due EXCEPT ![c] = <<>>]
        /\ UNCHANGED <<storeVars, link, toServer, epoch, active, doomed, running, ran, done>>
    BY DEF RunImmediates
  <1>2. due[c] \in Seq(ToClientMessage)
    <2>1. due[c] \in Seq(DueMessage)
      BY HostFacts
    <2>2. DueMessage \subseteq ToClientMessage
      BY Kinds
    <2>3. QED BY <2>1, <2>2
  <1>3. \A d \in Channels : Range(toClient'[d]) \subseteq Range(toClient[d]) \cup Range(due[d])
    <2> DEFINE out == OnlyTo(c, due[c])
    <2> TAKE d \in Channels
    <2>1. toClient \in [Channels -> Seq(ToClientMessage)] /\ toClient' = Written(toClient, out)
      BY <1>1, HostFacts
    <2>2. out \in [Channels -> Seq(ToClientMessage)] /\ (out[d] = due[d] \/ out[d] = <<>>)
      BY <1>2, Nothing DEF OnlyTo
    <2> HIDE DEF out
    <2>3. Range(toClient'[d]) \subseteq Range(toClient[d]) \cup Range(out[d])
      BY <2>1, <2>2, WritesRange
    <2>4. QED BY <2>2, <2>3, Nothing
  <1>4. \A d \in Channels : due'[d] \in {due[d], <<>>}
    BY <1>1, HostFacts
  <1>5. retained' = retained /\ running' = running /\ ran' = ran /\ done' = done /\ toServer' = toServer
    BY <1>1 DEF storeVars
  <1>6. QED BY <1>3, <1>4, <1>5, CalmFlows

\* A handler that finishes makes only its own response.
LEMMA FinishFlows ==
  ASSUME Types, NEW w \in running, Finish(w), UNCHANGED handleVars
  PROVE  Flows /\ Drains /\ ran' = ran
  <1> DEFINE out == [x \in Channels |-> IF x \in SettlesTo(w) THEN <<Response(w)>> ELSE <<>>]
             s == [id |-> w.id, inv |-> w.inv]
             r == Response(w)
  <1>1. /\ running' = running \ {w} /\ done' = done \cup {w.inv}
        /\ RecordResponse(s) /\ toClient' = Written(toClient, out)
        /\ UNCHANGED <<journalVars, link, toServer, epoch, conn, active, doomed, due, ran>>
    BY DEF Finish
  <1>2. w \in Handler /\ Kept(w.id, w.inv)
    BY <1>1, HostFacts DEF Kept, Runs
  <1>3. r \in ToClientMessage /\ r.id = w.id /\ r.inv = w.inv
    BY <1>2, Kinds DEF Response
  <1>4. s \in Settlement /\ s.id = w.id /\ s.inv = w.inv
    BY <1>2, Kinds
  <1> HIDE DEF r
  <1>5. out \in [Channels -> Seq(ToClientMessage)] /\ \A d \in Channels : Range(out[d]) \subseteq {r}
    <2> DEFINE q == <<r>>
    <2>1. q \in Seq(ToClientMessage) /\ <<>> \in Seq(ToClientMessage) /\ Range(q) = {r} /\ Range(<<>>) = {}
      BY <1>3, One, Nothing
    <2>2. out = [x \in Channels |-> IF x \in SettlesTo(w) THEN q ELSE <<>>]
      BY DEF r
    <2> HIDE DEF q, out
    <2>3. QED BY <2>1, <2>2
  <1> HIDE DEF out, s
  <1>6. \A d \in Channels : Range(toClient'[d]) \subseteq Range(toClient[d]) \cup {r}
    <2> TAKE d \in Channels
    <2>1. toClient \in [Channels -> Seq(ToClientMessage)] /\ toClient' = Written(toClient, out)
      BY <1>1, HostFacts
    <2>2. Range(toClient'[d]) \subseteq Range(toClient[d]) \cup Range(out[d])
      BY <1>5, <2>1, WritesRange
    <2>3. QED BY <1>5, <2>2
  <1>7. Range(retained') \subseteq Range(retained) \cup {s}
    BY <1>1, <1>4, HostFacts, Records
  <1>8. QED BY <1>1, <1>2, <1>3, <1>4, <1>6, <1>7, CalmFlows

\* A push makes no request and no response.
LEMMA PushedFlows ==
  ASSUME Types, NEW c, NEW e \in Events, NEW size \in FrameSizes, PushThrough(c, e, size),
         UNCHANGED handleVars
  PROVE  Flows /\ Drains /\ ran' = ran
  <1>1. /\ retained' = retained
        /\ \A d \in Channels : \A x \in Range(toClient'[d]) :
              \/ x \in Range(toClient[d])
              \/ x \in PushMessages /\ x.seq = nextSeq /\ x.epoch = epoch
        /\ UNCHANGED <<link, toServer, hostVars>>
    BY PushedTypes
  <1>2. \A x \in PushMessages : x.type # "response"
    BY DEF PushMessages
  <1>3. UNCHANGED <<due, running, ran, done>>
    BY <1>1 DEF hostVars
  <1>4. QED BY <1>1, <1>2, <1>3, CalmFlows

\* A failed push, or an aged settlement, makes nothing up.
LEMMA JournalStepFlows ==
  ASSUME Types, PushFails \/ SettlementAgesOut, UNCHANGED handleVars
  PROVE  Flows /\ Drains /\ ran' = ran
  <1>1. Range(retained') \subseteq Range(retained) /\ UNCHANGED <<wireVars, hostVars>>
    BY JournalStepTypes
  <1>2. UNCHANGED <<toClient, toServer, due, running, ran, done>>
    BY <1>1 DEF hostVars, wireVars
  <1>3. QED BY <1>1, <1>2, CalmFlows

\* Another client makes nothing up.
LEMMA ForeignFlows ==
  ASSUME Types, ForeignAttach \/ ForeignLeaves, UNCHANGED handleVars
  PROVE  Flows /\ Drains /\ ran' = ran
  <1>1. /\ UNCHANGED <<storeVars, link, toServer, epoch, conn, due, running, ran, done>>
        /\ \A d \in Channels : \A x \in Range(toClient'[d]) :
              x \in Range(toClient[d]) \/ x = [type |-> "superseded"]
    BY ForeignTypes
  <1>2. retained' = retained
    BY <1>1 DEF storeVars
  <1>3. \A x : x = [type |-> "superseded"] => x.type # "response"
    OBVIOUS
  <1>4. QED BY <1>1, <1>2, <1>3, CalmFlows

\* A crash makes nothing up.
LEMMA CrashFlows ==
  ASSUME Types, DaemonCrash, UNCHANGED handleVars
  PROVE  Flows /\ Drains /\ ran' = ran
  <1>1. /\ retained' = <<>> /\ running' = {} /\ due' = Emptied(due, Channels)
        /\ toServer' = Emptied(toServer, Channels) /\ UNCHANGED <<toClient, ran, done>>
    BY DEF DaemonCrash
  <1>2. \A d \in Channels : due'[d] = <<>> /\ toServer'[d] = <<>>
    BY <1>1 DEF Emptied
  <1>3. Range(retained') = {}
    BY <1>1, Nothing
  <1>4. QED BY <1>1, <1>2, <1>3, CalmFlows

\* A dropped connection makes nothing up.
LEMMA DropFlows ==
  ASSUME Types, NEW c \in Channels, AttachDeadline(c) \/ DropSuperseded(c) \/ ServerNoticesClose(c),
         UNCHANGED handleVars
  PROVE  Flows /\ Drains /\ ran' = ran
  <1>1. Forget({c}) /\ toClient' = toClient /\ UNCHANGED <<storeVars, epoch, running, ran, done>>
    BY DropTypes
  <1>2. \A d \in Channels : due'[d] \in {due[d], <<>>} /\ toServer'[d] \in {toServer[d], <<>>}
    BY <1>1 DEF Forget, Emptied
  <1>3. retained' = retained
    BY <1>1 DEF storeVars
  <1>4. QED BY <1>1, <1>2, <1>3, CalmFlows

\* A broken channel makes nothing up.
LEMMA CutFlows ==
  ASSUME Types, NEW c \in Channels, BreakChannel(c)
  PROVE  Flows /\ Drains /\ ran' = ran
  <1>1. UNCHANGED <<toClient, toServer>> /\ UNCHANGED <<storeVars, hostVars>> /\ UNCHANGED handleVars
    BY DEF BreakChannel, Cut
  <1>2. UNCHANGED <<due, running, ran, done, retained>>
    BY <1>1 DEF hostVars, storeVars
  <1>3. QED BY <1>1, <1>2, CalmFlows

\* The daemon's steps: all but a dispatch leave ran alone.
LEMMA DaemonStepFlows ==
  ASSUME Types, DaemonStep, UNCHANGED handleVars
  PROVE  Flows /\ Drains /\ (ran' = ran \/ \E c \in Channels : ServerReceive(c))
  <1>1. ASSUME NEW c \in Channels, ServerReceive(c) PROVE Flows /\ Drains
    BY <1>1, ReceiveFlows
  <1>2. ASSUME NEW c \in Channels, RunImmediates(c) PROVE Flows /\ Drains /\ ran' = ran
    BY <1>2, ImmediateFlows
  <1>3. ASSUME NEW c \in Channels, AttachDeadline(c) \/ DropSuperseded(c) \/ ServerNoticesClose(c)
        PROVE  Flows /\ Drains /\ ran' = ran
    BY <1>3, DropFlows
  <1>4. ASSUME NEW w \in running, Finish(w) PROVE Flows /\ Drains /\ ran' = ran
    BY <1>4, FinishFlows
  <1>5. ASSUME NEW c, NEW e \in Events, NEW size \in FrameSizes, PushThrough(c, e, size)
        PROVE  Flows /\ Drains /\ ran' = ran
    BY <1>5, PushedFlows
  <1>6. CASE PushFails \/ SettlementAgesOut
    BY <1>6, JournalStepFlows
  <1>7. CASE ForeignAttach \/ ForeignLeaves
    BY <1>7, ForeignFlows
  <1>8. CASE DaemonCrash
    BY <1>8, CrashFlows
  <1>9. QED BY <1>1, <1>2, <1>3, <1>4, <1>5, <1>6, <1>7, <1>8 DEF DaemonStep, SessionPush, HandlerPush

\* A step of the shell that dispatches nothing.
LEMMA ShellFlows ==
  ASSUME Types, Drains, UNCHANGED <<retained, due, running, ran, done>>,
         \A d \in Channels : \A x \in Range(toClient'[d]) : x.type = "response" => x \in Range(toClient[d]),
         \A i \in MyInvokes : h'.wire[i] = h.wire[i] /\ (h'.owned[i] = "new" <=> h.owned[i] = "new"),
         \A d \in Channels : h'.rpc[d].pending \subseteq h.rpc[d].pending /\ h'.rpc[d].nextId = h.rpc[d].nextId
  PROVE  Flows
  <1>1. \A id \in CallId, i \in MyInvokes : Waits(id, i)' => Waits(id, i)
    BY DEF Waits
  <1>2. \A id \in CallId, i \in MyInvokes : Runs(id, i)' => Runs(id, i)
    BY DEF Runs
  <1>3. \A d \in Channels : \A x \in Range(toClient'[d]) : x.type = "response" => Kept(x.id, x.inv)
    BY Keeps
  <1>4. \A id \in CallId, i \in MyInvokes : Answered(id, i)' => Kept(id, i)
    BY <1>3, Keeps, AnswersFlow
  <1>5. /\ \A i \in MyInvokes : ran[i] \in Nat
        /\ \A d \in Channels : h.rpc[d].nextId \in Nat
    BY HostFacts, Callers DEF HandleRecord, ClientRecord
  <1>6. \A i \in MyInvokes : ran[i] <= ran'[i]
    BY <1>5
  <1>7. \A d \in Channels : h.rpc[d].nextId <= h'.rpc[d].nextId
    BY <1>5
  <1>8. QED BY <1>1, <1>2, <1>4, <1>6, <1>7, DrainsAsked DEF Flows

\* A quiet step makes nothing up.
LEMMA QuietFlows ==
  ASSUME Types, QuietStep, UNCHANGED <<storeVars, hostVars>>
  PROVE  Flows /\ Drains
  <1> DEFINE closing == {c \in Channels : h.rpc[c].open /\ ~h'.rpc[c].open}
  <1>1. toClient' = Emptied(toClient, closing) /\ toServer' = toServer /\ Quiet(h, h')
    BY DEF QuietStep, Becomes
  <1> HIDE DEF closing
  <1>2. Drains
    BY <1>1, StaysDrained
  <1>3. \A d \in Channels : toClient'[d] \in {toClient[d], <<>>}
    BY <1>1 DEF Emptied
  <1>4. \A d \in Channels : \A x \in Range(toClient'[d]) : x \in Range(toClient[d])
    <2> TAKE d \in Channels
    <2>1. toClient'[d] = toClient[d] \/ toClient'[d] = <<>>
      BY <1>3
    <2>2. QED BY <2>1, Nothing
  <1>5. \A i \in MyInvokes : h'.wire[i] = h.wire[i] /\ (h'.owned[i] = "new" <=> h.owned[i] = "new")
    BY <1>1 DEF Quiet, MaySettle
  <1>6. \A d \in Channels : h'.rpc[d].pending \subseteq h.rpc[d].pending /\ h'.rpc[d].nextId = h.rpc[d].nextId
    BY <1>1 DEF Quiet, SameClient
  <1>7. UNCHANGED <<retained, due, running, ran, done>>
    BY DEF storeVars, hostVars
  <1>8. QED BY <1>2, <1>4, <1>5, <1>6, <1>7, ShellFlows

\* A message is taken off the channel, and at most an attach request is written.
LEMMA ReadFlows ==
  ASSUME Types, NEW c \in Channels, toClient[c] # <<>>, toClient' = [toClient EXCEPT ![c] = Tail(@)],
         UNCHANGED <<storeVars, hostVars>>, Drains,
         \A i \in MyInvokes : h'.wire[i] = h.wire[i] /\ (h'.owned[i] = "new" <=> h.owned[i] = "new"),
         \A d \in Channels : h'.rpc[d].pending \subseteq h.rpc[d].pending /\ h'.rpc[d].nextId = h.rpc[d].nextId
  PROVE  Flows
  <1>1. \A d \in Channels : Range(toClient'[d]) \subseteq Range(toClient[d])
    <2>1. toClient \in [Channels -> Seq(ToClientMessage)]
      BY HostFacts
    <2>2. Range(toClient[c]) = Range(Tail(toClient[c])) \cup {Head(toClient[c])}
      BY <2>1, Takes
    <2>3. toClient'[c] = Tail(toClient[c]) /\ \A d \in Channels : d # c => toClient'[d] = toClient[d]
      BY <2>1
    <2>4. QED BY <2>2, <2>3
  <1>2. UNCHANGED <<retained, due, running, ran, done>>
    BY DEF storeVars, hostVars
  <1>3. QED BY <1>1, <1>2, ShellFlows

\* A message the shell reads makes nothing up.
LEMMA ReadsFlows ==
  ASSUME Types, NEW c \in Channels, Reads(c), UNCHANGED <<storeVars, hostVars>>
  PROVE  Flows /\ Drains
  <1> DEFINE m == Head(toClient[c])
  <1>1. h.rpc[c].open /\ toClient[c] # <<>> /\ h \in HandleRecord
    BY HostFacts DEF Reads
  <1>2. CASE m.type = "hello" /\ ReceiveHello(c)
    <2> DEFINE q == AttachRequest
    <2>1. PICK a \in Attempts :
            /\ h' = [h EXCEPT !.attempt[a].pc = "attaching"]
            /\ toServer' = Written(toServer, OnlyTo(c, <<q>>))
            /\ toClient' = [toClient EXCEPT ![c] = Tail(@)]
      BY <1>2 DEF ReceiveHello
    <2>2. h'.wire = h.wire /\ h'.owned = h.owned /\ h'.rpc = h.rpc
      BY <1>1, <2>1 DEF HandleRecord
    <2>3. q.type = "attach"
      BY DEF AttachRequest
    <2> HIDE DEF q
    <2>4. toServer \in [Channels -> Seq(ToServerMessage)]
      BY HostFacts
    <2>5. Drains
      <3> SUFFICES ASSUME NEW d \in Channels PROVE Drained(toServer[d], toServer'[d])
        BY DEF Drains
      <3>0. toServer[d] \in Seq(ToServerMessage)
        BY <2>4
      <3>1. CASE d = c /\ link[c] = "up"
        <4> DEFINE r == <<q>>
        <4>1. toServer' = Written(toServer, OnlyTo(c, r))
          BY <2>1
        <4> HIDE DEF r
        <4>2. toServer'[c] = Joined(toServer[c], r)
          BY <3>1, <4>1, WritesHere
        <4>3. DrainedJoin(toServer[c], q)
          BY <2>3, <3>0, <3>1, JoinDrains
        <4>4. QED BY <3>1, <4>2, <4>3 DEF r, DrainedJoin
      <3>2. CASE ~(d = c /\ link[c] = "up")
        <4> DEFINE r == <<q>>
        <4>1. toServer' = Written(toServer, OnlyTo(c, r))
          BY <2>1
        <4> HIDE DEF r
        <4>2. Written(toServer, OnlyTo(c, r))[d] = toServer[d]
          <5>1. d # c \/ link[d] # "up"
            BY <3>2
          <5>2. QED BY <2>4, <5>1, WritesOther
        <4>3. QED BY <3>0, <4>1, <4>2, Drainings
      <3>3. QED BY <3>1, <3>2
    <2>6. QED BY <1>1, <2>1, <2>2, <2>5, ReadFlows
  <1>3. CASE m.type = "attached" /\ ReceiveAttached(c, m)
    <2>1. PICK a \in Attempts :
            /\ h' = [h EXCEPT !.attempt[a].pc = "reconciling", !.attempt[a].result = m]
            /\ toClient' = [toClient EXCEPT ![c] = Tail(@)] /\ toServer' = toServer
      BY <1>3 DEF ReceiveAttached
    <2>2. h'.wire = h.wire /\ h'.owned = h.owned /\ h'.rpc = h.rpc
      BY <1>1, <2>1 DEF HandleRecord
    <2>3. Drains
      BY <2>1, StaysDrained
    <2>4. QED BY <1>1, <2>1, <2>2, <2>3, ReadFlows
  <1>4. CASE m.type = "push" /\ ReceivePush(c, m)
    <2>1. /\ h' = [h EXCEPT !.rpc = h'.rpc, !.lastSeq = h'.lastSeq]
          /\ \A d \in Channels : h'.rpc[d].nextId = h.rpc[d].nextId /\ h'.rpc[d].pending = h.rpc[d].pending
      BY <1>1, <1>4, PushTypes
    <2>2. h'.wire = h.wire /\ h'.owned = h.owned
      BY <1>1, <2>1 DEF HandleRecord
    <2>3. toClient' = [toClient EXCEPT ![c] = Tail(@)] /\ toServer' = toServer
      BY <1>4 DEF ReceivePush
    <2>4. Drains
      BY <2>3, StaysDrained
    <2>5. QED BY <1>1, <2>1, <2>2, <2>3, <2>4, ReadFlows
  <1>5. CASE m.type = "response" /\ ReceiveResponse(c, m)
    <2>1. /\ h' = [h EXCEPT !.rpc = h'.rpc, !.owned = h'.owned]
          /\ \A d \in Channels : /\ h'.rpc[d].nextId = h.rpc[d].nextId
                                 /\ h'.rpc[d].pending \subseteq h.rpc[d].pending
          /\ \A i \in MyInvokes : h'.owned[i] = h.owned[i] \/ (h.owned[i] = "owned" /\ h'.owned[i] = "ok")
      BY <1>1, <1>5, ResponseTypes
    <2>2. h'.wire = h.wire
      BY <1>1, <2>1 DEF HandleRecord
    <2>3. toClient' = [toClient EXCEPT ![c] = Tail(@)] /\ toServer' = toServer
      BY <1>5 DEF ReceiveResponse
    <2>4. Drains
      BY <2>3, StaysDrained
    <2>5. QED BY <1>1, <2>1, <2>2, <2>3, <2>4, ReadFlows
  <1>6. CASE m.type = "superseded" /\ ReceiveSuperseded(c)
    <2>1. Quiet(h, h') /\ h'.rpc = h.rpc
      BY <1>1, <1>6, SupersededTypes
    <2>2. \A i \in MyInvokes : h'.wire[i] = h.wire[i] /\ (h'.owned[i] = "new" <=> h.owned[i] = "new")
      BY <2>1 DEF Quiet, MaySettle
    <2>3. toClient' = [toClient EXCEPT ![c] = Tail(@)] /\ toServer' = toServer
      BY <1>6 DEF ReceiveSuperseded
    <2>4. Drains
      BY <2>3, StaysDrained
    <2>5. QED BY <1>1, <2>1, <2>2, <2>3, <2>4, ReadFlows
  <1>7. QED BY <1>2, <1>3, <1>4, <1>5, <1>6 DEF Reads

\* An opening channel makes nothing up.
LEMMA ConnectFlows ==
  ASSUME Types, NEW a \in Attempts, NEW c \in Channels, Connect(a, c)
  PROVE  Flows /\ Drains /\ ran' = ran
  <1>1. /\ h' = [h EXCEPT !.attempt = h'.attempt, !.client = c, !.rpc = h'.rpc]
        /\ h'.rpc[c] = [Unused EXCEPT !.open = TRUE, !.seq = h.lastSeq]
        /\ \A d \in Channels : d # c => h'.rpc[d] = h.rpc[d]
    BY ConnectTypes
  <1>2. /\ link[c] = "unused"
        /\ toClient' = [toClient EXCEPT ![c] = <<[type |-> "hello"]>>]
        /\ UNCHANGED <<storeVars, toServer, epoch, active, doomed, due, running, ran, done>>
    BY DEF Connect, ChannelOpens, Accept
  <1>3. h'.wire = h.wire /\ h'.owned = h.owned
    BY <1>1, HostFacts DEF HandleRecord
  <1>4. h'.rpc[c].pending = h.rpc[c].pending /\ h'.rpc[c].nextId = h.rpc[c].nextId
    <2>1. h'.rpc[c].pending = {} /\ h'.rpc[c].nextId = 0
      BY <1>1 DEF Unused
    <2>2. QED BY <1>2, <2>1, ChannelFacts
  <1>5. \A d \in Channels : h'.rpc[d].pending \subseteq h.rpc[d].pending /\ h'.rpc[d].nextId = h.rpc[d].nextId
    BY <1>1, <1>4
  <1>6. Drains
    BY <1>2, StaysDrained
  <1>7. \A d \in Channels : \A x \in Range(toClient'[d]) : x.type = "response" => x \in Range(toClient[d])
    <2> DEFINE hello == [type |-> "hello"]
    <2>1. Range(<<hello>>) = {hello}
      BY DEF Range
    <2>2. hello.type # "response"
      OBVIOUS
    <2>3. toClient'[c] = <<hello>> /\ \A d \in Channels : d # c => toClient'[d] = toClient[d]
      BY <1>2, HostFacts
    <2> HIDE DEF hello
    <2>4. QED BY <2>1, <2>2, <2>3
  <1>8. retained' = retained
    BY <1>2 DEF storeVars
  <1>9. QED BY <1>2, <1>3, <1>5, <1>6, <1>7, <1>8, ShellFlows

----------------------------------------------------------------------------
(* Ids name one invoke, and a mutation is asked for once.                  *)

\* The inductive invariant of the calls.
CallsInv == TagInv /\ CallInv /\ MutationInv

\* A step that makes nothing up keeps TagInv and CallInv.
LEMMA FlowsKeep ==
  ASSUME Types, Types', TagInv, CallInv, Flows
  PROVE  TagInv' /\ CallInv'
  <1>1. ASSUME NEW id \in CallId, NEW i \in MyInvokes, Tagged(id, i)' PROVE Tagged(id, i)
    BY <1>1 DEF Flows, Tagged, Kept
  <1>2. \A id \in CallId : /\ id.ch \in Channels /\ id.n \in Nat
                           /\ h.rpc[id.ch].nextId \in Nat /\ h.rpc[id.ch].nextId <= h'.rpc[id.ch].nextId
    BY HostFacts DEF CallId, HandleRecord, ClientRecord, Flows
  <1>3. TagInv'
    <2> SUFFICES ASSUME NEW i \in MyInvokes, NEW id \in CallId, Tagged(id, i)'
                 PROVE  /\ id.n <= h'.rpc[id.ch].nextId
                        /\ \A j \in MyInvokes : Tagged(id, j)' => i = j
      BY DEF TagInv
    <2>1. id.n <= h.rpc[id.ch].nextId /\ \A j \in MyInvokes : Tagged(id, j) => i = j
      BY <1>1 DEF TagInv
    <2>2. h'.rpc[id.ch].nextId \in Nat
      BY <1>2 DEF Types, HandleRecord, ClientRecord
    <2>4. \A j \in MyInvokes : Tagged(id, j)' => i = j
      BY <1>1, <2>1
    <2>5. id.n <= h'.rpc[id.ch].nextId
      BY <1>2, <2>1, <2>2
    <2>6. QED BY <2>4, <2>5
  <1>4. CallInv'
    <2>1. \A i \in MyInvokes : h'.owned[i] = "new" => h'.wire[i] = NoWire
      BY DEF CallInv, Flows
    <2>2. ASSUME NEW i \in MyInvokes, NEW id \in CallId
          PROVE  /\ Asked(id, i)' => h'.owned[i] # "new"
                 /\ Runs(id, i)' => ran'[i] > 0
                 /\ Answered(id, i)' => i \in done'
      <3>1. Asked(id, i)' => h'.owned[i] # "new"
        BY DEF CallInv, Flows
      <3>2. Runs(id, i)' => ran'[i] > 0
        <4>1. CASE Runs(id, i)
          <5>1. ran[i] \in Nat /\ ran[i] > 0 /\ ran[i] <= ran'[i]
            BY <4>1, HostFacts, Callers DEF CallInv, Flows
          <5>2. ran'[i] \in Nat
            BY Callers DEF Types, HostTypes
          <5>3. QED BY <5>1, <5>2
        <4>2. CASE ~Runs(id, i)
          BY <4>2 DEF Flows
        <4>3. QED BY <4>1, <4>2
      <3>3. Answered(id, i)' => i \in done'
        BY DEF CallInv, Flows, Kept
      <3>4. QED BY <3>1, <3>2, <3>3
    <2>3. QED BY <2>1, <2>2 DEF CallInv
  <1>5. QED BY <1>3, <1>4

\* A step that makes nothing up and asks for nothing keeps MutationInv.
LEMMA DrainsKeep ==
  ASSUME Types, Types', MutationInv, Flows, Drains, ran' = ran
  PROVE  MutationInv'
  <1> SUFFICES ASSUME NEW i \in Mutations
               PROVE  /\ ran'[i] <= 1
                      /\ \A c \in Channels : \A k \in DOMAIN toServer'[c] :
                           Request(i, c, k)' =>
                             /\ ran'[i] = 0 /\ h'.wire[i] # NoWire
                             /\ \A d \in Channels : \A l \in DOMAIN toServer'[d] :
                                  Request(i, d, l)' => c = d /\ k = l
                      /\ h'.wire[i] = NoWire => ran'[i] = 0
    BY DEF MutationInv
  <1>1. i \in MyInvokes /\ h'.wire[i] = h.wire[i]
    BY Callers DEF Flows
  <1>2. \A c \in Channels : DOMAIN toServer'[c] \subseteq Int
    BY DEF Types, WireTypes
  <1>3. ASSUME NEW c \in Channels, NEW k \in DOMAIN toServer'[c], Request(i, c, k)',
               NEW d \in Channels, NEW l \in DOMAIN toServer'[d], Request(i, d, l)'
        PROVE  ran[i] = 0 /\ h.wire[i] # NoWire /\ c = d /\ k = l
    <2>1. PICK o \in {0, 1} : \A x \in DOMAIN toServer'[c] : toServer'[c][x].type = "invoke" =>
                                x + o \in DOMAIN toServer[c] /\ toServer'[c][x] = toServer[c][x + o]
      BY DEF Drains, Drained
    <2>2. PICK p \in {0, 1} : \A x \in DOMAIN toServer'[d] : toServer'[d][x].type = "invoke" =>
                                x + p \in DOMAIN toServer[d] /\ toServer'[d][x] = toServer[d][x + p]
      BY DEF Drains, Drained
    <2>3. k + o \in DOMAIN toServer[c] /\ Request(i, c, k + o)
      BY <1>3, <2>1 DEF Request
    <2>4. l + p \in DOMAIN toServer[d] /\ Request(i, d, l + p)
      BY <1>3, <2>2 DEF Request
    <2>5. ran[i] = 0 /\ h.wire[i] # NoWire /\ c = d
      BY <2>3, <2>4 DEF MutationInv
    <2>6. l + o \in DOMAIN toServer[c] /\ Request(i, c, l + o)
      BY <1>3, <2>1, <2>5 DEF Request
    <2>7. k + o = l + o
      BY <2>3, <2>6 DEF MutationInv
    <2>8. k \in Int /\ l \in Int
      BY <1>2
    <2>9. QED BY <2>5, <2>7, <2>8
  <1>4. QED BY <1>1, <1>3 DEF MutationInv

\* A request that is dispatched: it was the only one of its mutation.
LEMMA DispatchKeeps ==
  ASSUME Types, Types', CallsInv, NEW c \in Channels, ServerReceive(c), UNCHANGED handleVars
  PROVE  MutationInv'
  <1> DEFINE m == Head(toServer[c])
  <1>1. /\ toServer[c] # <<>> /\ toServer' = [toServer EXCEPT ![c] = Tail(@)]
        /\ \/ m.type = "attach" /\ (ServeAttach(c, m) \/ RefuseAttach(c, m))
           \/ m.type = "invoke" /\ DispatchInvoke(c, m)
    BY DEF ServerReceive
  <1>2. Flows /\ Drains
    BY ReceiveFlows
  <1>3. CASE m.type = "attach"
    <2>1. ran' = ran
      BY <1>1, <1>3 DEF ServeAttach, RefuseAttach
    <2>2. QED BY <1>2, <2>1, DrainsKeep DEF CallsInv
  <1>4. CASE m.type = "invoke"
    <2>1. ran' = [ran EXCEPT ![m.inv] = @ + 1]
      BY <1>1, <1>4 DEF DispatchInvoke
    <2>2. m \in ToServerMessage /\ m.inv \in MyInvokes
      <3>1. m \in ToServerMessage
        BY <1>1, HostFacts, Takes
      <3>2. m \in InvokeMessages
        BY <1>4, <3>1, Kinds
      <3>3. QED BY <3>1, <3>2 DEF InvokeMessages
    <2>3. toServer[c] \in Seq(ToServerMessage) /\ 1 \in DOMAIN toServer[c] /\ m = toServer[c][1]
      <3>1. toServer[c] \in Seq(ToServerMessage)
        BY HostFacts
      <3>2. QED BY <1>1, <3>1
    <2>4. toServer'[c] = Tail(toServer[c]) /\ \A d \in Channels : d # c => toServer'[d] = toServer[d]
      BY <1>1, HostFacts
    <2>5. \A k \in DOMAIN toServer'[c] : k \in Nat \ {0} /\ k + 1 \in DOMAIN toServer[c] /\ toServer'[c][k] = toServer[c][k + 1]
      <3>1. \A k \in DOMAIN Tail(toServer[c]) : k \in Nat \ {0} /\ k + 1 \in DOMAIN toServer[c] /\ Tail(toServer[c])[k] = toServer[c][k + 1]
        BY <1>1, <2>3, Takes
      <3>2. QED BY <2>4, <3>1
    <2> HIDE DEF m
    <2>6. Request(m.inv, c, 1)
      BY <1>4, <2>3 DEF Request
    <2>7. \A i \in MyInvokes : ran'[i] = IF i = m.inv THEN ran[i] + 1 ELSE ran[i]
      BY <2>1, <2>2, HostFacts, Callers
    <2>8. \A i \in MyInvokes : h'.wire[i] = h.wire[i]
      BY <1>2 DEF Flows
    <2> SUFFICES ASSUME NEW i \in Mutations
                 PROVE  /\ ran'[i] <= 1
                        /\ \A d \in Channels : \A k \in DOMAIN toServer'[d] :
                             Request(i, d, k)' =>
                               /\ ran'[i] = 0 /\ h'.wire[i] # NoWire
                               /\ \A e \in Channels : \A l \in DOMAIN toServer'[e] :
                                    Request(i, e, l)' => d = e /\ k = l
                        /\ h'.wire[i] = NoWire => ran'[i] = 0
      BY DEF MutationInv
    <2>9. i \in MyInvokes /\ MutationInv
      BY Callers DEF CallsInv
    <2>10. ASSUME NEW d \in Channels, NEW k \in DOMAIN toServer'[d], Request(i, d, k)'
           PROVE  \E x \in DOMAIN toServer[d] : /\ Request(i, d, x) /\ (d = c => x = k + 1 /\ x # 1)
                                               /\ (d # c => x = k)
      <3>1. CASE d = c
        BY <2>5, <2>10, <3>1 DEF Request
      <3>2. CASE d # c
        BY <2>4, <2>10, <3>2 DEF Request
      <3>3. QED BY <3>1, <3>2
    <2>11. CASE i = m.inv
      <3>1. ran[i] = 0 /\ h.wire[i] # NoWire
        BY <2>3, <2>6, <2>9, <2>11 DEF MutationInv
      <3>2. ran'[i] = 1
        BY <2>7, <2>9, <2>11, <3>1
      <3>3. ASSUME NEW d \in Channels, NEW k \in DOMAIN toServer'[d], Request(i, d, k)' PROVE FALSE
        <4>1. PICK x \in DOMAIN toServer[d] : Request(i, d, x) /\ (d = c => x # 1)
          BY <2>10, <3>3
        <4>2. d = c /\ x = 1
          BY <2>3, <2>6, <2>9, <2>11, <4>1 DEF MutationInv
        <4>3. QED BY <4>1, <4>2
      <3>4. QED BY <2>8, <2>9, <3>1, <3>2, <3>3
    <2>12. CASE i # m.inv
      <3>1. ran'[i] = ran[i]
        BY <2>7, <2>9, <2>12
      <3>2. ASSUME NEW d \in Channels, NEW k \in DOMAIN toServer'[d], Request(i, d, k)',
                   NEW e \in Channels, NEW l \in DOMAIN toServer'[e], Request(i, e, l)'
            PROVE  ran[i] = 0 /\ h.wire[i] # NoWire /\ d = e /\ k = l
        <4>1. PICK x \in DOMAIN toServer[d] : Request(i, d, x) /\ (d = c => x = k + 1) /\ (d # c => x = k)
          BY <2>10, <3>2
        <4>2. PICK y \in DOMAIN toServer[e] : Request(i, e, y) /\ (e = c => y = l + 1) /\ (e # c => y = l)
          BY <2>10, <3>2
        <4>3. ran[i] = 0 /\ h.wire[i] # NoWire /\ d = e /\ x = y
          BY <2>9, <4>1, <4>2 DEF MutationInv
        <4>4. d = c => k \in Nat /\ l \in Nat
          BY <2>5, <4>3
        <4>5. QED BY <4>1, <4>2, <4>3, <4>4
      <3>3. QED BY <2>8, <2>9, <3>1, <3>2 DEF MutationInv
    <2>13. QED BY <2>11, <2>12
  <1>5. QED BY <1>1, <1>3, <1>4

\* Where a message of a longer queue is from.
LEMMA JoinedAt ==
  ASSUME NEW S, NEW q \in Seq(S), NEW r \in Seq(S), NEW k \in DOMAIN Joined(q, r)
  PROVE  /\ k \in Int /\ Len(q) \in Nat
         /\ \/ k \in DOMAIN q /\ Joined(q, r)[k] = q[k]
            \/ k - Len(q) \in DOMAIN r /\ Joined(q, r)[k] = r[k - Len(q)]
  <1>1. /\ Len(q) \in Nat /\ Len(r) \in Nat /\ DOMAIN q = 1 .. Len(q) /\ DOMAIN r = 1 .. Len(r)
        /\ DOMAIN (q \o r) = 1 .. Len(q) + Len(r)
        /\ \A x \in 1 .. Len(q) + Len(r) : (q \o r)[x] = IF x <= Len(q) THEN q[x] ELSE r[x - Len(q)]
    OBVIOUS
  <1>2. k \in 1 .. Len(q) + Len(r) /\ Joined(q, r)[k] = IF k <= Len(q) THEN q[k] ELSE r[k - Len(q)]
    BY <1>1 DEF Joined
  <1>3. QED BY <1>1, <1>2

\* The invokes is are asked for, each under an id of its own.
LEMMA CallsKeep ==
  ASSUME Types, CallsInv, NEW is, NEW q, Calls(is, q), UNCHANGED <<storeVars, hostVars>>,
         \A i \in is : h'.owned[i] # "new" /\ (i \in Mutations => h.wire[i] = NoWire),
         \A i \in MyInvokes \ is : h'.owned[i] = "new" <=> h.owned[i] = "new"
  PROVE  CallsInv'
  <1>1. /\ is \in SUBSET MyInvokes /\ q \in Seq(InvokeMessages) /\ (~Up => q = <<>>)
        /\ \A d \in Channels :
             toServer'[d] = IF Up /\ d = h.client /\ link[d] = "up" THEN Joined(toServer[d], q) ELSE toServer[d]
        /\ toClient' = toClient
        /\ \A k \in DOMAIN q : q[k].type = "invoke" /\ q[k].inv \in is /\ q[k].id = h'.wire[q[k].inv]
        /\ \A k, l \in DOMAIN q : q[k].inv = q[l].inv => k = l
        /\ \A i \in MyInvokes \ is : h'.wire[i] = h.wire[i]
        /\ ~Up => \A i \in is : h'.wire[i] \in {NoWire, h.wire[i]}
    BY DEF Calls
  <1>2. Up => \A i \in is :
          /\ h'.wire[i] \in CallId /\ h'.wire[i].ch = h.client
          /\ h'.wire[i].n > h.rpc[h.client].nextId /\ h'.wire[i].n <= h'.rpc[h.client].nextId
          /\ \A j \in is : h'.wire[i] = h'.wire[j] => i = j
    BY DEF Calls
  <1>3. \A d \in Channels :
          /\ h.rpc[d].nextId <= h'.rpc[d].nextId
          /\ \A p \in h'.rpc[d].pending \ h.rpc[d].pending :
               d = h.client /\ h.rpc[d].open /\ p.inv \in MyInvokes /\ p.id = h'.wire[p.inv]
    BY DEF Calls
  <1>4. /\ \A d \in Channels : h.rpc[d].nextId \in Nat /\ h'.rpc[d].nextId \in Nat
        /\ h.client \in Channels \cup {None}
    BY HostFacts DEF Calls, HandleRecord, ClientRecord
  <1>5. NoWire \notin CallId
    BY DEF NoWire, CallId
  <1>6. UNCHANGED <<retained, due, running, ran, done>>
    BY DEF storeVars, hostVars
  <1>7. ASSUME Up PROVE h.client \in Channels
    BY <1>4, <1>7 DEF Up
  <1>8. \A d \in Channels : toServer[d] \in Seq(ToServerMessage) /\ q \in Seq(ToServerMessage)
    <2>1. InvokeMessages \subseteq ToServerMessage
      BY DEF ToServerMessage
    <2>2. QED BY <1>1, <2>1, HostFacts
  <1> DEFINE New(id, i) == Up /\ i \in is /\ id = h'.wire[i]
  <1> HIDE DEF Calls
  <1>9. ASSUME NEW id \in CallId, NEW i \in MyInvokes, h'.wire[i] = id
        PROVE  Tagged(id, i) \/ New(id, i)
    <2>1. CASE Up /\ i \in is
      BY <1>9, <2>1
    <2>2. CASE ~(Up /\ i \in is)
      <3>1. h.wire[i] = id
        BY <1>1, <1>5, <1>9, <2>2
      <3>2. QED BY <3>1 DEF Tagged, Waits
    <2>3. QED BY <2>1, <2>2
  <1>10. ASSUME NEW id \in CallId, NEW i \in MyInvokes, Asked(id, i)'
         PROVE  Asked(id, i) \/ New(id, i)
    <2>1. PICK d \in Channels : Asks(toServer'[d], id, i)
      BY <1>10 DEF Asked
    <2>2. PICK k \in DOMAIN toServer'[d] :
            toServer'[d][k].type = "invoke" /\ toServer'[d][k].id = id /\ toServer'[d][k].inv = i
      BY <2>1 DEF Asks, Range
    <2>3. CASE toServer'[d] = toServer[d]
      BY <2>1, <2>3 DEF Asked
    <2>4. CASE toServer'[d] # toServer[d]
      <3>1. toServer'[d] = Joined(toServer[d], q) /\ Up
        BY <1>1, <2>4
      <3>2. \/ k \in DOMAIN toServer[d] /\ toServer'[d][k] = toServer[d][k]
            \/ k - Len(toServer[d]) \in DOMAIN q /\ toServer'[d][k] = q[k - Len(toServer[d])]
        BY <1>8, <3>1, JoinedAt
      <3>3. CASE k \in DOMAIN toServer[d] /\ toServer'[d][k] = toServer[d][k]
        BY <2>2, <3>3 DEF Asked, Asks, Range
      <3>4. CASE k - Len(toServer[d]) \in DOMAIN q /\ toServer'[d][k] = q[k - Len(toServer[d])]
        BY <1>1, <2>2, <3>1, <3>4
      <3>5. QED BY <3>2, <3>3, <3>4
    <2>5. QED BY <2>3, <2>4
  <1>11. ASSUME NEW id \in CallId, NEW i \in MyInvokes, Tagged(id, i)'
         PROVE  Tagged(id, i) \/ New(id, i)
    <2>1. CASE Waits(id, i)'
      <3>1. CASE h'.wire[i] = id
        BY <1>9, <3>1
      <3>2. ASSUME NEW c \in Channels, NEW p \in h'.rpc[c].pending, p.id = id, p.inv = i
            PROVE  Tagged(id, i) \/ New(id, i)
        <4>1. CASE p \in h.rpc[c].pending
          BY <3>2, <4>1 DEF Tagged, Waits
        <4>2. CASE p \notin h.rpc[c].pending
          <5>1. h'.wire[i] = id
            BY <1>3, <3>2, <4>2
          <5>2. QED BY <1>9, <5>1
        <4>3. QED BY <4>1, <4>2
      <3>3. QED BY <2>1, <3>1, <3>2 DEF Waits
    <2>2. CASE Asked(id, i)'
      BY <1>10, <2>2 DEF Tagged
    <2>3. CASE Runs(id, i)' \/ Answered(id, i)'
      <3>1. Runs(id, i) \/ Answered(id, i)
        BY <1>1, <1>6, <2>3 DEF Runs, Answered
      <3>2. QED BY <3>1 DEF Tagged
    <2>4. QED BY <1>11, <2>1, <2>2, <2>3 DEF Tagged
  <1>12. ASSUME NEW id \in CallId, NEW i \in MyInvokes, New(id, i)
         PROVE  /\ id.n <= h'.rpc[id.ch].nextId
                /\ \A j \in MyInvokes : ~Tagged(id, j)
                /\ \A j \in MyInvokes : New(id, j) => i = j
    <2>1. /\ id.ch = h.client /\ id.n > h.rpc[id.ch].nextId /\ id.n <= h'.rpc[id.ch].nextId
          /\ id.n \in Nat /\ id.ch \in Channels
      BY <1>2, <1>7, <1>12 DEF CallId
    <2>2. ~(id.n <= h.rpc[id.ch].nextId)
      BY <1>4, <2>1
    <2>3. \A j \in MyInvokes : ~Tagged(id, j)
      BY <2>2 DEF CallsInv, TagInv
    <2>4. QED BY <1>2, <1>12, <2>1, <2>3
  <1>13. TagInv'
    <2> SUFFICES ASSUME NEW i \in MyInvokes, NEW id \in CallId, Tagged(id, i)'
                 PROVE  /\ id.n <= h'.rpc[id.ch].nextId
                        /\ \A j \in MyInvokes : Tagged(id, j)' => i = j
      BY DEF TagInv
    <2> HIDE DEF New
    <2>1. CASE New(id, i)
      <3>1. \A j \in MyInvokes : Tagged(id, j)' => New(id, j)
        BY <1>11, <1>12, <2>1
      <3>2. QED BY <1>12, <2>1, <3>1
    <2>2. CASE ~New(id, i)
      <3>1. Tagged(id, i)
        BY <1>11, <2>2
      <3>2. id.n <= h.rpc[id.ch].nextId /\ \A j \in MyInvokes : Tagged(id, j) => i = j
        BY <3>1 DEF CallsInv, TagInv
      <3>3. \A j \in MyInvokes : ~New(id, j)
        BY <1>12, <3>1
      <3>4. id.n \in Nat /\ id.ch \in Channels
        BY DEF CallId
      <3>5. id.n <= h'.rpc[id.ch].nextId
        BY <1>3, <1>4, <3>2, <3>4
      <3>6. QED BY <1>11, <3>2, <3>3, <3>5
    <2>3. QED BY <2>1, <2>2
  <1>14. CallInv'
    <2>1. \A i \in MyInvokes : h'.owned[i] = "new" => h'.wire[i] = NoWire
      BY <1>1 DEF CallsInv, CallInv
    <2>2. ASSUME NEW i \in MyInvokes, NEW id \in CallId
          PROVE  /\ Asked(id, i)' => h'.owned[i] # "new"
                 /\ Runs(id, i)' => ran'[i] > 0
                 /\ Answered(id, i)' => i \in done'
      <3>1. Asked(id, i)' => h'.owned[i] # "new"
        BY <1>10 DEF CallsInv, CallInv
      <3>2. (Runs(id, i)' => Runs(id, i)) /\ (Answered(id, i)' => Answered(id, i))
        BY <1>1, <1>6 DEF Runs, Answered
      <3>3. QED BY <1>6, <3>1, <3>2 DEF CallsInv, CallInv
    <2>3. QED BY <2>1, <2>2 DEF CallInv
  <1>15. ASSUME NEW i \in Mutations, NEW d \in Channels, NEW k \in DOMAIN toServer'[d], Request(i, d, k)'
         PROVE  \/ i \notin is /\ k \in DOMAIN toServer[d] /\ Request(i, d, k)
                \/ /\ i \in is /\ Up /\ d = h.client /\ k \in Int /\ Len(toServer[d]) \in Nat
                   /\ k - Len(toServer[d]) \in DOMAIN q /\ q[k - Len(toServer[d])].inv = i
    <2>1. ASSUME NEW x \in DOMAIN toServer[d], Request(i, d, x) PROVE i \notin is
      <3>1. h.wire[i] # NoWire
        BY <2>1 DEF CallsInv, MutationInv
      <3>2. QED BY <3>1
    <2>2. CASE toServer'[d] = toServer[d]
      BY <1>15, <2>1, <2>2 DEF Request
    <2>3. CASE toServer'[d] # toServer[d]
      <3>1. toServer'[d] = Joined(toServer[d], q) /\ Up /\ d = h.client
        BY <1>1, <2>3
      <3>2. /\ k \in Int /\ Len(toServer[d]) \in Nat
            /\ \/ k \in DOMAIN toServer[d] /\ toServer'[d][k] = toServer[d][k]
               \/ k - Len(toServer[d]) \in DOMAIN q /\ toServer'[d][k] = q[k - Len(toServer[d])]
        BY <1>8, <3>1, JoinedAt
      <3>3. CASE k \in DOMAIN toServer[d] /\ toServer'[d][k] = toServer[d][k]
        BY <1>15, <2>1, <3>3 DEF Request
      <3>4. CASE k - Len(toServer[d]) \in DOMAIN q /\ toServer'[d][k] = q[k - Len(toServer[d])]
        BY <1>1, <1>15, <3>1, <3>2, <3>4 DEF Request
      <3>5. QED BY <3>2, <3>3, <3>4
    <2>4. QED BY <2>2, <2>3
  <1>16. MutationInv'
    <2> SUFFICES ASSUME NEW i \in Mutations
                 PROVE  /\ ran'[i] <= 1
                        /\ \A c \in Channels : \A k \in DOMAIN toServer'[c] :
                             Request(i, c, k)' =>
                               /\ ran'[i] = 0 /\ h'.wire[i] # NoWire
                               /\ \A d \in Channels : \A l \in DOMAIN toServer'[d] :
                                    Request(i, d, l)' => c = d /\ k = l
                        /\ h'.wire[i] = NoWire => ran'[i] = 0
      BY DEF MutationInv
    <2>1. i \in MyInvokes /\ MutationInv
      BY Callers DEF CallsInv
    <2>2. CASE i \in is
      <3>1. h.wire[i] = NoWire /\ ran[i] = 0
        BY <2>1, <2>2 DEF MutationInv
      <3>2. ASSUME NEW c \in Channels, NEW k \in DOMAIN toServer'[c], Request(i, c, k)',
                   NEW d \in Channels, NEW l \in DOMAIN toServer'[d], Request(i, d, l)'
            PROVE  h'.wire[i] # NoWire /\ c = d /\ k = l
        <4>1. /\ Up /\ c = h.client /\ k \in Int /\ Len(toServer[c]) \in Nat
              /\ k - Len(toServer[c]) \in DOMAIN q /\ q[k - Len(toServer[c])].inv = i
          BY <1>15, <2>2, <3>2
        <4>2. /\ d = h.client /\ l \in Int
              /\ l - Len(toServer[d]) \in DOMAIN q /\ q[l - Len(toServer[d])].inv = i
          BY <1>15, <2>2, <3>2
        <4>3. k - Len(toServer[c]) = l - Len(toServer[c])
          BY <1>1, <4>1, <4>2
        <4>4. h'.wire[i] # NoWire
          BY <1>2, <1>5, <2>2, <4>1
        <4>5. QED BY <4>1, <4>2, <4>3, <4>4
      <3>3. QED BY <1>6, <3>1, <3>2
    <2>3. CASE i \notin is
      <3>1. h'.wire[i] = h.wire[i]
        BY <1>1, <2>1, <2>3
      <3>2. ASSUME NEW c \in Channels, NEW k \in DOMAIN toServer'[c], Request(i, c, k)'
            PROVE  k \in DOMAIN toServer[c] /\ Request(i, c, k)
        BY <1>15, <2>3, <3>2
      <3>3. QED BY <1>6, <2>1, <3>1, <3>2 DEF MutationInv
    <2>4. QED BY <2>2, <2>3
  <1>17. QED BY <1>13, <1>14, <1>16 DEF CallsInv

\* Making a call, or making again the calls a reattach may make again, keeps
\* the invariant of the calls.
LEMMA InvokeKeeps ==
  ASSUME Types, CallsInv, NEW i \in MyInvokes, Invoke(i), UNCHANGED <<storeVars, hostVars>>
  PROVE  CallsInv'
  <1> DEFINE is == {i}
  <1>1. PICK q : Calls(is, q)
    BY InvokeCalls
  <1>2. /\ h.owned[i] = "new" /\ h'.owned[i] \in {"owned", "failed"}
        /\ \A j \in MyInvokes \ {i} : h'.owned[j] = h.owned[j]
    BY InvokeCalls
  <1>3. h.wire[i] = NoWire
    BY <1>2 DEF CallsInv, CallInv
  <1>4. \A j \in is : h'.owned[j] # "new" /\ (j \in Mutations => h.wire[j] = NoWire)
    BY <1>2, <1>3
  <1>5. \A j \in MyInvokes \ is : h'.owned[j] = "new" <=> h.owned[j] = "new"
    BY <1>2
  <1> HIDE DEF is
  <1>6. QED BY <1>1, <1>4, <1>5, CallsKeep

\* A reattach resends only mutations the daemon never received.
LEMMA ContinueKeeps ==
  ASSUME Types, CallsInv, NEW a \in Attempts, Continue(a), UNCHANGED <<storeVars, hostVars>>
  PROVE  CallsInv'
  <1>1. PICK is : \E q : Reattaches(a, is) /\ Calls(is, q)
    BY ContinueCalls
  <1>2. PICK q : Reattaches(a, is) /\ Calls(is, q)
    BY <1>1
  <1>3. /\ is \subseteq Owned(h) /\ \A i \in is : i \notin Mutations \/ h.wire[i] = NoWire
        /\ \A i \in MyInvokes : MaySettle(h, h', i)
    BY <1>2 DEF Reattaches
  <1>4. \A i \in is : h'.owned[i] # "new" /\ (i \in Mutations => h.wire[i] = NoWire)
    BY <1>3 DEF Owned, MaySettle
  <1>5. \A i \in MyInvokes \ is : h'.owned[i] = "new" <=> h.owned[i] = "new"
    BY <1>3 DEF MaySettle
  <1>6. QED BY <1>2, <1>4, <1>5, CallsKeep

\* What only drains the requests keeps it as well.
LEMMA FlowsCalls ==
  ASSUME Types, Types', CallsInv, Flows, Drains, ran' = ran
  PROVE  CallsInv'
  <1>1. TagInv' /\ CallInv'
    BY FlowsKeep DEF CallsInv
  <1>2. MutationInv'
    BY DrainsKeep DEF CallsInv
  <1>3. QED BY <1>1, <1>2 DEF CallsInv

\* Every step keeps the invariant of the calls.
LEMMA CallsStep ==
  ASSUME Types, CallsInv, [Next]_vars
  PROVE  CallsInv'
  <1>1. Types'
    BY TypesStep
  <1>2. CASE UNCHANGED vars
    <2>1. UNCHANGED <<journalVars, retained, wireVars, hostVars, handleVars>>
      BY <1>2 DEF vars
    <2>2. UNCHANGED <<toClient, toServer, due, running, ran, done, retained>> /\ UNCHANGED handleVars
      BY <2>1 DEF wireVars, hostVars
    <2>3. Flows /\ Drains
      BY <2>2, CalmFlows
    <2>4. QED BY <1>1, <2>2, <2>3, FlowsCalls
  <1>3. ASSUME NEW a \in Attempts, NEW c \in Channels, Connect(a, c) PROVE CallsInv'
    BY <1>1, <1>3, ConnectFlows, FlowsCalls
  <1>4. CASE ShellStep /\ UNCHANGED <<storeVars, hostVars>>
    <2>1. ran' = ran
      BY <1>4 DEF hostVars
    <2>2. CASE QuietStep
      BY <1>1, <1>4, <2>1, <2>2, QuietFlows, FlowsCalls
    <2>3. ASSUME NEW c \in Channels, Reads(c) PROVE CallsInv'
      BY <1>1, <1>4, <2>1, <2>3, ReadsFlows, FlowsCalls
    <2>4. ASSUME NEW i \in MyInvokes, Invoke(i) PROVE CallsInv'
      BY <1>4, <2>4, InvokeKeeps
    <2>5. ASSUME NEW i \in MyInvokes, Age(i) PROVE QuietStep
      BY <2>5, AgeQuiet
    <2>6. ASSUME NEW a \in Attempts, Continue(a) PROVE CallsInv'
      BY <1>4, <2>6, ContinueKeeps
    <2>7. QED BY <1>4, <2>2, <2>3, <2>4, <2>5, <2>6, HostFacts, ShellSteps
  <1>5. CASE DaemonStep /\ UNCHANGED handleVars
    <2>1. Flows /\ Drains /\ (ran' = ran \/ \E c \in Channels : ServerReceive(c))
      BY <1>5, DaemonStepFlows
    <2>2. CASE ran' = ran
      BY <1>1, <2>1, <2>2, FlowsCalls
    <2>3. ASSUME NEW c \in Channels, ServerReceive(c) PROVE CallsInv'
      <3>1. TagInv' /\ CallInv'
        BY <1>1, <2>1, FlowsKeep DEF CallsInv
      <3>2. MutationInv'
        BY <1>1, <1>5, <2>3, DispatchKeeps
      <3>3. QED BY <3>1, <3>2 DEF CallsInv
    <2>4. QED BY <2>1, <2>2, <2>3
  <1>6. ASSUME NEW c \in Channels, BreakChannel(c) PROVE CallsInv'
    BY <1>1, <1>6, CutFlows, FlowsCalls
  <1>7. QED BY <1>2, <1>3, <1>4, <1>5, <1>6 DEF Next

\* The initial states have the invariant of the calls.
LEMMA CallsStart ==
  ASSUME Init
  PROVE  CallsInv
  <1>1. /\ Types /\ \A c \in Channels : toClient[c] = <<>> /\ toServer[c] = <<>> /\ due[c] = <<>>
        /\ running = {} /\ retained = <<>>
    BY InitTypes
  <1>2. /\ \A i \in MyInvokes : h.wire[i] = NoWire
        /\ \A c \in Channels : h.rpc[c].pending = {}
        /\ \A i \in Invokes : ran[i] = 0
    <2>1. InitHandle /\ InitHost
      BY DEF Init
    <2>2. QED BY <2>1 DEF InitHandle, InitHost, Unused
  <1>3. \A id \in CallId : id # NoWire
    BY Callers DEF CallId, NoWire
  <1>4. \A id \in CallId, i \in MyInvokes : ~Tagged(id, i)
    <2>1. Range(<<>>) = {}
      BY Nothing
    <2>2. QED BY <1>1, <1>2, <1>3, <2>1 DEF Tagged, Waits, Asked, Asks, Runs, Answered, Carries
  <1>5. TagInv
    BY <1>4 DEF TagInv
  <1>6. CallInv
    BY <1>2, <1>4 DEF CallInv, Tagged
  <1>7. MutationInv
    <2>1. \A c \in Channels : DOMAIN toServer[c] = {}
      BY <1>1
    <2>2. QED BY <1>2, <2>1, Callers DEF MutationInv
  <1>8. QED BY <1>5, <1>6, <1>7 DEF CallsInv

\* An id names one invoke, a response is of a handler that ran, and a mutation
\* that is in a channel has not been dispatched.
THEOREM CallsInvariant == Spec => []CallsInv
  <1>1. Init => CallsInv
    BY CallsStart
  <1>2. Types /\ CallsInv /\ [Next]_vars => CallsInv'
    BY CallsStep
  <1>3. QED BY <1>1, <1>2, TypesInvariant, PTL DEF Spec

\* MutationAtMostOnce: whatever is cut, parked, retried or reconciled, a
\* mutation's handler is started at most once (RemoteServerHandle.reconcile).
THEOREM MutationOnce == Spec => []MutationAtMostOnce
  <1>1. CallsInv => MutationAtMostOnce
    BY DEF CallsInv, MutationInv, MutationAtMostOnce
  <1>2. QED BY <1>1, CallsInvariant, PTL

----------------------------------------------------------------------------
(* The contract of the callers.                                            *)

\* What the shell may do with the promises it holds.
PromisesMove(n) ==
  /\ n \in [MyInvokes -> Promises]
  /\ \A i \in MyInvokes :
       \/ n[i] = h.owned[i]
       \/ h.owned[i] = "new" /\ n[i] \in {"owned", "failed"}
       \/ h.owned[i] = "owned" /\ n[i] = "ok" /\ i \in done
       \/ h.owned[i] = "owned" /\ n[i] = "failed"
       \/ h.owned[i] = "owned" /\ n[i] = "lost" /\ i \in Mutations

\* Promises that move as they may are a step of the contract.
LEMMA PromisesKept ==
  ASSUME PromisesMove(h'.owned), ran' = ran, done' = done
  PROVE  Contract!Promise
  <1> DEFINE after == h'.owned
  <1>1. after \in [Invokes -> {"new", "owned", "ok", "failed", "lost"}]
    BY Callers DEF PromisesMove, Promises
  <1>2. ASSUME NEW i \in Invokes PROVE Contract!MayBecome(i, after[i])
    BY Callers DEF PromisesMove, Contract!MayBecome
  <1> HIDE DEF after
  <1>3. QED BY <1>1, <1>2 DEF Contract!Promise, after

\* A response that reaches its client is of a handler that finished.
LEMMA AnswerIsDone ==
  ASSUME Types, CallsInv, NEW c \in Channels, h.rpc[c].open, toClient[c] # <<>>,
         NEW m, m = Head(toClient[c]), m \in Responses,
         NEW i \in MyInvokes, \E p \in h.rpc[c].pending : p.id = m.id /\ p.inv = i
  PROVE  i \in done
  <1>1. m.id \in CallId /\ m.inv \in MyInvokes /\ m.type = "response"
    BY DEF Responses
  <1>2. m \in Range(toClient[c])
    BY HostFacts, Takes
  <1>3. Answered(m.id, m.inv) /\ Waits(m.id, i)
    BY <1>1, <1>2 DEF Answered, Carries, Waits
  <1>4. m.inv = i
    BY <1>1, <1>3 DEF CallsInv, TagInv, Tagged
  <1>5. QED BY <1>1, <1>3, <1>4 DEF CallsInv, CallInv

\* Every step of the shell moves promises as they may.
LEMMA ShellPromises ==
  ASSUME Types, CallsInv, ShellStep, UNCHANGED <<storeVars, hostVars>>
  PROVE  PromisesMove(h'.owned)
  <1>1. h' \in HandleRecord /\ h \in HandleRecord
    BY ShellTypes, HostFacts DEF Types
  <1>2. h'.owned \in [MyInvokes -> Promises]
    BY <1>1 DEF HandleRecord
  <1>3. ASSUME \A i \in MyInvokes : MaySettle(h, h', i)
        PROVE  PromisesMove(h'.owned)
    BY <1>2, <1>3 DEF PromisesMove, MaySettle
  <1>4. CASE QuietStep
    BY <1>3, <1>4 DEF QuietStep, Quiet
  <1>5. ASSUME NEW i \in MyInvokes, Age(i) PROVE PromisesMove(h'.owned)
    BY <1>3, <1>5, AgeQuiet DEF QuietStep, Quiet
  <1>6. ASSUME NEW i \in MyInvokes, Invoke(i) PROVE PromisesMove(h'.owned)
    <2>1. /\ h.owned[i] = "new" /\ h'.owned[i] \in {"owned", "failed"}
          /\ \A j \in MyInvokes \ {i} : h'.owned[j] = h.owned[j]
      BY <1>6, InvokeCalls
    <2>2. QED BY <1>2, <2>1 DEF PromisesMove
  <1>7. ASSUME NEW a \in Attempts, Continue(a) PROVE PromisesMove(h'.owned)
    <2>1. \E again, q : Reattaches(a, again) /\ Calls(again, q)
      BY <1>7, ContinueCalls
    <2>2. \A i \in MyInvokes : MaySettle(h, h', i)
      BY <2>1 DEF Reattaches
    <2>3. QED BY <1>3, <2>2
  <1>8. ASSUME NEW c \in Channels, Reads(c) PROVE PromisesMove(h'.owned)
    <2> DEFINE m == Head(toClient[c])
    <2>1. h.rpc[c].open /\ toClient[c] # <<>>
      BY <1>8 DEF Reads
    <2>2. CASE m.type = "hello" /\ ReceiveHello(c)
      <3>1. h'.owned = h.owned
        BY <1>1, <2>2 DEF ReceiveHello, HandleRecord
      <3>2. QED BY <1>2, <3>1 DEF PromisesMove
    <2>3. CASE m.type = "attached" /\ ReceiveAttached(c, m)
      <3>1. PICK a \in Attempts :
              h' = [h EXCEPT !.attempt[a].pc = "reconciling", !.attempt[a].result = m]
        BY <2>3 DEF ReceiveAttached
      <3>2. h'.owned = h.owned
        BY <1>1, <3>1 DEF HandleRecord
      <3>3. QED BY <1>2, <3>2 DEF PromisesMove
    <2>4. CASE m.type = "push" /\ ReceivePush(c, m)
      <3>1. h' = [h EXCEPT !.rpc = h'.rpc, !.lastSeq = h'.lastSeq]
        BY <2>1, <2>4, PushTypes
      <3>2. h'.owned = h.owned
        BY <1>1, <3>1 DEF HandleRecord
      <3>3. QED BY <1>2, <3>2 DEF PromisesMove
    <2>5. CASE m.type = "response" /\ ReceiveResponse(c, m)
      <3>1. /\ m \in Responses
            /\ \A i \in MyInvokes :
                 \/ h'.owned[i] = h.owned[i]
                 \/ /\ h.owned[i] = "owned" /\ h'.owned[i] = "ok"
                    /\ \E p \in h.rpc[c].pending : p.id = m.id /\ p.inv = i
        BY <2>1, <2>5, ResponseTypes
      <3>2. ASSUME NEW i \in MyInvokes, \E p \in h.rpc[c].pending : p.id = m.id /\ p.inv = i
            PROVE  i \in done
        BY <2>1, <3>1, <3>2, AnswerIsDone
      <3>3. QED BY <1>2, <3>1, <3>2 DEF PromisesMove
    <2>6. CASE m.type = "superseded" /\ ReceiveSuperseded(c)
      BY <1>3, <2>1, <2>6, SupersededTypes DEF Quiet
    <2>7. QED BY <1>8, <2>2, <2>3, <2>4, <2>5, <2>6 DEF Reads
  <1>9. QED BY <1>1, <1>4, <1>5, <1>6, <1>7, <1>8, ShellSteps

\* What the daemon does to the handlers is one start, one end, or nothing.
LEMMA DaemonKeepsContract ==
  ASSUME Types, CallsInv, DaemonStep, UNCHANGED handleVars
  PROVE  Contract!Next \/ UNCHANGED <<h, ran, done>>
  <1>0. h' = h
    BY DEF handleVars
  <1>1. ASSUME NEW c \in Channels, ServerReceive(c)
        PROVE  Contract!Next \/ UNCHANGED <<h, ran, done>>
    <2> DEFINE m == Head(toServer[c])
    <2>1. /\ toServer[c] # <<>> /\ done' = done
          /\ \/ m.type = "attach" /\ (ServeAttach(c, m) \/ RefuseAttach(c, m))
             \/ m.type = "invoke" /\ DispatchInvoke(c, m)
      BY <1>1 DEF ServerReceive
    <2>2. CASE m.type = "attach"
      BY <1>0, <2>1, <2>2 DEF ServeAttach, RefuseAttach
    <2>3. CASE m.type = "invoke"
      <3>1. m \in ToServerMessage /\ m \in Range(toServer[c])
        BY <2>1, HostFacts, Takes
      <3>2. m \in InvokeMessages
        BY <2>3, <3>1, Kinds
      <3>3. m.inv \in MyInvokes /\ m.id \in CallId
        BY <3>2 DEF InvokeMessages
      <3>4. ran' = [ran EXCEPT ![m.inv] = @ + 1]
        BY <2>1, <2>3 DEF DispatchInvoke
      <3>5. toServer[c] \in Seq(ToServerMessage)
        BY HostFacts
      <3>6. 1 \in DOMAIN toServer[c] /\ m = toServer[c][1]
        BY <2>1, <3>5
      <3> HIDE DEF m
      <3>7. Asked(m.id, m.inv)
        BY <2>3, <3>1 DEF Asked, Asks
      <3>8. h.owned[m.inv] # "new"
        BY <3>3, <3>7 DEF CallsInv, CallInv
      <3>9. m.inv \in Mutations => ran[m.inv] = 0
        <4>1. Request(m.inv, c, 1)
          BY <2>3, <3>6 DEF Request
        <4>2. QED BY <3>6, <4>1 DEF CallsInv, MutationInv
      <3>10. Contract!Run(m.inv)
        BY <1>0, <2>1, <3>4, <3>8, <3>9 DEF Contract!Run
      <3>11. QED BY <3>3, <3>10, Callers DEF Contract!Next
    <2>4. QED BY <2>1, <2>2, <2>3
  <1>2. ASSUME NEW w \in running, Finish(w)
        PROVE  Contract!Next
    <2>1. w \in Handler
      BY HostFacts
    <2>2. w.id \in CallId /\ w.inv \in MyInvokes
      BY <2>1 DEF Handler
    <2>3. ran[w.inv] > 0
      BY <2>2 DEF CallsInv, CallInv, Runs
    <2>4. Contract!Complete(w.inv)
      BY <1>0, <1>2, <2>3 DEF Finish, Contract!Complete
    <2>5. QED BY <2>2, <2>4, Callers DEF Contract!Next
  <1>3. ASSUME NEW c \in Channels,
               RunImmediates(c) \/ AttachDeadline(c) \/ DropSuperseded(c) \/ ServerNoticesClose(c)
        PROVE  UNCHANGED <<ran, done>>
    BY <1>3 DEF RunImmediates, AttachDeadline, DropSuperseded, ServerNoticesClose, DropConnection
  <1>4. ASSUME NEW c, NEW e \in Events, NEW size \in FrameSizes, PushThrough(c, e, size)
        PROVE  UNCHANGED <<ran, done>>
    BY <1>4 DEF PushThrough, hostVars
  <1>5. PushFails \/ SettlementAgesOut \/ ForeignAttach \/ ForeignLeaves \/ DaemonCrash => UNCHANGED <<ran, done>>
    BY DEF PushFails, SettlementAgesOut, ForeignAttach, ForeignLeaves, DaemonCrash, hostVars
  <1>6. QED BY <1>0, <1>1, <1>2, <1>3, <1>4, <1>5 DEF DaemonStep, SessionPush, HandlerPush

\* Every step is a step of CallContract or leaves it alone.
LEMMA StepKeepsContract ==
  ASSUME Types, CallsInv, [Next]_vars
  PROVE  [Contract!Next]_(Contract!contractVars)
  <1>1. SUFFICES Contract!Next \/ UNCHANGED <<h.owned, ran, done>>
    BY DEF Contract!contractVars
  <1>2. CASE UNCHANGED vars
    BY <1>2 DEF vars, handleVars, hostVars
  <1>3. ASSUME NEW a \in Attempts, NEW c \in Channels, Connect(a, c) PROVE UNCHANGED <<h.owned, ran, done>>
    <2>1. h' = [h EXCEPT !.attempt = h'.attempt, !.client = c, !.rpc = h'.rpc]
      BY <1>3, ConnectTypes
    <2>2. h'.owned = h.owned
      BY <2>1, HostFacts DEF HandleRecord
    <2>3. UNCHANGED <<ran, done>>
      BY <1>3 DEF Connect, Accept
    <2>4. QED BY <2>2, <2>3
  <1>4. CASE ShellStep /\ UNCHANGED <<storeVars, hostVars>>
    <2>1. ran' = ran /\ done' = done
      BY <1>4 DEF hostVars
    <2>2. QED BY <1>4, <2>1, ShellPromises, PromisesKept DEF Contract!Next
  <1>5. CASE DaemonStep /\ UNCHANGED handleVars
    BY <1>5, DaemonKeepsContract
  <1>6. ASSUME NEW c \in Channels, BreakChannel(c) PROVE UNCHANGED <<h.owned, ran, done>>
    BY <1>6 DEF BreakChannel, hostVars, handleVars
  <1>7. QED BY <1>2, <1>3, <1>4, <1>5, <1>6 DEF Next

\* The initial states are CallContract's.
LEMMA InitKeepsContract ==
  ASSUME Init
  PROVE  Contract!Init
  <1> DEFINE f == [a \in Attempts |-> Idle]
             g == [c \in Channels |-> Unused]
             o == [i \in MyInvokes |-> "new"]
             w == [i \in MyInvokes |-> NoWire]
  <1>1. InitHandle /\ InitHost
    BY DEF Init
  <1>2. h = [state |-> "disconnected", stopped |-> FALSE, reconnecting |-> FALSE,
             started |-> FALSE, tries |-> 0, client |-> None, lastSeq |-> -1,
             epoch |-> None, sweep |-> FALSE, attempt |-> f, rpc |-> g, owned |-> o,
             wire |-> w, aged |-> {}]
    BY <1>1 DEF InitHandle
  <1> HIDE DEF f, g, w
  <1>3. h.owned = o
    BY <1>2
  <1>4. QED BY <1>1, <1>3, Callers DEF Contract!Init, InitHost

\* KeepsContract: a promise is settled once, only a mutation is reported lost,
\* a result is only ever one of the call's own handler, and no handler of a
\* mutation is started twice (RemoteServerHandle.invoke).
THEOREM ContractKept == Spec => KeepsContract
  <1>1. Init => Contract!Init
    BY InitKeepsContract
  <1>2. Types /\ CallsInv /\ [Next]_vars => [Contract!Next]_(Contract!contractVars)
    BY StepKeepsContract
  <1>3. QED BY <1>1, <1>2, TypesInvariant, CallsInvariant, PTL DEF Spec, KeepsContract, Contract!Spec

----------------------------------------------------------------------------
(* One attempt at a time, and the client it attaches through.              *)

\* One caller of start() and retryNow(): the loop is the only other one that
\* connects.  With two, retryNow() can be called over a retryNow().
OneCaller == \E f : Foreground = {f}

\* One attempt at a time, over the handle's one open client; a handle that is
\* connected has that client, unless it was stopped.
Sound(s) ==
  /\ \A a \in Attempts :
       /\ Moving(s.attempt[a]) => s.attempt[a].ch = s.client /\ s.client # None /\ s.rpc[s.client].open
       /\ s.attempt[a].pc = "opening" => s.client = None
  /\ \A a, b \in Attempts : a = b \/ s.attempt[a].pc = "idle" \/ s.attempt[b].pc = "idle"
  /\ s.reconnecting <=> s.attempt[Loop].pc # "idle"
  /\ \A c \in Channels : s.rpc[c].open => c = s.client
  /\ s.state = "connected" => \A a \in Attempts : s.attempt[a].pc = "idle"
  /\ s.state = "connected" /\ ~s.stopped => s.client # None /\ s.rpc[s.client].open
  /\ s.state = "disconnected" /\ ~s.stopped =>
       s.client = None /\ \A a \in Attempts : s.attempt[a].pc = "idle"
AttemptInv == Sound(h)

\* What Sound looks at is the same in both.
Face(s, n) ==
  /\ n.state = s.state /\ n.stopped = s.stopped /\ n.reconnecting = s.reconnecting
  /\ n.client = s.client /\ n.attempt = s.attempt
  /\ \A c \in Channels : n.rpc[c].open = s.rpc[c].open

\* The client is gone.
Torn(s, n) ==
  /\ n \in HandleRecord /\ n.state = s.state /\ n.stopped = s.stopped
  /\ n.reconnecting = s.reconnecting /\ n.attempt = s.attempt /\ n.client = None
  /\ (\A c \in Channels : s.rpc[c].open => c = s.client) => \A c \in Channels : ~n.rpc[c].open

\* Attempt a has failed, and its caller did what it does then.
Failed(s, n, a) ==
  /\ n \in HandleRecord /\ n.client = s.client /\ n.rpc = s.rpc /\ n.stopped = s.stopped
  /\ \A b \in Attempts \ {a} : n.attempt[b] = s.attempt[b]
  /\ n.state \in {s.state, "auth-required"}
  /\ n.attempt[a].pc \in {"idle", "waiting"}
  /\ IF a = Loop THEN s.reconnecting => (n.reconnecting <=> n.attempt[a].pc = "waiting")
     ELSE n.reconnecting = s.reconnecting /\ n.attempt[a].pc = "idle"

\* Sound depends on Face only.
LEMMA FaceSound ==
  ASSUME NEW s, NEW n, Sound(s), Face(s, n), s.client \in Channels \cup {None}
  PROVE  Sound(n)
  <1>1. s.client # None => n.rpc[s.client].open = s.rpc[s.client].open
    BY DEF Face
  <1>2. QED BY <1>1 DEF Sound, Face

\* Settling promises leaves Face alone.
LEMMA SettledFace ==
  ASSUME NEW s \in HandleRecord, NEW n, OnlyOwned(s, n)
  PROVE  Face(s, n)
  <1> DEFINE o == n.owned
  <1>1. n = [s EXCEPT !.owned = o]
    BY DEF OnlyOwned
  <1> HIDE DEF o
  <1>2. QED BY <1>1 DEF Face, HandleRecord

\* teardownChannel leaves no client.
LEMMA TeardownTears ==
  ASSUME NEW s \in HandleRecord
  PROVE  Torn(s, TeardownChannel(s))
  <1> DEFINE n == TeardownChannel(s)
  <1>1. /\ Quiet(s, n) /\ n.client = None /\ OnlyClients(s, n)
        /\ s.client # None => ~n.rpc[s.client].open
        /\ \A d \in Channels : d # s.client => n.rpc[d] = s.rpc[d]
    BY TearsDown
  <1> HIDE DEF n
  <1> DEFINE r == n.rpc
  <1>2. n = [s EXCEPT !.rpc = r, !.client = None] /\ n \in HandleRecord
    BY <1>1 DEF OnlyClients, Quiet
  <1> HIDE DEF r
  <1>3. n.state = s.state /\ n.stopped = s.stopped /\ n.reconnecting = s.reconnecting /\ n.attempt = s.attempt
    BY <1>2 DEF HandleRecord
  <1>4. ASSUME \A c \in Channels : s.rpc[c].open => c = s.client, NEW c \in Channels
        PROVE  ~n.rpc[c].open
    <2>1. CASE c = s.client
      BY <1>1, <2>1, Callers
    <2>2. CASE c # s.client
      BY <1>1, <1>4, <2>2
    <2>3. QED BY <2>1, <2>2
  <1>5. Torn(s, n)
    BY <1>1, <1>2, <1>3, <1>4 DEF Torn
  <1>6. QED BY <1>5 DEF n

\* The end of the reconnect loop.
LEMMA LoopFails ==
  ASSUME NEW s \in HandleRecord
  PROVE  /\ Failed(s, LoopEnds(s), Loop) /\ ~LoopEnds(s).reconnecting
         /\ LoopEnds(s).attempt[Loop].pc = "idle"
         /\ s.stopped => LoopEnds(s).state = s.state
  <1> DEFINE f == [s.attempt EXCEPT ![Loop] = Idle]
             t == [s EXCEPT !.reconnecting = FALSE, !.attempt[Loop] = Idle]
             u == ExpireOwned(t)
             n == LoopEnds(s)
  <1>1. f \in AttemptSet /\ f[Loop] = Idle /\ \A b \in Attempts \ {Loop} : f[b] = s.attempt[b]
    BY Attempting, IdleTypes, Callers DEF HandleRecord, AttemptSet
  <1> HIDE DEF f
  <1>2. t = [s EXCEPT !.reconnecting = FALSE, !.attempt = f]
    BY DEF HandleRecord, f
  <1>3. /\ t \in HandleRecord /\ ~t.reconnecting /\ t.attempt = f /\ t.state = s.state
        /\ t.stopped = s.stopped /\ t.client = s.client /\ t.rpc = s.rpc
    <2>1. \A b \in BOOLEAN : [s EXCEPT !.reconnecting = b, !.attempt = f] \in HandleRecord
      BY <1>1 DEF HandleRecord
    <2> HIDE DEF t
    <2>2. t \in HandleRecord
      BY <1>2, <2>1, FALSE \in BOOLEAN
    <2>3. QED BY <1>2, <2>2 DEF HandleRecord
  <1>4. n = IF s.stopped THEN t ELSE [u EXCEPT !.state = "auth-required", !.sweep = TRUE]
    BY DEF LoopEnds
  <1>5. LoopEnds(s) \in HandleRecord
    BY LoopStops, QuietIs
  <1> HIDE DEF t
  <1>6. OnlyOwned(t, u) /\ u \in HandleRecord
    BY <1>3, Expires DEF Quiet
  <1> HIDE DEF u
  <1>7. /\ u.reconnecting = t.reconnecting /\ u.attempt = t.attempt
        /\ u.stopped = t.stopped /\ u.client = t.client /\ u.rpc = t.rpc
    <2> DEFINE o == u.owned
    <2>1. u = [t EXCEPT !.owned = o]
      BY <1>6 DEF OnlyOwned
    <2> HIDE DEF o
    <2>2. QED BY <1>3, <2>1 DEF HandleRecord
  <1>8. /\ ~n.reconnecting /\ n.attempt = f /\ n.stopped = s.stopped /\ n.client = s.client /\ n.rpc = s.rpc
        /\ n.state = IF s.stopped THEN s.state ELSE "auth-required"
    <2>1. CASE s.stopped
      BY <1>3, <1>4, <2>1
    <2>2. CASE ~s.stopped
      BY <1>3, <1>4, <1>6, <1>7, <2>2 DEF HandleRecord
    <2>3. QED BY <2>1, <2>2
  <1>9. n \in HandleRecord
    BY <1>5
  <1> HIDE DEF n
  <1>10. Failed(s, n, Loop) /\ ~n.reconnecting /\ n.attempt[Loop].pc = "idle" /\ (s.stopped => n.state = s.state)
    BY <1>1, <1>8, <1>9, IdleTypes DEF Failed
  <1>11. QED BY <1>10 DEF n

\* What the caller of a failed attempt does.
LEMMA CallerFailed ==
  ASSUME NEW s \in HandleRecord, NEW a \in Attempts
  PROVE  Failed(s, CallerFails(s, a), a)
  <1>0. s.attempt \in AttemptSet /\ s.attempt \in [Attempts -> AttemptRecord]
    BY DEF HandleRecord, AttemptSet
  <1>1. CallerFails(s, a) \in HandleRecord
    BY CallersFail, QuietIs
  <1> DEFINE n == CallerFails(s, a)
  <1>2. CASE a = Loop /\ (s.stopped \/ s.tries + 1 = MaxTries)
    <2>1. CallerFails(s, a) = LoopEnds(s)
      BY <1>0, <1>2 DEF CallerFails, AttemptSet
    <2>2. QED BY <1>2, <2>1, LoopFails
  <1>3. CASE a = Loop /\ ~(s.stopped \/ s.tries + 1 = MaxTries)
    <2> DEFINE f == [s.attempt EXCEPT ![Loop] = [Idle EXCEPT !.pc = "waiting"]]
    <2>1. f[Loop].pc = "waiting" /\ \A b \in Attempts \ {Loop} : f[b] = s.attempt[b]
      BY <1>0, Callers DEF Idle
    <2>2. n = [s EXCEPT !.tries = @ + 1, !.attempt = f]
      BY <1>0, <1>3 DEF CallerFails, HandleRecord, AttemptSet
    <2> HIDE DEF f
    <2>3. /\ n.client = s.client /\ n.rpc = s.rpc /\ n.stopped = s.stopped /\ n.state = s.state
          /\ n.reconnecting = s.reconnecting /\ n.attempt = f
      BY <2>2 DEF HandleRecord
    <2>4. n \in HandleRecord
      BY <1>1
    <2> HIDE DEF n
    <2>5. Failed(s, n, a)
      BY <1>3, <2>1, <2>3, <2>4 DEF Failed
    <2>6. QED BY <2>5 DEF n
  <1>4. CASE a # Loop
    <2> DEFINE f == [s.attempt EXCEPT ![a] = Idle]
    <2>1. f[a].pc = "idle" /\ \A b \in Attempts \ {a} : f[b] = s.attempt[b]
      BY <1>0 DEF Idle
    <2>2. \/ n = [s EXCEPT !.state = "auth-required", !.attempt = f]
          \/ n = [s EXCEPT !.attempt = f]
      BY <1>4 DEF CallerFails, HandleRecord
    <2> HIDE DEF f
    <2>3. /\ n.client = s.client /\ n.rpc = s.rpc /\ n.stopped = s.stopped
          /\ n.state \in {s.state, "auth-required"}
          /\ n.reconnecting = s.reconnecting /\ n.attempt = f
      BY <2>2 DEF HandleRecord
    <2>4. n \in HandleRecord
      BY <1>1
    <2> HIDE DEF n
    <2>5. Failed(s, n, a)
      BY <1>4, <2>1, <2>3, <2>4 DEF Failed
    <2>6. QED BY <2>5 DEF n
  <1>5. QED BY <1>2, <1>3, <1>4

\* The handle has no client, and is not at rest in a state that says otherwise.
Down(t) ==
  /\ t \in HandleRecord /\ t.client = None /\ \A c \in Channels : ~t.rpc[c].open
  /\ t.state # "connected" /\ (t.state = "disconnected" => t.stopped)

\* After a teardown, the failure of the only attempt is sound.
LEMMA FailedSound ==
  ASSUME NEW t, Down(t), NEW a \in Attempts, NEW n, Failed(t, n, a),
         t.attempt[a].pc # "idle",
         \A b \in Attempts \ {a} : t.attempt[b].pc = "idle" \/ (b = Loop /\ t.attempt[b].pc = "waiting"),
         t.reconnecting <=> t.attempt[Loop].pc # "idle"
  PROVE  Sound(n)
  <1>1. /\ n.client = None /\ \A c \in Channels : ~n.rpc[c].open
        /\ n.state # "connected" /\ (n.state = "disconnected" => n.stopped)
    BY DEF Failed, Down
  <1>2. \A b \in Attempts : n.attempt[b].pc = "idle" \/ (b = Loop /\ n.attempt[b].pc = "waiting")
    BY DEF Failed
  <1>3. n.reconnecting <=> n.attempt[Loop].pc # "idle"
    <2>1. CASE a = Loop
      BY <2>1 DEF Failed
    <2>2. CASE a # Loop
      BY <2>2, Callers DEF Failed
    <2>3. QED BY <2>1, <2>2
  <1>4. QED BY <1>1, <1>2, <1>3 DEF Sound, Moving

\* After a teardown, opening the only attempt is sound.
LEMMA OpenedSound ==
  ASSUME NEW t, Down(t), NEW a \in Attempts, NEW why \in {"start", "retry", "loop"},
         \A b \in Attempts \ {a} : t.attempt[b].pc = "idle",
         t.reconnecting <=> a = Loop
  PROVE  Sound([t EXCEPT !.attempt[a] = Opening(why)])
  <1> DEFINE f == [t.attempt EXCEPT ![a] = Opening(why)]
             n == [t EXCEPT !.attempt[a] = Opening(why)]
  <1>1. t \in HandleRecord /\ t.attempt \in AttemptSet
    BY DEF Down, HandleRecord
  <1>2. f[a].pc = "opening" /\ ~Moving(f[a]) /\ \A b \in Attempts \ {a} : f[b].pc = "idle"
    BY <1>1, IdleTypes DEF AttemptSet
  <1>3. n = [t EXCEPT !.attempt = f]
    BY <1>1 DEF HandleRecord
  <1> HIDE DEF f
  <1>4. /\ n.client = None /\ n.rpc = t.rpc /\ n.state = t.state /\ n.stopped = t.stopped
        /\ n.reconnecting = t.reconnecting /\ n.attempt = f
    BY <1>1, <1>3 DEF HandleRecord, Down
  <1> HIDE DEF n
  <1>5. Sound(n)
    BY <1>2, <1>4, Callers DEF Sound, Moving, Down
  <1>6. QED BY <1>5 DEF n

\* teardownChannel from a handle that is not connected.
LEMMA TornDown ==
  ASSUME NEW s \in HandleRecord, \A c \in Channels : s.rpc[c].open => c = s.client,
         s.state # "connected", s.state = "disconnected" => s.stopped
  PROVE  Down(TeardownChannel(s)) /\ Torn(s, TeardownChannel(s))
  BY TeardownTears DEF Torn, Down

\* Of attempts in progress there is one.
LEMMA NoOther ==
  ASSUME NEW s, Sound(s), NEW a \in Attempts, s.attempt[a].pc # "idle"
  PROVE  /\ \A b \in Attempts \ {a} : s.attempt[b].pc = "idle"
         /\ \A c : WaitingOn(s, c) \subseteq {a}
         /\ s.state # "connected" /\ (s.state = "disconnected" => s.stopped)
  BY DEF Sound, WaitingOn

\* The only attempt may fail at any step.
LEMMA FailsAlone ==
  ASSUME NEW s \in HandleRecord, Sound(s), NEW a \in Attempts, s.attempt[a].pc # "idle"
  PROVE  Sound(ConnectFails(s, a))
  <1> DEFINE t == TeardownChannel(s)
             n == CallerFails(t, a)
  <1>1. ConnectFails(s, a) = n
    BY NoOther DEF ConnectFails, FailAll
  <1>2. Down(t) /\ Torn(s, t)
    BY NoOther, TornDown DEF Sound
  <1> HIDE DEF t
  <1>3. /\ t.attempt = s.attempt /\ t.reconnecting = s.reconnecting /\ t \in HandleRecord
    BY <1>2 DEF Torn, Down
  <1>4. Failed(t, n, a)
    BY <1>3, CallerFailed
  <1> HIDE DEF n
  <1>5. /\ t.attempt[a].pc # "idle" /\ \A b \in Attempts \ {a} : t.attempt[b].pc = "idle"
        /\ t.reconnecting <=> t.attempt[Loop].pc # "idle"
    BY <1>3, NoOther DEF Sound
  <1>6. Sound(n)
    BY <1>2, <1>4, <1>5, FailedSound
  <1>7. QED BY <1>1, <1>6

\* start() is sound.
LEMMA StartSound ==
  ASSUME h \in HandleRecord, Sound(h), NEW a \in Foreground, Start(a)
  PROVE  Sound(h')
  <1> DEFINE t == [h EXCEPT !.state = "connecting"]
  <1>1. /\ h' = [h EXCEPT !.state = "connecting", !.attempt[a] = Opening("start")]
        /\ h.state = "disconnected" /\ ~h.stopped
    BY DEF Start, Becomes
  <1>2. /\ t \in HandleRecord /\ t.attempt = h.attempt /\ t.client = h.client /\ t.rpc = h.rpc
        /\ t.reconnecting = h.reconnecting /\ t.state = "connecting"
    BY DEF HandleRecord, States
  <1>3. h' = [t EXCEPT !.attempt[a] = Opening("start")]
    BY <1>1 DEF HandleRecord
  <1> HIDE DEF t
  <1>4. h.client = None /\ \A b \in Attempts : h.attempt[b].pc = "idle"
    BY <1>1 DEF Sound
  <1>5. Down(t)
    BY <1>2, <1>4, Callers DEF Sound, Down
  <1>6. a \in Attempts /\ a # Loop /\ ~t.reconnecting /\ \A b \in Attempts \ {a} : t.attempt[b].pc = "idle"
    BY <1>2, <1>4, Callers DEF Sound
  <1>7. QED BY <1>3, <1>5, <1>6, OpenedSound

\* retryNow() is sound with one caller.
LEMMA RetrySound ==
  ASSUME OneCaller, h \in HandleRecord, Sound(h), NEW a \in Foreground, RetryNow(a)
  PROVE  Sound(h')
  <1> DEFINE s == [h EXCEPT !.state = "connecting"]
             t == TeardownChannel(s)
             n == [t EXCEPT !.attempt[a] = Opening("retry")]
  <1>1. /\ h.attempt[a] = Idle /\ ~h.reconnecting
        /\ h' = FailAll(n, WaitingOn(h, h.client))
    BY DEF RetryNow, Becomes
  <1>2. \A b \in Attempts : h.attempt[b].pc = "idle"
    BY <1>1, Callers, IdleTypes DEF OneCaller, Sound
  <1>3. WaitingOn(h, h.client) = {}
    BY <1>2 DEF WaitingOn
  <1>4. h' = n
    BY <1>1, <1>3 DEF FailAll
  <1>5. /\ s \in HandleRecord /\ s.attempt = h.attempt /\ s.client = h.client /\ s.rpc = h.rpc
        /\ s.reconnecting = h.reconnecting /\ s.state = "connecting"
    BY DEF HandleRecord, States
  <1> HIDE DEF s
  <1>6. Down(t) /\ Torn(s, t)
    BY <1>5, TornDown DEF Sound
  <1> HIDE DEF t
  <1>7. a \in Attempts /\ a # Loop /\ ~t.reconnecting /\ \A b \in Attempts \ {a} : t.attempt[b].pc = "idle"
    BY <1>1, <1>2, <1>5, <1>6, Callers DEF Torn
  <1>8. Sound(n)
    BY <1>6, <1>7, OpenedSound
  <1>9. QED BY <1>4, <1>8

\* A turn of the reconnect loop is sound.
LEMMA LoopSound ==
  ASSUME h \in HandleRecord, Sound(h), LoopTimer
  PROVE  Sound(h')
  <1>1. h.attempt[Loop].pc = "waiting" /\ Loop \in Attempts
    BY Callers DEF LoopTimer
  <1>2. /\ \A b \in Attempts \ {Loop} : h.attempt[b].pc = "idle"
        /\ WaitingOn(h, h.client) = {} /\ h.reconnecting
        /\ h.state # "connected" /\ (h.state = "disconnected" => h.stopped)
    <2>1. h.attempt[Loop].pc # "idle"
      BY <1>1
    <2>2. WaitingOn(h, h.client) \subseteq {Loop}
      BY <1>1, <2>1, NoOther
    <2>3. Loop \notin WaitingOn(h, h.client)
      BY <1>1 DEF WaitingOn
    <2>4. QED BY <1>1, <2>1, <2>2, <2>3, NoOther DEF Sound
  <1>3. CASE h.stopped
    <2> DEFINE n == LoopEnds(h)
    <2>1. h' = n
      BY <1>3 DEF LoopTimer, Becomes
    <2>2. Failed(h, n, Loop) /\ ~n.reconnecting /\ n.attempt[Loop].pc = "idle" /\ n.state = h.state
      BY <1>3, LoopFails
    <2> HIDE DEF n
    <2>3. \A b \in Attempts : n.attempt[b].pc = "idle"
      BY <1>2, <2>2 DEF Failed
    <2>4. n.client = h.client /\ n.rpc = h.rpc /\ n.stopped
      BY <1>3, <2>2 DEF Failed
    <2>5. QED BY <2>1, <2>2, <2>3, <2>4 DEF Sound, Moving
  <1>4. CASE ~h.stopped
    <2> DEFINE t == TeardownChannel(h)
               n == [t EXCEPT !.attempt[Loop] = Opening("loop")]
    <2>1. h' = n
      BY <1>2, <1>4 DEF LoopTimer, Becomes, FailAll
    <2>2. Down(t) /\ Torn(h, t)
      BY <1>2, TornDown DEF Sound
    <2> HIDE DEF t
    <2>3. t.reconnecting /\ \A b \in Attempts \ {Loop} : t.attempt[b].pc = "idle"
      BY <1>2, <2>2 DEF Torn
    <2>4. Sound(n)
      BY <1>1, <2>2, <2>3, OpenedSound
    <2>5. QED BY <2>1, <2>4
  <1>5. QED BY <1>3, <1>4

\* The client closes: the connection is lost, and whoever was attaching
\* through it has failed.
LEMMA ClosesSound ==
  ASSUME h \in HandleRecord, Sound(h), ShellIdle, NEW c \in Channels, h.rpc[c].open, ClientCloses(c)
  PROVE  Sound(h')
  <1> DEFINE k == CloseClient(h, c)
             l == OnConnectionLost(k)
             w == WaitingOn(h, c)
  <1>1. c = h.client /\ c # None /\ h.client # None
    BY Callers DEF Sound
  <1>2. h' = IF w = {} THEN l ELSE ConnectFails(l, CHOOSE a \in w : TRUE)
    BY <1>1 DEF ClientCloses, Becomes
  <1>3. \A a \in Attempts : Moving(h.attempt[a]) => a \in w
    BY <1>1 DEF Sound, Moving, ShellIdle, Reconciling, WaitingOn
  <1>4. \A a \in w : a \in Attempts /\ h.attempt[a].pc \in {"hello", "attaching"}
    BY DEF WaitingOn
  <1> HIDE DEF w
  <1>5. /\ k \in HandleRecord /\ k.state = h.state /\ k.stopped = h.stopped /\ k.client = h.client
        /\ k.reconnecting = h.reconnecting /\ k.attempt = h.attempt
        /\ \A d \in Channels : ~k.rpc[d].open
    <2>1. /\ k \in HandleRecord /\ OnlyRpc(h, k) /\ ~k.rpc[c].open
          /\ \A d \in Channels : d # c => k.rpc[d] = h.rpc[d]
      BY Closes, QuietIs
    <2> DEFINE p == k.rpc
    <2>2. k = [h EXCEPT !.rpc = p]
      BY <2>1 DEF OnlyRpc
    <2> HIDE DEF p, k
    <2>3. k.state = h.state /\ k.stopped = h.stopped /\ k.client = h.client
          /\ k.reconnecting = h.reconnecting /\ k.attempt = h.attempt
      BY <2>2 DEF HandleRecord
    <2>4. QED BY <1>1, <2>1, <2>3 DEF Sound
  <1> HIDE DEF k
  <1>6. /\ l \in HandleRecord /\ l.stopped = h.stopped /\ l.client = h.client /\ l.rpc = k.rpc
        /\ \A a \in Attempts \ {Loop} : l.attempt[a] = h.attempt[a]
        /\ \/ /\ h.stopped \/ h.reconnecting
              /\ l.state = h.state /\ l.reconnecting = h.reconnecting /\ l.attempt = h.attempt
           \/ /\ ~h.stopped /\ ~h.reconnecting
              /\ l.state = "reconnecting" /\ l.reconnecting /\ l.attempt[Loop].pc = "waiting"
    <2>0. l \in HandleRecord
      BY <1>5, LosesConnection, QuietIs
    <2>1. CASE h.stopped \/ h.reconnecting
      BY <1>5, <2>1 DEF OnConnectionLost
    <2>2. CASE ~(h.stopped \/ h.reconnecting)
      <3> DEFINE f == [k.attempt EXCEPT ![Loop] = [Idle EXCEPT !.pc = "waiting"]]
      <3>1. k.attempt \in [Attempts -> AttemptRecord]
        BY <1>5 DEF HandleRecord, AttemptSet
      <3>2. f[Loop].pc = "waiting" /\ \A a \in Attempts \ {Loop} : f[a] = k.attempt[a]
        BY <3>1, Callers DEF Idle
      <3>3. l = [k EXCEPT !.state = "reconnecting", !.reconnecting = TRUE, !.tries = 0, !.attempt = f]
        BY <1>5, <2>2 DEF OnConnectionLost, HandleRecord
      <3> HIDE DEF f, l
      <3>4. l.stopped = k.stopped /\ l.client = k.client /\ l.rpc = k.rpc /\ l.state = "reconnecting"
            /\ l.reconnecting /\ l.attempt = f
        BY <1>5, <3>3 DEF HandleRecord
      <3>5. QED BY <1>5, <2>0, <2>2, <3>2, <3>4
    <2>3. QED BY <2>1, <2>2
  <1> HIDE DEF l
  <1>7. CASE w = {}
    <2>1. \A a \in Attempts : ~Moving(h.attempt[a]) /\ h.attempt[a].pc # "opening"
      BY <1>1, <1>3, <1>7 DEF Sound
    <2>2. \A a \in Attempts : h.attempt[a].pc = "idle" \/ (a = Loop /\ h.attempt[a].pc = "waiting")
      <3>1. h.attempt \in AttemptSet
        BY DEF HandleRecord
      <3>2. \A a \in Attempts : h.attempt[a].pc \in Steps
        BY <3>1 DEF AttemptSet, AttemptRecord
      <3>3. \A a \in Attempts : h.attempt[a].pc = "waiting" => a = Loop
        BY <3>1, Callers DEF AttemptSet
      <3>4. QED BY <2>1, <3>2, <3>3 DEF Moving, Steps
    <2>3. CASE h.stopped \/ h.reconnecting
      <3>1. l.state = h.state /\ l.reconnecting = h.reconnecting /\ l.attempt = h.attempt
        BY <1>6, <2>3
      <3>2. h.state = "connected" => h.stopped
        BY <2>3, Callers DEF Sound
      <3>3. h.state = "disconnected" => h.stopped
        BY <1>1 DEF Sound
      <3>4. Sound(l)
        BY <1>5, <1>6, <2>1, <3>1, <3>2, <3>3 DEF Sound
      <3>5. QED BY <1>2, <1>7, <3>4
    <2>4. CASE ~(h.stopped \/ h.reconnecting)
      <3>1. l.state = "reconnecting" /\ l.reconnecting /\ l.attempt[Loop].pc = "waiting"
        BY <1>6, <2>4
      <3>2. h.attempt[Loop].pc = "idle"
        BY <2>4 DEF Sound
      <3>3. \A a \in Attempts \ {Loop} : l.attempt[a].pc = "idle"
        BY <1>6, <2>2
      <3>4. Sound(l)
        BY <1>5, <1>6, <3>1, <3>3 DEF Sound, Moving
      <3>5. QED BY <1>2, <1>7, <3>4
    <2>5. QED BY <2>3, <2>4
  <1>8. CASE w # {}
    <2> DEFINE a == CHOOSE b \in w : TRUE
               t == TeardownChannel(l)
               n == CallerFails(t, a)
    <2>1. a \in w /\ a \in Attempts /\ h.attempt[a].pc \in {"hello", "attaching"}
      BY <1>4, <1>8
    <2>2. h' = ConnectFails(l, a)
      BY <1>2, <1>8
    <2> HIDE DEF a
    <2>3. /\ \A b \in Attempts \ {a} : h.attempt[b].pc = "idle"
          /\ h.state # "connected" /\ (h.state = "disconnected" => h.stopped)
      <3>1. h.attempt[a].pc # "idle"
        BY <2>1
      <3>2. QED BY <2>1, <3>1, NoOther
    <2>4. ~h.stopped /\ ~h.reconnecting => a # Loop
      BY <2>1 DEF Sound
    <2>5. /\ l.attempt[a] = h.attempt[a]
          /\ \A b \in Attempts \ {a} : l.attempt[b].pc = "idle" \/ (b = Loop /\ l.attempt[b].pc = "waiting")
          /\ l.reconnecting <=> l.attempt[Loop].pc # "idle"
          /\ l.state # "connected" /\ (l.state = "disconnected" => l.stopped)
      <3>1. CASE h.stopped \/ h.reconnecting
        BY <1>6, <2>1, <2>3, <3>1 DEF Sound
      <3>2. CASE ~(h.stopped \/ h.reconnecting)
        BY <1>6, <2>1, <2>3, <2>4, <3>2
      <3>3. QED BY <3>1, <3>2
    <2>6. WaitingOn(l, l.client) \ {a} = {}
      BY <2>5 DEF WaitingOn
    <2>7. h' = n
      BY <2>2, <2>6 DEF ConnectFails, FailAll
    <2>8. Down(t) /\ Torn(l, t)
      BY <1>5, <1>6, <2>5, TornDown
    <2> HIDE DEF t
    <2>9. /\ t.attempt = l.attempt /\ t.reconnecting = l.reconnecting /\ t \in HandleRecord
      BY <2>8 DEF Torn, Down
    <2>10. Failed(t, n, a)
      BY <2>1, <2>9, CallerFailed
    <2> HIDE DEF n
    <2>11. t.attempt[a].pc # "idle"
      BY <2>1, <2>5, <2>9
    <2>12. Sound(n)
      BY <2>1, <2>5, <2>8, <2>9, <2>10, <2>11, FailedSound
    <2>13. QED BY <2>7, <2>12
  <1>9. QED BY <1>7, <1>8

\* disconnect() is sound.
LEMMA DisconnectSound ==
  ASSUME h \in HandleRecord, Sound(h), Disconnect
  PROVE  Sound(h')
  <1> DEFINE b == TRUE
             d == FALSE
             e == [h EXCEPT !.stopped = b, !.sweep = d]
             u == FailOwned(e)
             v == TeardownChannel(u)
             t == [v EXCEPT !.state = "disconnected"]
             w == WaitingOn(h, h.client)
  <1>1. h' = FailAll(t, w) /\ ShellIdle
    BY DEF Disconnect, Becomes
  <1>2. /\ e \in HandleRecord /\ e.stopped /\ e.attempt = h.attempt /\ e.client = h.client
        /\ e.rpc = h.rpc /\ e.reconnecting = h.reconnecting
    <2>1. b \in BOOLEAN /\ d \in BOOLEAN /\ b
      OBVIOUS
    <2> HIDE DEF b, d
    <2>2. QED BY <2>1 DEF HandleRecord
  <1> HIDE DEF e
  <1>3. u \in HandleRecord /\ Face(e, u)
    BY <1>2, Fails, QuietIs, SettledFace
  <1> HIDE DEF u
  <1>4. Torn(u, v) /\ v \in HandleRecord
    BY <1>3, TeardownTears DEF Torn
  <1>5. \A c \in Channels : ~v.rpc[c].open
    BY <1>2, <1>3, <1>4 DEF Torn, Face, Sound
  <1>6. v.stopped /\ v.attempt = h.attempt /\ v.reconnecting = h.reconnecting /\ v.client = None
    BY <1>2, <1>3, <1>4 DEF Torn, Face
  <1> HIDE DEF v
  <1>7. /\ t \in HandleRecord /\ t.stopped /\ t.attempt = h.attempt /\ t.reconnecting = h.reconnecting
        /\ t.client = None /\ t.rpc = v.rpc /\ t.state = "disconnected"
    BY <1>4, <1>6 DEF HandleRecord, States
  <1> HIDE DEF t
  <1>8. Down(t)
    BY <1>5, <1>7 DEF Down
  <1>9. \A a \in Attempts : Moving(h.attempt[a]) => a \in w
    BY <1>1 DEF Sound, Moving, ShellIdle, Reconciling, WaitingOn
  <1>10. \A a \in w : a \in Attempts /\ h.attempt[a].pc \in {"hello", "attaching"}
    BY DEF WaitingOn
  <1> HIDE DEF w
  <1>11. CASE w = {}
    <2>1. h' = t
      BY <1>1, <1>11 DEF FailAll
    <2>2. \A a \in Attempts : ~Moving(t.attempt[a])
      BY <1>7, <1>9, <1>11
    <2>3. QED BY <1>5, <1>7, <2>1, <2>2 DEF Sound
  <1>12. CASE w # {}
    <2> DEFINE a == CHOOSE x \in w : TRUE
               n == CallerFails(t, a)
    <2>1. a \in Attempts /\ h.attempt[a].pc \in {"hello", "attaching"}
      BY <1>10, <1>12
    <2>2. h' = n
      BY <1>1, <1>12 DEF FailAll
    <2> HIDE DEF a
    <2>3. Failed(t, n, a)
      BY <1>7, <2>1, CallerFailed
    <2> HIDE DEF n
    <2>4. t.attempt[a].pc # "idle"
      BY <1>7, <2>1
    <2>5. \A x \in Attempts \ {a} : t.attempt[x].pc = "idle"
      <3>1. h.attempt[a].pc # "idle"
        BY <2>1
      <3>2. QED BY <1>7, <2>1, <3>1, NoOther
    <2>6. t.reconnecting <=> t.attempt[Loop].pc # "idle"
      BY <1>7 DEF Sound
    <2>7. Sound(n)
      BY <1>8, <2>1, <2>3, <2>4, <2>5, <2>6, FailedSound
    <2>8. QED BY <2>2, <2>7
  <1>13. QED BY <1>11, <1>12

\* A channel that opens becomes the handle's client.
LEMMA OpensSound ==
  ASSUME Types, Sound(h), NEW a \in Attempts, NEW c \in Channels, Connect(a, c)
  PROVE  Sound(h')
  <1>1. /\ h' = [h EXCEPT !.attempt = h'.attempt, !.client = c, !.rpc = h'.rpc]
        /\ h'.attempt[a].pc = "hello" /\ h'.attempt[a].ch = c
        /\ \A b \in Attempts : b # a => h'.attempt[b] = h.attempt[b]
        /\ h'.rpc[c] = [Unused EXCEPT !.open = TRUE, !.seq = h.lastSeq]
        /\ \A d \in Channels : d # c => h'.rpc[d] = h.rpc[d]
    BY ConnectTypes
  <1>2. h.attempt[a].pc = "opening"
    BY DEF Connect, ChannelOpens
  <1> DEFINE f == h'.attempt
             p == h'.rpc
  <1>3. h' = [h EXCEPT !.attempt = f, !.client = c, !.rpc = p] /\ h \in HandleRecord
    BY <1>1, HostFacts
  <1> HIDE DEF f, p
  <1>4. h'.state = h.state /\ h'.stopped = h.stopped /\ h'.reconnecting = h.reconnecting /\ h'.client = c
    BY <1>3 DEF HandleRecord
  <1>5. h'.rpc[c].open
    BY <1>1 DEF Unused
  <1>6. h.client = None
    BY <1>2 DEF Sound
  <1>7. h.attempt[a].pc # "idle"
    BY <1>2
  <1>8. /\ \A b \in Attempts \ {a} : h.attempt[b].pc = "idle"
        /\ h.state # "connected" /\ (h.state = "disconnected" => h.stopped)
    BY <1>7, NoOther
  <1>9. \A d \in Channels : h'.rpc[d].open => d = c
    BY <1>1, <1>6, Callers DEF Sound
  <1>10. h'.reconnecting <=> h'.attempt[Loop].pc # "idle"
    BY <1>1, <1>4, <1>7, Callers DEF Sound
  <1>11. c # None
    BY Callers
  <1>12. /\ h'.attempt[a].pc = "hello" /\ h'.attempt[a].ch = c
         /\ \A b \in Attempts \ {a} : h'.attempt[b].pc = "idle"
    BY <1>1, <1>8
  <1>13. \A b \in Attempts : h'.attempt[b].pc # "idle" => b = a
    BY <1>12
  <1>14. h'.state # "connected" /\ (h'.state = "disconnected" => h'.stopped)
    BY <1>4, <1>8
  <1>15. QED BY <1>4, <1>5, <1>9, <1>10, <1>11, <1>12, <1>13, <1>14 DEF Sound, Moving

\* A message that arrives moves no attempt but the one it is for.
LEMMA ReadsSound ==
  ASSUME Types, Sound(h), NEW c \in Channels, Reads(c), UNCHANGED <<storeVars, hostVars>>
  PROVE  Sound(h')
  <1> DEFINE m == Head(toClient[c])
  <1>1. h.rpc[c].open /\ toClient[c] # <<>> /\ h \in HandleRecord /\ h.client \in Channels \cup {None}
    BY HostFacts DEF Reads, HandleRecord
  <1>2. ASSUME NEW a \in Attempts, Moving(h.attempt[a]), h'.state = h.state, h'.stopped = h.stopped,
               h'.reconnecting = h.reconnecting, h'.client = h.client, h'.rpc = h.rpc,
               Moving(h'.attempt[a]), h'.attempt[a].ch = h.attempt[a].ch,
               \A b \in Attempts \ {a} : h'.attempt[b] = h.attempt[b]
        PROVE  Sound(h')
    <2>1. h.attempt[a].pc # "idle" /\ h'.attempt[a].pc \notin {"idle", "opening"}
      BY <1>2 DEF Moving
    <2>2. /\ \A b \in Attempts \ {a} : h.attempt[b].pc = "idle"
          /\ h.state # "connected" /\ (h.state = "disconnected" => h.stopped)
      BY <2>1, NoOther
    <2>3. h'.reconnecting <=> h'.attempt[Loop].pc # "idle"
      BY <1>2, <2>1, Callers DEF Sound
    <2>4. h.attempt[a].ch = h.client /\ h.client # None /\ h.rpc[h.client].open
      BY <1>2 DEF Sound
    <2>5. \A b \in Attempts \ {a} : ~Moving(h'.attempt[b]) /\ h'.attempt[b].pc = "idle"
      BY <1>2, <2>2 DEF Moving
    <2>6. \A d \in Channels : h'.rpc[d].open => d = h'.client
      BY <1>2 DEF Sound
    <2>7. QED BY <1>2, <2>1, <2>2, <2>3, <2>4, <2>5, <2>6 DEF Sound
  <1>3. CASE m.type = "hello" /\ ReceiveHello(c)
    <2>1. PICK a \in Attempts :
            /\ h.attempt[a].ch = c /\ h.attempt[a].pc = "hello"
            /\ h' = [h EXCEPT !.attempt[a].pc = "attaching"]
      BY <1>3 DEF ReceiveHello
    <2> DEFINE f == [h.attempt EXCEPT ![a].pc = "attaching"]
    <2>2. h' = [h EXCEPT !.attempt = f]
      BY <1>1, <2>1 DEF HandleRecord
    <2>3. f[a].pc = "attaching" /\ f[a].ch = h.attempt[a].ch /\ \A b \in Attempts \ {a} : f[b] = h.attempt[b]
      BY <1>1 DEF HandleRecord, AttemptSet, AttemptRecord
    <2> HIDE DEF f
    <2>4. /\ h'.state = h.state /\ h'.stopped = h.stopped /\ h'.reconnecting = h.reconnecting
          /\ h'.client = h.client /\ h'.rpc = h.rpc /\ h'.attempt = f
      BY <1>1, <2>2 DEF HandleRecord
    <2>5. QED BY <1>2, <2>1, <2>3, <2>4 DEF Moving
  <1>4. CASE m.type = "attached" /\ ReceiveAttached(c, m)
    <2>1. PICK a \in Attempts :
            /\ h.attempt[a].ch = c /\ h.attempt[a].pc = "attaching"
            /\ h' = [h EXCEPT !.attempt[a].pc = "reconciling", !.attempt[a].result = m]
      BY <1>4 DEF ReceiveAttached
    <2> HIDE DEF m
    <2> DEFINE f == [h.attempt EXCEPT ![a].pc = "reconciling", ![a].result = m]
    <2>2. h' = [h EXCEPT !.attempt = f]
      BY <1>1, <2>1 DEF HandleRecord
    <2>3. f[a].pc = "reconciling" /\ f[a].ch = h.attempt[a].ch /\ \A b \in Attempts \ {a} : f[b] = h.attempt[b]
      BY <1>1 DEF HandleRecord, AttemptSet, AttemptRecord
    <2> HIDE DEF f
    <2>4. /\ h'.state = h.state /\ h'.stopped = h.stopped /\ h'.reconnecting = h.reconnecting
          /\ h'.client = h.client /\ h'.rpc = h.rpc /\ h'.attempt = f
      BY <1>1, <2>2 DEF HandleRecord
    <2>5. QED BY <1>2, <2>1, <2>3, <2>4 DEF Moving
  <1>5. CASE m.type = "push" /\ ReceivePush(c, m)
    <2>1. /\ h' = [h EXCEPT !.rpc = h'.rpc, !.lastSeq = h'.lastSeq]
          /\ \A d \in Channels : h'.rpc[d].open = h.rpc[d].open
      BY <1>1, <1>5, PushTypes
    <2> DEFINE p == h'.rpc
               n == h'.lastSeq
    <2>2. h' = [h EXCEPT !.rpc = p, !.lastSeq = n]
      BY <2>1
    <2> HIDE DEF p, n
    <2>3. Face(h, h')
      BY <1>1, <2>1, <2>2 DEF Face, HandleRecord
    <2>4. QED BY <1>1, <2>3, FaceSound
  <1>6. CASE m.type = "response" /\ ReceiveResponse(c, m)
    <2>1. /\ h' = [h EXCEPT !.rpc = h'.rpc, !.owned = h'.owned]
          /\ \A d \in Channels : h'.rpc[d].open = h.rpc[d].open
      BY <1>1, <1>6, ResponseTypes
    <2> DEFINE p == h'.rpc
               o == h'.owned
    <2>2. h' = [h EXCEPT !.rpc = p, !.owned = o]
      BY <2>1
    <2> HIDE DEF p, o
    <2>3. Face(h, h')
      BY <1>1, <2>1, <2>2 DEF Face, HandleRecord
    <2>4. QED BY <1>1, <2>3, FaceSound
  <1>7. CASE m.type = "superseded" /\ ReceiveSuperseded(c)
    <2> DEFINE u == FailOwned(h)
               b == TRUE
    <2>1. h' = [u EXCEPT !.stopped = b, !.state = "disconnected"]
      BY <1>7 DEF ReceiveSuperseded
    <2>2. u \in HandleRecord /\ Face(h, u)
      BY <1>1, Fails, QuietIs, SettledFace
    <2>3. b
      OBVIOUS
    <2> HIDE DEF u, b
    <2>4. /\ h'.state = "disconnected" /\ h'.stopped /\ h'.reconnecting = u.reconnecting
          /\ h'.client = u.client /\ h'.attempt = u.attempt /\ h'.rpc = u.rpc
      BY <2>1, <2>2, <2>3 DEF HandleRecord
    <2>5. Sound(u)
      BY <1>1, <2>2, FaceSound
    <2>6. QED BY <2>4, <2>5 DEF Sound
  <1>8. QED BY <1>3, <1>4, <1>5, <1>6, <1>7 DEF Reads

\* The end of an attach connects the handle over that client.
LEMMA ContinueSound ==
  ASSUME Types, Sound(h), NEW a \in Attempts, Continue(a)
  PROVE  Sound(h')
  <1>1. PICK is : \E q : Reattaches(a, is) /\ Calls(is, q)
    BY ContinueCalls
  <1>2. PICK q : Reattaches(a, is) /\ Calls(is, q)
    BY <1>1
  <1>3. /\ h.attempt[a].pc = "reconciling"
        /\ h'.state = "connected" /\ h'.stopped = h.stopped
        /\ h'.attempt = [h.attempt EXCEPT ![a] = Idle]
        /\ h'.reconnecting = IF a = Loop THEN FALSE ELSE h.reconnecting
    BY <1>2 DEF Reattaches
  <1>4. h'.client = h.client /\ \A d \in Channels : h'.rpc[d].open = h.rpc[d].open
    BY <1>2 DEF Calls
  <1>5. h.attempt[a].pc # "idle"
    BY <1>3
  <1>6. \A b \in Attempts \ {a} : h.attempt[b].pc = "idle"
    BY <1>5, NoOther
  <1>7. h.attempt \in [Attempts -> AttemptRecord] /\ h.client \in Channels \cup {None}
    BY HostFacts DEF HandleRecord, AttemptSet
  <1>8. \A b \in Attempts : h'.attempt[b].pc = "idle"
    BY <1>3, <1>6, <1>7, IdleTypes
  <1>9. h.client # None /\ h.client \in Channels /\ h.rpc[h.client].open
    BY <1>3, <1>7 DEF Sound, Moving
  <1>10. ~h'.reconnecting
    <2>1. CASE a = Loop
      BY <1>3, <2>1
    <2>2. CASE a # Loop
      BY <1>3, <1>6, <2>2, Callers DEF Sound
    <2>3. QED BY <2>1, <2>2
  <1>11. \A d \in Channels : h'.rpc[d].open => d = h'.client
    BY <1>4 DEF Sound
  <1>12. QED BY <1>3, <1>4, <1>8, <1>9, <1>10, <1>11, Callers DEF Sound, Moving

\* The sweep and the invokes leave attempts and clients alone.
LEMMA OthersSound ==
  ASSUME Types, Sound(h),
         SweepTick \/ \E i \in MyInvokes : Invoke(i) \/ Age(i)
  PROVE  Sound(h')
  <1>1. h \in HandleRecord /\ h.client \in Channels \cup {None}
    BY HostFacts DEF HandleRecord
  <1>2. CASE SweepTick
    <2> DEFINE u == ExpireOwned(h)
               b == Owned(u) # {}
    <2>1. h' = [u EXCEPT !.sweep = b]
      BY <1>2 DEF SweepTick, Becomes
    <2>2. u \in HandleRecord /\ Face(h, u)
      BY <1>1, Expires, QuietIs, SettledFace
    <2> HIDE DEF u, b
    <2>3. Face(u, h')
      BY <2>1, <2>2 DEF Face, HandleRecord
    <2>4. Face(h, h')
      BY <2>2, <2>3 DEF Face
    <2>5. QED BY <1>1, <2>4, FaceSound
  <1>3. ASSUME NEW i \in MyInvokes, Age(i) PROVE Sound(h')
    <2> DEFINE g == h.aged \cup {i}
    <2>1. h' = [h EXCEPT !.aged = g]
      BY <1>3 DEF Age
    <2> HIDE DEF g
    <2>2. Face(h, h')
      BY <1>1, <2>1 DEF Face, HandleRecord
    <2>3. QED BY <1>1, <2>2, FaceSound
  <1>4. ASSUME NEW i \in MyInvokes, Invoke(i) PROVE Sound(h')
    <2>1. h' = [h EXCEPT !.owned = h'.owned, !.wire = h'.wire, !.rpc = h'.rpc]
      BY <1>4, InvokeCalls
    <2>2. \E q : Calls({i}, q)
      BY <1>4, InvokeCalls
    <2>3. \A d \in Channels : h'.rpc[d].open = h.rpc[d].open
      BY <2>2 DEF Calls
    <2> DEFINE o == h'.owned
               w == h'.wire
               p == h'.rpc
    <2>4. h' = [h EXCEPT !.owned = o, !.wire = w, !.rpc = p]
      BY <2>1
    <2> HIDE DEF o, w, p
    <2>5. Face(h, h')
      BY <1>1, <2>3, <2>4 DEF Face, HandleRecord
    <2>6. QED BY <1>1, <2>5, FaceSound
  <1>5. QED BY <1>2, <1>3, <1>4

\* With one caller every step keeps AttemptInv.
LEMMA SoundStep ==
  ASSUME OneCaller, Types, AttemptInv, [Next]_vars
  PROVE  AttemptInv'
  <1>0. h \in HandleRecord /\ Sound(h)
    BY HostFacts DEF AttemptInv
  <1>1. SUFFICES Sound(h')
    BY DEF AttemptInv, Sound, Moving
  <1>2. CASE UNCHANGED vars
    BY <1>0, <1>2 DEF vars, handleVars
  <1>3. ASSUME NEW a \in Attempts, NEW c \in Channels, Connect(a, c) PROVE Sound(h')
    BY <1>0, <1>3, OpensSound
  <1>4. CASE (DaemonStep /\ UNCHANGED handleVars) \/ \E c \in Channels : BreakChannel(c)
    BY <1>0, <1>4 DEF handleVars, BreakChannel
  <1>5. CASE ShellStep /\ UNCHANGED <<storeVars, hostVars>>
    <2>1. ASSUME NEW a \in Foreground, Start(a) \/ RetryNow(a) PROVE Sound(h')
      BY <1>0, <2>1, StartSound, RetrySound
    <2>2. ASSUME NEW a \in Attempts, h.attempt[a].pc # "idle", Becomes(ConnectFails(h, a)) PROVE Sound(h')
      BY <1>0, <2>2, FailsAlone DEF Becomes
    <2>3. ASSUME NEW a \in Attempts, OpenFails(a) \/ HelloTimeout(a) PROVE Sound(h')
      BY <2>2, <2>3 DEF OpenFails, HelloTimeout
    <2>4. ASSUME NEW a \in Attempts, Continue(a) PROVE Sound(h')
      BY <1>0, <2>4, ContinueSound
    <2>5. ASSUME NEW c \in Channels, Receive(c) PROVE Sound(h')
      <3>1. CASE ReceiveRefused(c)
        BY <2>2, <3>1 DEF ReceiveRefused
      <3>2. CASE ~ReceiveRefused(c)
        <4>1. Reads(c)
          BY <2>5, <3>2 DEF Receive, Reads
        <4>2. QED BY <1>0, <1>5, <4>1, ReadsSound
      <3>3. QED BY <3>1, <3>2
    <2>6. ASSUME NEW c \in Channels, NoticesClose(c) \/ Unresponsive(c) PROVE Sound(h')
      BY <1>0, <2>6, ClosesSound DEF NoticesClose, Unresponsive
    <2>7. CASE LoopTimer \/ Disconnect
      BY <1>0, <2>7, LoopSound, DisconnectSound
    <2>8. CASE SweepTick \/ \E i \in MyInvokes : Invoke(i) \/ Age(i)
      BY <1>0, <2>8, OthersSound
    <2>9. QED BY <1>5, <2>1, <2>3, <2>4, <2>5, <2>6, <2>7, <2>8, Callers DEF ShellStep
  <1>6. QED BY <1>2, <1>3, <1>4, <1>5 DEF Next

\* The initial states have AttemptInv.
LEMMA SoundStart ==
  ASSUME Init
  PROVE  AttemptInv
  <1> DEFINE f == [a \in Attempts |-> Idle]
             g == [c \in Channels |-> Unused]
             b == FALSE
             o == [i \in MyInvokes |-> "new"]
             w == [i \in MyInvokes |-> NoWire]
  <1>1. h = [state |-> "disconnected", stopped |-> b, reconnecting |-> b,
             started |-> b, tries |-> 0, client |-> None, lastSeq |-> -1,
             epoch |-> None, sweep |-> b, attempt |-> f, rpc |-> g, owned |-> o,
             wire |-> w, aged |-> {}]
    BY DEF Init, InitHandle
  <1>2. ~b /\ (\A a \in Attempts : f[a].pc = "idle") /\ \A c \in Channels : ~g[c].open
    BY IdleTypes DEF Unused
  <1> HIDE DEF f, g, b, o, w
  <1>3. QED BY <1>1, <1>2, Callers DEF AttemptInv, Sound, Moving

\* With one caller of start() and retryNow() there is one attempt at a time,
\* made through the handle's only open client.
THEOREM AttemptInvariant ==
  ASSUME OneCaller
  PROVE  Spec => []AttemptInv
  <1>1. Init => AttemptInv
    BY SoundStart
  <1>2. Types /\ AttemptInv /\ [Next]_vars => AttemptInv'
    BY SoundStep
  <1>3. QED BY <1>1, <1>2, TypesInvariant, PTL DEF Spec

\* ConnectedIsAlive: a handle that says it is connected has a live client
\* (RemoteServerHandle.connectInner and onConnectionLost).
THEOREM ConnectedStaysAlive ==
  ASSUME OneCaller
  PROVE  Spec => []ConnectedIsAlive
  <1>1. AttemptInv => ConnectedIsAlive
    BY DEF AttemptInv, Sound, ConnectedIsAlive
  <1>2. QED BY <1>1, AttemptInvariant, PTL
----------------------------------------------------------------------------
(* A quiet step closes the client, or leaves its attempt where it is.      *)
Shut == \A c \in Channels : ~h'.rpc[c].open
Steady == /\ h'.client = h.client
          /\ \A a \in Attempts : Moving(h.attempt[a]) => h'.attempt[a] = h.attempt[a]
CalmStep == QuietStep /\ (Shut \/ Steady)

\* Tearing down the only open client leaves none.
LEMMA TearsAll ==
  ASSUME NEW s \in HandleRecord, \A c \in Channels : s.rpc[c].open => c = s.client
  PROVE  \A c \in Channels : ~TeardownChannel(s).rpc[c].open
  BY TeardownTears DEF Torn

\* A quiet method opens nothing.
LEMMA QuietShuts ==
  ASSUME NEW s, NEW n, Quiet(s, n), \A c \in Channels : ~s.rpc[c].open
  PROVE  \A c \in Channels : ~n.rpc[c].open
  BY DEF Quiet, SameClient

\* A failed attempt leaves no client.
LEMMA FailsShut ==
  ASSUME h \in HandleRecord, Sound(h), NEW a \in Attempts, h' = ConnectFails(h, a)
  PROVE  Shut
  <1> DEFINE t == TeardownChannel(h)
             u == CallerFails(t, a)
             as == WaitingOn(h, h.client) \ {a}
             n == FailAll(u, as)
  <1>1. h' = n
    BY DEF ConnectFails
  <1>2. t \in HandleRecord /\ \A c \in Channels : ~t.rpc[c].open
    BY TearsDown, QuietIs, TearsAll DEF Sound
  <1>3. as \in SUBSET Attempts
    BY DEF WaitingOn
  <1> HIDE DEF t, as
  <1>4. Quiet(t, u) /\ u \in HandleRecord
    BY <1>2, CallersFail, QuietIs
  <1> HIDE DEF u
  <1>5. Quiet(u, n)
    BY <1>3, <1>4, AllFail
  <1> HIDE DEF n
  <1>6. Quiet(t, n)
    BY <1>4, <1>5, QuietTrans
  <1>7. \A c \in Channels : ~n.rpc[c].open
    BY <1>2, <1>6, QuietShuts
  <1>8. QED BY <1>1, <1>7 DEF Shut

\* start() has no client to start from.
LEMMA StartShut ==
  ASSUME h \in HandleRecord, Sound(h), NEW a \in Foreground, Start(a)
  PROVE  Shut
  <1>1. h.state = "disconnected" /\ ~h.stopped
    BY DEF Start
  <1>2. h.client = None /\ \A c \in Channels : ~h.rpc[c].open
    BY <1>1, Callers DEF Sound
  <1>3. Quiet(h, h')
    BY StartQuiet DEF QuietStep
  <1>4. QED BY <1>2, <1>3, QuietShuts DEF Shut

\* retryNow() tears the client down.
LEMMA RetryShut ==
  ASSUME h \in HandleRecord, Sound(h), NEW a \in Foreground, RetryNow(a)
  PROVE  Shut
  <1> DEFINE s == [h EXCEPT !.state = "connecting"]
             t == TeardownChannel(s)
             u == [t EXCEPT !.attempt[a] = Opening("retry")]
             as == WaitingOn(h, h.client)
             n == FailAll(u, as)
  <1>1. h' = n
    BY DEF RetryNow, Becomes
  <1>2. s \in HandleRecord /\ s.client = h.client /\ s.rpc = h.rpc
    BY DEF HandleRecord, States
  <1>3. a \in Attempts /\ a # Loop /\ as \in SUBSET Attempts
    BY Callers DEF WaitingOn
  <1> HIDE DEF s, as
  <1>4. t \in HandleRecord /\ \A c \in Channels : ~t.rpc[c].open
    BY <1>2, TearsDown, QuietIs, TearsAll DEF Sound
  <1> HIDE DEF t
  <1>5. Quiet(t, u) /\ u \in HandleRecord
    BY <1>3, <1>4, Opens, QuietIs
  <1> HIDE DEF u
  <1>6. Quiet(u, n)
    BY <1>3, <1>5, AllFail
  <1> HIDE DEF n
  <1>7. Quiet(t, n)
    BY <1>5, <1>6, QuietTrans
  <1>8. \A c \in Channels : ~n.rpc[c].open
    BY <1>4, <1>7, QuietShuts
  <1>9. QED BY <1>1, <1>8 DEF Shut

\* A turn of the loop tears the client down, unless the loop ends.
LEMMA LoopCalm ==
  ASSUME h \in HandleRecord, Sound(h), LoopTimer
  PROVE  Shut \/ Steady
  <1>0. h.attempt[Loop].pc = "waiting" /\ ~Moving(h.attempt[Loop])
    BY DEF LoopTimer, Moving
  <1>1. CASE h.stopped
    <2> DEFINE n == LoopEnds(h)
    <2>1. h' = n
      BY <1>1 DEF LoopTimer, Becomes
    <2>2. Failed(h, n, Loop)
      BY LoopFails
    <2> HIDE DEF n
    <2>3. QED BY <1>0, <2>1, <2>2 DEF Failed, Steady
  <1>2. CASE ~h.stopped
    <2> DEFINE t == TeardownChannel(h)
               u == [t EXCEPT !.attempt[Loop] = Opening("loop")]
               as == WaitingOn(h, h.client)
               n == FailAll(u, as)
    <2>1. h' = n
      BY <1>2 DEF LoopTimer, Becomes
    <2>2. t \in HandleRecord /\ as \in SUBSET Attempts /\ \A c \in Channels : ~t.rpc[c].open
      BY TearsDown, QuietIs, TearsAll DEF WaitingOn, Sound
    <2> HIDE DEF t, as
    <2>3. Quiet(t, u) /\ u \in HandleRecord
      BY <2>2, Callers, Opens, QuietIs
    <2> HIDE DEF u
    <2>4. Quiet(u, n)
      BY <2>2, <2>3, AllFail
    <2> HIDE DEF n
    <2>5. Quiet(t, n)
      BY <2>3, <2>4, QuietTrans
    <2>6. \A c \in Channels : ~n.rpc[c].open
      BY <2>2, <2>5, QuietShuts
    <2>7. QED BY <2>1, <2>6 DEF Shut
  <1>3. QED BY <1>1, <1>2

\* disconnect() tears the client down.
LEMMA DisconnectShut ==
  ASSUME h \in HandleRecord, Sound(h), Disconnect
  PROVE  Shut
  <1> DEFINE b == TRUE
             d == FALSE
             e == [h EXCEPT !.stopped = b, !.sweep = d]
             s == FailOwned(e)
             t == TeardownChannel(s)
             u == [t EXCEPT !.state = "disconnected"]
             as == WaitingOn(h, h.client)
             n == FailAll(u, as)
  <1>1. h' = n
    BY DEF Disconnect, Becomes
  <1>2. as \in SUBSET Attempts
    BY DEF WaitingOn
  <1> HIDE DEF as
  <1>3. e \in HandleRecord /\ e.client = h.client /\ e.rpc = h.rpc
    <2>1. b \in BOOLEAN /\ d \in BOOLEAN
      OBVIOUS
    <2> HIDE DEF b, d
    <2>2. QED BY <2>1 DEF HandleRecord
  <1> HIDE DEF e
  <1>4. s \in HandleRecord /\ Face(e, s)
    BY <1>3, Fails, QuietIs, SettledFace
  <1> HIDE DEF s
  <1>5. t \in HandleRecord /\ \A c \in Channels : ~t.rpc[c].open
    BY <1>3, <1>4, TearsDown, QuietIs, TearsAll DEF Sound, Face
  <1> HIDE DEF t
  <1>6. Quiet(t, u) /\ u \in HandleRecord
    BY <1>5, Says, QuietIs DEF States
  <1> HIDE DEF u
  <1>7. Quiet(u, n)
    BY <1>2, <1>6, AllFail
  <1> HIDE DEF n
  <1>8. Quiet(t, n)
    BY <1>6, <1>7, QuietTrans
  <1>9. \A c \in Channels : ~n.rpc[c].open
    BY <1>5, <1>8, QuietShuts
  <1>10. QED BY <1>1, <1>9 DEF Shut

\* The only open client closes.
LEMMA ClosesShut ==
  ASSUME h \in HandleRecord, Sound(h), NEW c \in Channels, h.rpc[c].open, ClientCloses(c)
  PROVE  Shut
  <1> DEFINE s == CloseClient(h, c)
             t == IF h.client = c THEN OnConnectionLost(s) ELSE s
             as == WaitingOn(h, c)
             n == IF as = {} THEN t ELSE ConnectFails(t, CHOOSE a \in as : TRUE)
  <1>1. h' = n
    BY DEF ClientCloses, Becomes
  <1>2. s \in HandleRecord /\ ~s.rpc[c].open /\ \A d \in Channels : d # c => s.rpc[d] = h.rpc[d]
    BY Closes, QuietIs
  <1>3. as \in SUBSET Attempts /\ (as # {} => (CHOOSE a \in as : TRUE) \in Attempts)
    BY DEF WaitingOn
  <1> HIDE DEF s, as
  <1>4. Quiet(s, t) /\ t \in HandleRecord
    BY <1>2, LosesConnection, QuietSelf, QuietIs
  <1> HIDE DEF t
  <1>5. Quiet(t, n)
    BY <1>3, <1>4, ConnectFailing, QuietSelf
  <1> HIDE DEF n
  <1>6. Quiet(s, n)
    BY <1>4, <1>5, QuietTrans
  <1>7. \A d \in Channels : ~s.rpc[d].open
    BY <1>2 DEF Sound
  <1>8. \A d \in Channels : ~n.rpc[d].open
    BY <1>6, <1>7, QuietShuts
  <1>9. QED BY <1>1, <1>8 DEF Shut

\* The sweep and the clock leave client and attempts alone.
LEMMA SweepSteady ==
  ASSUME h \in HandleRecord, SweepTick \/ \E i \in MyInvokes : Age(i)
  PROVE  Steady
  <1>1. CASE SweepTick
    <2> DEFINE u == ExpireOwned(h)
               b == Owned(u) # {}
    <2>1. h' = [u EXCEPT !.sweep = b]
      BY <1>1 DEF SweepTick, Becomes
    <2>2. u \in HandleRecord /\ Face(h, u)
      BY Expires, QuietIs, SettledFace
    <2> HIDE DEF u, b
    <2>3. h'.client = u.client /\ h'.attempt = u.attempt
      BY <2>1, <2>2 DEF HandleRecord
    <2>4. QED BY <2>2, <2>3 DEF Face, Steady
  <1>2. ASSUME NEW i \in MyInvokes, Age(i) PROVE Steady
    <2> DEFINE g == h.aged \cup {i}
    <2>1. h' = [h EXCEPT !.aged = g]
      BY <1>2 DEF Age
    <2> HIDE DEF g
    <2>2. QED BY <2>1 DEF Steady, HandleRecord
  <1>3. QED BY <1>1, <1>2

\* A step of the shell is calm, reads a message, sends an invoke, or continues
\* an attach.
LEMMA CalmSteps ==
  ASSUME Types, Sound(h), ShellStep
  PROVE  \/ CalmStep
         \/ \E c \in Channels : Reads(c)
         \/ \E i \in MyInvokes : Invoke(i)
         \/ \E a \in Attempts : Continue(a)
  <1>0. h \in HandleRecord
    BY HostFacts
  <1>1. ASSUME NEW a \in Foreground, Start(a) \/ RetryNow(a) PROVE CalmStep
    BY <1>0, <1>1, StartQuiet, RetryQuiet, StartShut, RetryShut DEF CalmStep
  <1>2. ASSUME NEW a \in Attempts, OpenFails(a) \/ HelloTimeout(a) PROVE CalmStep
    <2>1. h' = ConnectFails(h, a)
      BY <1>2 DEF OpenFails, HelloTimeout, Becomes
    <2>2. QED BY <1>0, <1>2, <2>1, FailsQuiet, FailsShut DEF CalmStep
  <1>3. ASSUME LoopTimer \/ SweepTick \/ Disconnect PROVE CalmStep
    <2>1. QuietStep
      BY <1>0, <1>3, LoopQuiet, SweepQuiet, DisconnectQuiet
    <2>2. Shut \/ Steady
      BY <1>0, <1>3, LoopCalm, SweepSteady, DisconnectShut
    <2>3. QED BY <2>1, <2>2 DEF CalmStep
  <1>4. ASSUME NEW c \in Channels, NoticesClose(c) \/ Unresponsive(c) PROVE CalmStep
    <2>1. h.rpc[c].open /\ ClientCloses(c)
      BY <1>4 DEF NoticesClose, Unresponsive
    <2>2. QED BY <1>0, <2>1, ClosesQuiet, ClosesShut DEF CalmStep
  <1>5. ASSUME NEW c \in Channels, Receive(c)
        PROVE  CalmStep \/ Reads(c)
    <2>1. CASE ReceiveRefused(c)
      <3>1. PICK a \in Attempts : Becomes(ConnectFails(h, a))
        BY <2>1 DEF ReceiveRefused
      <3>2. h' = ConnectFails(h, a)
        BY <3>1 DEF Becomes
      <3>3. QuietStep
        BY <1>0, <2>1, Callers, FailsQuiet
      <3>4. QED BY <1>0, <3>2, <3>3, FailsShut DEF CalmStep
    <2>2. CASE ~ReceiveRefused(c)
      BY <1>5, <2>2 DEF Receive, Reads
    <2>3. QED BY <2>1, <2>2
  <1>6. ASSUME NEW i \in MyInvokes, Age(i) PROVE CalmStep
    BY <1>0, <1>6, AgeQuiet, SweepSteady DEF CalmStep
  <1>7. QED BY <1>1, <1>2, <1>3, <1>4, <1>5, <1>6, Callers DEF ShellStep

----------------------------------------------------------------------------
(* Each connection attaches once.                                          *)
\* What a queue to the daemon, or to the client, holds.
HoldsAttach(q) == \E x \in Range(q) : x.type = "attach"
Once(q) == \A k, l \in DOMAIN q : q[k].type = "attach" /\ q[l].type = "attach" => k = l
OwnIds(q, c) == \A x \in Range(q) : x.type = "invoke" => x.id.ch = c
HoldsResult(q) == \E x \in Range(q) : x.type = "attached"

\* Some attempt waits for the hello, or for the attach result, of channel c.
Greeted(c) == \E a \in Attempts : h.attempt[a].ch = c /\ h.attempt[a].pc = "hello"
Waiting(c) == \E a \in Attempts : h.attempt[a].ch = c /\ h.attempt[a].pc \in {"hello", "attaching"}
\* The handle attached through c; the daemon let c through its gate.
Through(c) == h.client = c /\ h.rpc[c].open /\ ~Waiting(c)
Served(c) == conn[c] \in {"attached", "open"}

\* An attach request stands in the way of a gated connection, once; its result
\* comes from a connection that is served, as does the client that read it.
GateAt(c) ==
  /\ conn[c] = "gated" => due[c] = <<>>
  /\ HoldsAttach(toServer[c]) => conn[c] = "gated"
  /\ Once(toServer[c])
  /\ OwnIds(toServer[c], c)
  /\ Greeted(c) =>
       /\ link[c] = "up" => conn[c] = "gated"
       /\ ~HoldsAttach(toServer[c]) /\ ~HoldsResult(toClient[c])
  /\ link[c] = "up" =>
       /\ HoldsResult(toClient[c]) => Served(c)
       /\ Through(c) => Served(c)
\* A handler answers to the connection whose prefix its id has.
SenderInv == \A w \in running : w.from = w.id.ch
GateInv == SenderInv /\ \A c \in Channels : GateAt(c)

\* A queue to the daemon that gained no attach request and no other's invoke.
Trims(q, r, c) ==
  /\ HoldsAttach(r) => HoldsAttach(q)
  /\ Once(q) => Once(r)
  /\ OwnIds(q, c) => OwnIds(r, c)
\* A step that neither opens c nor attaches through it.
Frames(c) ==
  /\ conn'[c] = "gated" => conn[c] = "gated" /\ due'[c] = due[c]
  /\ conn[c] = "gated" => conn'[c] = "gated" \/ (toServer'[c] = <<>> /\ link'[c] # "up")
  /\ link'[c] = "up" => link[c] = "up" /\ (Served(c) => Served(c)')
  /\ Trims(toServer[c], toServer'[c], c)
  /\ HoldsResult(toClient'[c]) => HoldsResult(toClient[c])
  /\ Greeted(c)' => Greeted(c)
  /\ Through(c)' => Through(c) \/ HoldsResult(toClient[c])

\* Such a step keeps what is known of c.
LEMMA FramesKeep ==
  ASSUME NEW c \in Channels, GateAt(c), Frames(c)
  PROVE  GateAt(c)'
  <1> DEFINE q == toServer[c]
             r == toServer'[c]
             x == toClient[c]
             y == toClient'[c]
  <1>1. ~HoldsAttach(<<>>)
    BY Nothing DEF HoldsAttach
  <1>2. GateAt(c) /\ Frames(c)
    OBVIOUS
  <1>3. /\ HoldsAttach(r) => conn'[c] = "gated"
        /\ Once(r) /\ OwnIds(r, c)
        /\ HoldsResult(y) /\ link'[c] = "up" => Served(c)'
        /\ Through(c)' /\ link'[c] = "up" => Served(c)'
        /\ Greeted(c)' =>
             /\ link'[c] = "up" => conn'[c] = "gated"
             /\ ~HoldsAttach(r) /\ ~HoldsResult(y)
        /\ conn'[c] = "gated" => due'[c] = <<>>
    BY <1>1 DEF GateAt, Frames, Trims
  <1>4. HoldsAttach(r) = HoldsAttach(toServer[c])' /\ Once(r) = Once(toServer[c])' /\ OwnIds(r, c) = OwnIds(toServer[c], c)'
    BY DEF HoldsAttach, Once, OwnIds
  <1>5. HoldsResult(y) = HoldsResult(toClient[c])'
    BY DEF HoldsResult
  <1>6. QED BY <1>3, <1>4, <1>5 DEF GateAt

\* What becomes of a queue whose head is taken.
LEMMA TailTrims ==
  ASSUME NEW S, NEW q \in Seq(S), q # <<>>, NEW c
  PROVE  /\ Trims(q, q, c) /\ Trims(q, <<>>, c) /\ Trims(q, Tail(q), c)
         /\ Once(q) /\ Head(q).type = "attach" => ~HoldsAttach(Tail(q))
  <1> DEFINE t == Tail(q)
  <1>1. /\ Range(q) = Range(t) \cup {Head(q)} /\ Len(t) = Len(q) - 1 /\ Len(q) \in Nat \ {0}
        /\ t \in Seq(S)
        /\ \A k \in DOMAIN t : k + 1 \in DOMAIN q /\ t[k] = q[k + 1]
    BY Takes
  <1>2. DOMAIN t = 1 .. Len(q) - 1 /\ DOMAIN q = 1 .. Len(q) /\ Head(q) = q[1]
    BY <1>1
  <1> HIDE DEF t
  <1>3. Once(q) => Once(t)
    <2> SUFFICES ASSUME Once(q), NEW k \in DOMAIN t, NEW l \in DOMAIN t, t[k].type = "attach", t[l].type = "attach"
                 PROVE  k = l
      BY DEF Once
    <2>1. k + 1 = l + 1
      BY <1>1 DEF Once
    <2>2. k \in Int /\ l \in Int
      BY <1>2
    <2>3. QED BY <2>1, <2>2
  <1>4. ASSUME Once(q), Head(q).type = "attach", HoldsAttach(t) PROVE FALSE
    <2>1. PICK k \in DOMAIN t : t[k].type = "attach"
      BY <1>4 DEF HoldsAttach, Range
    <2>2. k + 1 \in DOMAIN q /\ q[k + 1].type = "attach" /\ 1 \in DOMAIN q /\ q[1].type = "attach"
      BY <1>1, <1>2, <1>4, <2>1
    <2>3. k + 1 = 1 /\ k \in 1 .. Len(q) - 1
      BY <1>2, <1>4, <2>1, <2>2 DEF Once
    <2>4. QED BY <1>1, <2>3
  <1>5. /\ HoldsAttach(t) => HoldsAttach(q)
        /\ OwnIds(q, c) => OwnIds(t, c)
    BY <1>1 DEF HoldsAttach, OwnIds
  <1>6. ~HoldsAttach(<<>>) /\ Once(<<>>) /\ OwnIds(<<>>, c)
    BY Nothing DEF HoldsAttach, Once, OwnIds
  <1>7. QED BY <1>3, <1>4, <1>5, <1>6 DEF Trims, t

\* A queue that gains the client's own invokes.
LEMMA JoinTrims ==
  ASSUME NEW q \in Seq(ToServerMessage), NEW r \in Seq(ToServerMessage), NEW c,
         \A k \in DOMAIN r : r[k].type = "invoke" /\ r[k].id.ch = c
  PROVE  Trims(q, Joined(q, r), c)
  <1> DEFINE j == Joined(q, r)
  <1>1. Range(j) = Range(q) \cup Range(r)
    BY Joins
  <1>2. \A x \in Range(r) : x.type = "invoke" /\ x.id.ch = c
    BY DEF Range
  <1>3. HoldsAttach(j) => HoldsAttach(q)
    BY <1>1, <1>2 DEF HoldsAttach
  <1>4. OwnIds(q, c) => OwnIds(j, c)
    BY <1>1, <1>2 DEF OwnIds
  <1>5. ASSUME NEW k \in DOMAIN j, j[k].type = "attach" PROVE k \in DOMAIN q /\ j[k] = q[k]
    <2>1. \/ k \in DOMAIN q /\ Joined(q, r)[k] = q[k]
          \/ k - Len(q) \in DOMAIN r /\ Joined(q, r)[k] = r[k - Len(q)]
      BY JoinedAt
    <2>2. QED BY <1>5, <2>1
  <1> HIDE DEF j
  <1>6. Once(q) => Once(j)
    BY <1>5 DEF Once
  <1>7. QED BY <1>3, <1>4, <1>6 DEF Trims, j

\* A step of the daemon frames c when it does these things to it at most.
LEMMA HostFrames ==
  ASSUME Types, h' = h, NEW c \in Channels,
         conn'[c] = "gated" => conn[c] = "gated" /\ due'[c] = due[c],
         conn[c] = "gated" => conn'[c] = "gated" \/ (toServer'[c] = <<>> /\ link'[c] # "up"),
         link'[c] = "up" => link[c] = "up" /\ (Served(c) => Served(c)'),
         toServer'[c] \in {toServer[c], <<>>} \/ (toServer[c] # <<>> /\ toServer'[c] = Tail(toServer[c])),
         \A x \in Range(toClient'[c]) : x.type = "attached" => x \in Range(toClient[c])
  PROVE  Frames(c)
  <1>1. toServer[c] \in Seq(ToServerMessage)
    BY HostFacts
  <1>2. Trims(toServer[c], toServer'[c], c)
    <2>1. CASE toServer[c] # <<>>
      BY <1>1, <2>1, TailTrims
    <2>2. CASE toServer[c] = <<>>
      BY <2>2 DEF Trims
    <2>3. QED BY <2>1, <2>2
  <1>3. HoldsResult(toClient'[c]) => HoldsResult(toClient[c])
    BY DEF HoldsResult
  <1>4. (Greeted(c)' <=> Greeted(c)) /\ (Through(c)' <=> Through(c))
    BY DEF Greeted, Through, Waiting
  <1>5. QED BY <1>2, <1>3, <1>4 DEF Frames

\* A connection the daemon drops, or a daemon that dies, frames every channel.
LEMMA DropFrames ==
  ASSUME Types, NEW b \in Channels, AttachDeadline(b) \/ DropSuperseded(b) \/ ServerNoticesClose(b),
         UNCHANGED handleVars, NEW c \in Channels
  PROVE  Frames(c)
  <1>1. /\ Forget({b}) /\ toClient' = toClient /\ b \in Connected
        /\ link' = link \/ CutLinks({b})
    BY DropTypes
  <1>2. link[b] = "cut" \/ CutLinks({b})
    BY DEF AttachDeadline, DropSuperseded, ServerNoticesClose, DropConnection
  <1>3. /\ conn'[c] = IF c = b THEN "gone" ELSE conn[c]
        /\ due'[c] = IF c = b THEN <<>> ELSE due[c]
        /\ toServer'[c] = IF c = b THEN <<>> ELSE toServer[c]
    BY <1>1 DEF Forget, Emptied
  <1>4. link'[c] = link[c] \/ (c = b /\ link'[c] = "cut")
    BY <1>1 DEF CutLinks
  <1>5. c = b => link'[c] = "cut"
    BY <1>1, <1>2, HostFacts DEF CutLinks
  <1>6. h' = h /\ toClient'[c] = toClient[c]
    BY <1>1 DEF handleVars
  <1>7. QED BY <1>3, <1>4, <1>5, <1>6, HostFrames DEF Served

\* A crash closes every connection.
LEMMA CrashFrames ==
  ASSUME Types, DaemonCrash, UNCHANGED handleVars, NEW c \in Channels
  PROVE  Frames(c)
  <1>1. /\ conn'[c] = (IF conn[c] = "unused" THEN "unused" ELSE "gone")
        /\ toServer'[c] = <<>> /\ due'[c] = <<>> /\ toClient' = toClient
        /\ link'[c] = IF c \in Connected THEN "cut" ELSE link[c]
    BY DEF DaemonCrash, Emptied, CutLinks
  <1>2. link[c] = "up" => c \in Connected
    BY ChannelFacts
  <1>3. link'[c] # "up" /\ conn'[c] # "gated"
    BY <1>1, <1>2
  <1>4. h' = h
    BY DEF handleVars
  <1>5. QED BY <1>1, <1>3, <1>4, HostFrames

\* A channel that breaks.
LEMMA CutFrames ==
  ASSUME Types, NEW b \in Channels, BreakChannel(b), NEW c \in Channels
  PROVE  Frames(c)
  <1>1. /\ UNCHANGED <<toClient, toServer>> /\ conn' = conn /\ due' = due /\ h' = h
        /\ link'[c] \in {link[c], "cut"}
    BY DEF BreakChannel, Cut, CutLinks, hostVars, handleVars
  <1>2. QED BY <1>1, HostFrames DEF Served

\* What writes no attach result and reads nothing.
LEMMA CalmFrames ==
  ASSUME Types, UNCHANGED handleVars, UNCHANGED <<link, toServer>>, NEW c \in Channels,
         conn'[c] = conn[c] /\ due'[c] = due[c],
         \A x \in Range(toClient'[c]) : x.type = "attached" => x \in Range(toClient[c])
  PROVE  Frames(c)
  <1>1. h' = h
    BY DEF handleVars
  <1>2. QED BY <1>1, HostFrames DEF Served

\* Pushes, the other client, a settlement that ages out.
LEMMA PushFrames ==
  ASSUME Types, NEW b, NEW e \in Events, NEW size \in FrameSizes, PushThrough(b, e, size),
         UNCHANGED handleVars, NEW c \in Channels
  PROVE  Frames(c)
  <1>1. /\ \A d \in Channels : \A x \in Range(toClient'[d]) :
              \/ x \in Range(toClient[d])
              \/ x \in PushMessages /\ x.seq = nextSeq /\ x.epoch = epoch
        /\ UNCHANGED <<link, toServer, hostVars>>
    BY PushedTypes
  <1>2. \A x \in PushMessages : x.type # "attached"
    BY DEF PushMessages
  <1>3. conn' = conn /\ due' = due
    BY <1>1 DEF hostVars
  <1>4. QED BY <1>1, <1>2, <1>3, CalmFrames

\* The steps that leave connections alone.
LEMMA OtherFrames ==
  ASSUME Types, PushFails \/ SettlementAgesOut \/ ForeignAttach \/ ForeignLeaves,
         UNCHANGED handleVars, NEW c \in Channels
  PROVE  Frames(c)
  <1>1. CASE PushFails \/ SettlementAgesOut
    <2>1. UNCHANGED <<link, toClient, toServer, conn, due>>
      BY <1>1, JournalStepTypes DEF wireVars, hostVars
    <2>2. QED BY <2>1, CalmFrames
  <1>2. CASE ForeignAttach \/ ForeignLeaves
    <2>1. /\ UNCHANGED <<storeVars, link, toServer, epoch, conn, due, running, ran, done>>
          /\ \A d \in Channels : \A x \in Range(toClient'[d]) :
                x \in Range(toClient[d]) \/ x = [type |-> "superseded"]
      BY <1>2, ForeignTypes
    <2>2. \A x : x = [type |-> "superseded"] => x.type # "attached"
      OBVIOUS
    <2>3. QED BY <2>1, <2>2, CalmFrames
  <1>3. QED BY <1>1, <1>2

\* The replay and the retained responses are written: a connection opens.
LEMMA ImmediateFrames ==
  ASSUME Types, NEW b \in Channels, RunImmediates(b), UNCHANGED handleVars, NEW c \in Channels
  PROVE  Frames(c)
  <1>1. /\ conn[b] = "attached" /\ toClient' = Written(toClient, OnlyTo(b, due[b]))
        /\ due' = [due EXCEPT ![b] = <<>>] /\ conn' = [conn EXCEPT ![b] = "open"]
        /\ UNCHANGED <<link, toServer>>
    BY DEF RunImmediates
  <1>2. due[b] \in Seq(DueMessage) /\ DueMessage \subseteq ToClientMessage
    BY HostFacts, Kinds
  <1>3. due[b] \in Seq(ToClientMessage)
    BY <1>2
  <1>4. \A x \in Range(due[b]) : x.type # "attached"
    <2>1. Range(due[b]) \subseteq DueMessage
      BY <1>2 DEF Range
    <2>2. \A x \in DueMessage : x.type # "attached"
      BY DEF DueMessage, PushMessages, Responses
    <2>3. QED BY <2>1, <2>2
  <1> DEFINE out == OnlyTo(b, due[b])
  <1>5. out \in [Channels -> Seq(ToClientMessage)] /\ (out[c] = due[b] \/ out[c] = <<>>)
    BY <1>3, Nothing DEF OnlyTo
  <1>6. toClient \in [Channels -> Seq(ToClientMessage)] /\ toClient' = Written(toClient, out)
    BY <1>1, HostFacts
  <1> HIDE DEF out
  <1>7. Range(toClient'[c]) \subseteq Range(toClient[c]) \cup Range(out[c])
    BY <1>5, <1>6, WritesRange
  <1>8. \A x \in Range(toClient'[c]) : x.type = "attached" => x \in Range(toClient[c])
    BY <1>4, <1>5, <1>7, Nothing
  <1>9. /\ conn'[c] = IF c = b THEN "open" ELSE conn[c]
        /\ due'[c] = IF c = b THEN <<>> ELSE due[c]
    BY <1>1, HostFacts
  <1>10. h' = h
    BY DEF handleVars
  <1>11. QED BY <1>1, <1>8, <1>9, <1>10, HostFrames DEF Served

\* A handler that finishes writes its response only.
LEMMA FinishWrites ==
  ASSUME Types, NEW w \in running, Finish(w)
  PROVE  \A d \in Channels :
           /\ Range(toClient'[d]) \subseteq Range(toClient[d]) \cup {Response(w)}
           /\ d \in SettlesTo(w) /\ link[d] = "up" => Response(w) \in Range(toClient'[d])
           /\ Range(toClient[d]) \subseteq Range(toClient'[d])
  <1> DEFINE out == [x \in Channels |-> IF x \in SettlesTo(w) THEN <<Response(w)>> ELSE <<>>]
             r == Response(w)
  <1>1. toClient' = Written(toClient, out)
    BY DEF Finish
  <1>2. r \in ToClientMessage
    BY HostFacts, Kinds
  <1>3. /\ out \in [Channels -> Seq(ToClientMessage)]
        /\ \A d \in Channels : Range(out[d]) = IF d \in SettlesTo(w) THEN {r} ELSE {}
    <2> DEFINE q == <<r>>
    <2>1. q \in Seq(ToClientMessage) /\ <<>> \in Seq(ToClientMessage) /\ Range(q) = {r} /\ Range(<<>>) = {}
      BY <1>2, One, Nothing
    <2>2. out = [x \in Channels |-> IF x \in SettlesTo(w) THEN q ELSE <<>>]
      OBVIOUS
    <2> HIDE DEF q, out, r
    <2>3. QED BY <2>1, <2>2
  <1> HIDE DEF out
  <1> TAKE d \in Channels
  <1>4. toClient[d] \in Seq(ToClientMessage) /\ out[d] \in Seq(ToClientMessage)
    BY <1>3, HostFacts
  <1>5. CASE link[d] = "up"
    <2>1. toClient'[d] = Joined(toClient[d], out[d])
      BY <1>1, <1>5, WritesTo
    <2>2. Range(toClient'[d]) = Range(toClient[d]) \cup Range(out[d])
      BY <1>4, <2>1, Joins
    <2>3. QED BY <1>3, <2>2
  <1>6. CASE link[d] # "up"
    <2>1. toClient'[d] = toClient[d]
      BY <1>1, <1>6, WritesTo
    <2>2. QED BY <1>6, <2>1
  <1>7. QED BY <1>5, <1>6

\* A handler finishes.
LEMMA FinishFrames ==
  ASSUME Types, NEW w \in running, Finish(w), UNCHANGED handleVars, NEW c \in Channels
  PROVE  Frames(c)
  <1>1. UNCHANGED <<link, toServer, conn, due>>
    BY DEF Finish
  <1>2. Range(toClient'[c]) \subseteq Range(toClient[c]) \cup {Response(w)}
    BY FinishWrites
  <1>3. Response(w).type # "attached"
    BY DEF Response
  <1>4. QED BY <1>1, <1>2, <1>3, CalmFrames

\* An attach that is served writes its result, and tells the one it displaces.
LEMMA ServeWrites ==
  ASSUME Types, NEW c \in Channels, NEW m \in Attaches, ServeAttach(c, m)
  PROVE  \A d \in Channels :
           /\ \A x \in Range(toClient'[d]) :
                \/ x \in Range(toClient[d]) \/ (d = c /\ x = AttachResult(m))
                \/ x = [type |-> "superseded"]
           /\ Range(toClient[d]) \subseteq Range(toClient'[d])
  <1> DEFINE u == AttachResult(m)
             v == [type |-> "superseded"]
             q == <<u>>
             r == <<v>>
             out == [x \in Channels |->
                       CASE x = c -> <<AttachResult(m)>>
                         [] x \in Displaced(c) -> <<[type |-> "superseded"]>>
                         [] OTHER -> <<>>]
  <1>1. toClient' = Written(toClient, out)
    BY DEF ServeAttach
  <1>2. u \in ToClientMessage /\ v \in ToClientMessage
    BY AttachMessages, Kinds
  <1>3. \A d \in Channels : out[d] \in {q, r, <<>>} /\ (d # c => out[d] \in {r, <<>>})
    OBVIOUS
  <1>4. out = [d \in Channels |-> out[d]]
    OBVIOUS
  <1>5. q \in Seq(ToClientMessage) /\ r \in Seq(ToClientMessage) /\ Range(q) = {u} /\ Range(r) = {v}
    BY <1>2, One
  <1>6. <<>> \in Seq(ToClientMessage) /\ Range(<<>>) = {}
    BY Nothing
  <1> HIDE DEF u, v, q, r, out
  <1> TAKE d \in Channels
  <1>7. out[d] \in Seq(ToClientMessage) /\ \A x \in Range(out[d]) : (d = c /\ x = u) \/ x = v
    BY <1>3, <1>5, <1>6
  <1>8. toClient[d] \in Seq(ToClientMessage)
    BY HostFacts
  <1>9. CASE link[d] = "up"
    <2>1. toClient'[d] = Joined(toClient[d], out[d])
      BY <1>1, <1>9, WritesTo
    <2>2. Range(toClient'[d]) = Range(toClient[d]) \cup Range(out[d])
      BY <1>7, <1>8, <2>1, Joins
    <2>3. QED BY <1>7, <2>2 DEF u, v
  <1>10. CASE link[d] # "up"
    <2>1. toClient'[d] = toClient[d]
      BY <1>1, <1>10, WritesTo
    <2>2. QED BY <2>1
  <1>11. QED BY <1>9, <1>10

\* The queue a request is read from, and the others.
LEMMA ReceiveTakes ==
  ASSUME Types, NEW b \in Channels, ServerReceive(b)
  PROVE  /\ toServer[b] # <<>> /\ toServer'[b] = Tail(toServer[b]) /\ Head(toServer[b]) \in ToServerMessage
         /\ \A c \in Channels : c # b => toServer'[c] = toServer[c]
         /\ Head(toServer[b]) \in Range(toServer[b])
         /\ link' = link /\ epoch' = epoch /\ nextSeq' = nextSeq /\ journalled' = journalled
  <1>1. toServer[b] # <<>> /\ toServer' = [toServer EXCEPT ![b] = Tail(@)] /\ link' = link /\ epoch' = epoch
        /\ UNCHANGED journalVars
    BY DEF ServerReceive
  <1>2. toServer \in [Channels -> Seq(ToServerMessage)]
    BY HostFacts
  <1>3. QED BY <1>1, <1>2, Takes DEF journalVars

\* A request that is read, but for an attach that is served.
LEMMA RequestFrames ==
  ASSUME Types, NEW b \in Channels, ServerReceive(b), NEW m, m = Head(toServer[b]),
         RefuseAttach(b, m) \/ DispatchInvoke(b, m), UNCHANGED handleVars, NEW c \in Channels
  PROVE  Frames(c)
  <1>1. UNCHANGED <<conn, due>> /\ link' = link /\ h' = h
    BY ReceiveTakes DEF RefuseAttach, DispatchInvoke, handleVars
  <1>2. toServer'[c] = toServer[c] \/ (toServer[c] # <<>> /\ toServer'[c] = Tail(toServer[c]))
    BY ReceiveTakes
  <1>3. \A x \in Range(toClient'[c]) : x.type = "attached" => x \in Range(toClient[c])
    <2>1. CASE RefuseAttach(b, m)
      <3> DEFINE q == <<[type |-> "refused"]>>
      <3>1. toClient' = Written(toClient, OnlyTo(b, q))
        BY <2>1 DEF RefuseAttach
      <3>2. q \in Seq(ToClientMessage) /\ \A x \in Range(q) : x.type # "attached"
        <4>1. q \in Seq(ToClientMessage) /\ Range(q) = {[type |-> "refused"]}
          BY Kinds, One
        <4>2. QED BY <4>1
      <3> HIDE DEF q
      <3> DEFINE out == OnlyTo(b, q)
      <3>3. out \in [Channels -> Seq(ToClientMessage)] /\ out[c] \in {q, <<>>}
        BY <3>2, Nothing DEF OnlyTo
      <3>4. toClient \in [Channels -> Seq(ToClientMessage)] /\ toClient' = Written(toClient, out)
        BY <3>1, HostFacts
      <3> HIDE DEF out
      <3>5. Range(toClient'[c]) \subseteq Range(toClient[c]) \cup Range(out[c])
        BY <3>3, <3>4, WritesRange
      <3>6. QED BY <3>2, <3>3, <3>5, Nothing
    <2>2. CASE DispatchInvoke(b, m)
      BY <2>2 DEF DispatchInvoke
    <2>3. QED BY <2>1, <2>2
  <1>4. QED BY <1>1, <1>2, <1>3, HostFrames DEF Served

\* An attach that is served: the only one of its connection.
LEMMA ServeGate ==
  ASSUME Types, NEW b \in Channels, ServerReceive(b), NEW m, m = Head(toServer[b]),
         m \in Attaches, ServeAttach(b, m), UNCHANGED handleVars,
         NEW c \in Channels, GateAt(c)
  PROVE  GateAt(c)'
  <1>1. /\ conn' = [conn EXCEPT ![b] = "attached"] /\ due' = [due EXCEPT ![b] = AttachDue(m)]
        /\ link' = link /\ h' = h
    BY ReceiveTakes DEF ServeAttach, handleVars
  <1>2. \A x \in Range(toClient'[c]) :
          x \in Range(toClient[c]) \/ (c = b /\ x = AttachResult(m)) \/ x = [type |-> "superseded"]
    BY ServeWrites
  <1>3. \A x : x = [type |-> "superseded"] => x.type # "attached"
    OBVIOUS
  <1>4. CASE c # b
    <2>1. conn'[c] = conn[c] /\ due'[c] = due[c] /\ toServer'[c] = toServer[c]
      BY <1>1, <1>4, HostFacts, ReceiveTakes
    <2>2. \A x \in Range(toClient'[c]) : x.type = "attached" => x \in Range(toClient[c])
      BY <1>2, <1>3, <1>4
    <2>3. Frames(c)
      BY <1>1, <2>1, <2>2, HostFrames DEF Served
    <2>4. QED BY <2>3, FramesKeep
  <1>5. CASE c = b
    <2> DEFINE q == toServer[b]
               t == Tail(q)
    <2>1. q \in Seq(ToServerMessage) /\ q # <<>> /\ toServer'[b] = t /\ m \in Range(q)
      BY HostFacts, ReceiveTakes
    <2>2. m.type = "attach"
      BY DEF Attaches
    <2>3. HoldsAttach(q) /\ Once(q) /\ OwnIds(q, b)
      BY <1>5, <2>1, <2>2 DEF HoldsAttach, GateAt
    <2>4. ~HoldsAttach(t) /\ Once(t) /\ OwnIds(t, b)
      <3>1. Head(q).type = "attach"
        BY <2>2
      <3> HIDE DEF q
      <3>2. Trims(q, t, b) /\ ~HoldsAttach(t)
        BY <2>1, <2>3, <3>1, TailTrims
      <3>3. QED BY <2>3, <3>2 DEF Trims
    <2>5. ~Greeted(b)
      BY <1>5, <2>3 DEF GateAt
    <2> HIDE DEF t
    <2>6. ~HoldsAttach(toServer[b])' /\ Once(toServer[b])' /\ OwnIds(toServer[b], b)'
      BY <2>1, <2>4 DEF HoldsAttach, Once, OwnIds
    <2>7. ~Greeted(b)'
      BY <1>1, <2>5 DEF Greeted
    <2>8. conn'[b] = "attached" /\ Served(b)'
      BY <1>1, HostFacts DEF Served
    <2>9. QED BY <1>5, <2>6, <2>7, <2>8 DEF GateAt
  <1>6. QED BY <1>4, <1>5

\* Handlers answer to whom they were dispatched by.
LEMMA SendersKept ==
  ASSUME Types, GateInv, DaemonStep, UNCHANGED handleVars
  PROVE  SenderInv'
  <1>0. SenderInv /\ \A w \in running : w.from = w.id.ch
    BY DEF GateInv, SenderInv
  <1>1. ASSUME running' \subseteq running PROVE SenderInv'
    BY <1>0, <1>1 DEF SenderInv
  <1>2. ASSUME NEW c \in Channels, ServerReceive(c) PROVE SenderInv'
    <2> DEFINE m == Head(toServer[c])
    <2>1. m \in Range(toServer[c])
      BY <1>2, ReceiveTakes
    <2>2. \/ m.type = "attach" /\ ServeAttach(c, m)
          \/ m.type = "attach" /\ RefuseAttach(c, m)
          \/ m.type = "invoke" /\ DispatchInvoke(c, m)
      BY <1>2 DEF ServerReceive
    <2>3. m.type = "invoke" => m.id.ch = c
      BY <2>1 DEF GateInv, GateAt, OwnIds
    <2> HIDE DEF m
    <2>4. running' = running \/ (m.type = "invoke" /\ running' = running \cup {[id |-> m.id, inv |-> m.inv, from |-> c]})
      BY <2>2 DEF ServeAttach, RefuseAttach, DispatchInvoke
    <2>5. QED BY <1>0, <2>3, <2>4 DEF SenderInv
  <1>3. ASSUME NEW c \in Channels, RunImmediates(c) PROVE running' \subseteq running
    BY <1>3 DEF RunImmediates
  <1>4. ASSUME NEW c \in Channels, AttachDeadline(c) \/ DropSuperseded(c) \/ ServerNoticesClose(c)
        PROVE  running' \subseteq running
    BY <1>4, DropTypes
  <1>5. ASSUME NEW w \in running, Finish(w) PROVE running' \subseteq running
    BY <1>5 DEF Finish
  <1>6. ASSUME NEW c, NEW e \in Events, NEW size \in FrameSizes, PushThrough(c, e, size)
        PROVE  running' \subseteq running
    BY <1>6 DEF PushThrough, hostVars
  <1>7. CASE PushFails \/ SettlementAgesOut
    BY <1>1, <1>7 DEF PushFails, SettlementAgesOut, hostVars
  <1>8. CASE ForeignAttach \/ ForeignLeaves
    BY <1>1, <1>8 DEF ForeignAttach, ForeignLeaves
  <1>9. CASE DaemonCrash
    BY <1>1, <1>9 DEF DaemonCrash
  <1>10. QED BY <1>1, <1>2, <1>3, <1>4, <1>5, <1>6, <1>7, <1>8, <1>9 DEF DaemonStep, SessionPush, HandlerPush

\* Every step of the daemon keeps the gate.
LEMMA DaemonGate ==
  ASSUME Types, GateInv, DaemonStep, UNCHANGED handleVars
  PROVE  GateInv'
  <1>1. \A c \in Channels : GateAt(c)
    BY DEF GateInv
  <1>2. SenderInv'
    BY SendersKept
  <1>3. ASSUME NEW c \in Channels PROVE GateAt(c)'
    <2>1. ASSUME Frames(c) PROVE GateAt(c)'
      BY <1>1, <2>1, FramesKeep
    <2>2. ASSUME NEW b \in Channels, ServerReceive(b) PROVE GateAt(c)'
      <3> DEFINE m == Head(toServer[b])
      <3>1. \/ m.type = "attach" /\ ServeAttach(b, m)
            \/ m.type = "attach" /\ RefuseAttach(b, m)
            \/ m.type = "invoke" /\ DispatchInvoke(b, m)
        BY <2>2 DEF ServerReceive
      <3>2. CASE m.type = "attach" /\ ServeAttach(b, m)
        <4>1. m \in Attaches
          BY <2>2, <3>2, ReceiveTakes, Kinds
        <4>2. QED BY <1>1, <2>2, <3>2, <4>1, ServeGate
      <3>3. CASE RefuseAttach(b, m) \/ DispatchInvoke(b, m)
        <4>1. Frames(c)
          BY <2>2, <3>3, RequestFrames
        <4>2. QED BY <2>1, <4>1
      <3>4. QED BY <3>1, <3>2, <3>3
    <2>3. ASSUME NEW b \in Channels, RunImmediates(b) PROVE Frames(c)
      BY <2>3, ImmediateFrames
    <2>4. ASSUME NEW b \in Channels, AttachDeadline(b) \/ DropSuperseded(b) \/ ServerNoticesClose(b)
          PROVE  Frames(c)
      BY <2>4, DropFrames
    <2>5. ASSUME NEW w \in running, Finish(w) PROVE Frames(c)
      BY <2>5, FinishFrames
    <2>6. ASSUME NEW b, NEW e \in Events, NEW size \in FrameSizes, PushThrough(b, e, size)
          PROVE  Frames(c)
      BY <2>6, PushFrames
    <2>7. CASE PushFails \/ SettlementAgesOut \/ ForeignAttach \/ ForeignLeaves
      BY <2>1, <2>7, OtherFrames
    <2>8. CASE DaemonCrash
      BY <2>1, <2>8, CrashFrames
    <2>9. QED BY <2>1, <2>2, <2>3, <2>4, <2>5, <2>6, <2>7, <2>8 DEF DaemonStep, SessionPush, HandlerPush
  <1>4. QED BY <1>2, <1>3 DEF GateInv

\* A calm step of the shell.
LEMMA CalmGate ==
  ASSUME Types, CalmStep, UNCHANGED <<storeVars, hostVars>>, NEW c \in Channels
  PROVE  Frames(c)
  <1> DEFINE closing == {d \in Channels : h.rpc[d].open /\ ~h'.rpc[d].open}
  <1>1. /\ CutLinks(closing) /\ toClient' = Emptied(toClient, closing) /\ toServer' = toServer /\ Quiet(h, h')
    BY DEF CalmStep, QuietStep, Becomes
  <1> HIDE DEF closing
  <1>2. link'[c] \in {link[c], "cut"} /\ toClient'[c] \in {toClient[c], <<>>}
    BY <1>1 DEF CutLinks, Emptied
  <1>3. conn' = conn /\ due' = due
    BY DEF hostVars
  <1>4. HoldsResult(toClient'[c]) => HoldsResult(toClient[c])
    BY <1>2, Nothing DEF HoldsResult
  <1>5. Greeted(c)' => Greeted(c)
    BY <1>1 DEF Greeted, Quiet, Halts, Moving
  <1>6. Through(c)' => Through(c)
    <2>1. h'.rpc[c].open => h.rpc[c].open
      BY <1>1 DEF Quiet, SameClient
    <2>2. CASE Shut
      BY <2>2 DEF Shut, Through
    <2>3. CASE Steady
      <3>1. Waiting(c) => Waiting(c)'
        BY <2>3 DEF Waiting, Steady, Moving
      <3>2. QED BY <2>1, <2>3, <3>1 DEF Through, Steady
    <2>4. QED BY <2>2, <2>3 DEF CalmStep
  <1>7. QED BY <1>1, <1>2, <1>3, <1>4, <1>5, <1>6 DEF Frames, Trims, Served

\* A dispatch writes the invokes of its own connection.
LEMMA CallGate ==
  ASSUME Types, NEW is, NEW q, Calls(is, q), UNCHANGED <<storeVars, hostVars>>, NEW c \in Channels,
         \A a \in Attempts : \/ h'.attempt[a] = h.attempt[a]
                             \/ h.attempt[a].pc = "reconciling" /\ h'.attempt[a].pc = "idle"
  PROVE  Frames(c)
  <1>1. /\ link' = link /\ toClient' = toClient /\ h'.client = h.client
        /\ h'.rpc[c].open = h.rpc[c].open
        /\ toServer'[c] = IF Up /\ c = h.client /\ link[c] = "up" THEN Joined(toServer[c], q) ELSE toServer[c]
    BY DEF Calls
  <1>2. conn' = conn /\ due' = due
    BY DEF hostVars
  <1>3. Trims(toServer[c], toServer'[c], c)
    <2>1. CASE Up /\ c = h.client /\ link[c] = "up"
      <3>1. q \in Seq(ToServerMessage)
        <4>1. InvokeMessages \subseteq ToServerMessage
          BY DEF ToServerMessage
        <4>2. q \in Seq(InvokeMessages)
          BY DEF Calls
        <4>3. QED BY <4>1, <4>2
      <3>2. \A k \in DOMAIN q : q[k].type = "invoke" /\ q[k].id.ch = c
        BY <2>1 DEF Calls
      <3>3. toServer[c] \in Seq(ToServerMessage)
        BY HostFacts
      <3>4. Trims(toServer[c], Joined(toServer[c], q), c)
        BY <3>1, <3>2, <3>3, JoinTrims
      <3>5. QED BY <1>1, <2>1, <3>4
    <2>2. CASE ~(Up /\ c = h.client /\ link[c] = "up")
      <3>1. toServer'[c] = toServer[c]
        BY <1>1, <2>2
      <3>2. QED BY <3>1 DEF Trims
    <2>3. QED BY <2>1, <2>2
  <1>4. Greeted(c)' => Greeted(c)
    BY DEF Greeted
  <1>5. Through(c)' => Through(c)
    <2>1. Waiting(c) => Waiting(c)'
      BY DEF Waiting
    <2>2. QED BY <1>1, <2>1 DEF Through
  <1>6. QED BY <1>1, <1>2, <1>3, <1>4, <1>5 DEF Frames, Served

\* invoke() sends through its own connection.
LEMMA InvokeFrames ==
  ASSUME Types, NEW i \in MyInvokes, Invoke(i), UNCHANGED <<storeVars, hostVars>>, NEW c \in Channels
  PROVE  Frames(c)
  <1>1. PICK q : Calls({i}, q)
    BY InvokeCalls
  <1>2. h' = [h EXCEPT !.owned = h'.owned, !.wire = h'.wire, !.rpc = h'.rpc] /\ h \in HandleRecord
    BY InvokeCalls, HostFacts
  <1>3. h'.attempt = h.attempt
    BY <1>2 DEF HandleRecord
  <1>4. QED BY <1>1, <1>3, CallGate

\* So does a reattach.
LEMMA ContinueFrames ==
  ASSUME Types, NEW a \in Attempts, Continue(a), UNCHANGED <<storeVars, hostVars>>, NEW c \in Channels
  PROVE  Frames(c)
  <1>1. PICK is : \E q : Reattaches(a, is) /\ Calls(is, q)
    BY ContinueCalls
  <1>2. PICK q : Reattaches(a, is) /\ Calls(is, q)
    BY <1>1
  <1>3. h.attempt[a].pc = "reconciling" /\ h'.attempt = [h.attempt EXCEPT ![a] = Idle]
    BY <1>2 DEF Reattaches
  <1>4. h.attempt \in [Attempts -> AttemptRecord]
    BY HostFacts DEF HandleRecord, AttemptSet
  <1>5. \A b \in Attempts : \/ h'.attempt[b] = h.attempt[b]
                            \/ h.attempt[b].pc = "reconciling" /\ h'.attempt[b].pc = "idle"
    BY <1>3, <1>4, IdleTypes
  <1>6. QED BY <1>2, <1>5, CallGate

\* A message is read that no attach request answers.
LEMMA ReadFrames ==
  ASSUME Types, NEW b \in Channels, toClient[b] # <<>>, toClient' = [toClient EXCEPT ![b] = Tail(@)],
         toServer' = toServer, link' = link, UNCHANGED <<storeVars, hostVars>>, NEW c \in Channels,
         Greeted(c)' => Greeted(c), Through(c)' => Through(c) \/ HoldsResult(toClient[c])
  PROVE  Frames(c)
  <1>1. toClient[b] \in Seq(ToClientMessage)
    BY HostFacts
  <1>2. Range(toClient'[c]) \subseteq Range(toClient[c])
    <2>1. toClient'[c] = IF c = b THEN Tail(toClient[b]) ELSE toClient[c]
      BY HostFacts
    <2>2. Range(Tail(toClient[b])) \subseteq Range(toClient[b])
      BY <1>1, Takes
    <2>3. QED BY <2>1, <2>2
  <1>3. HoldsResult(toClient'[c]) => HoldsResult(toClient[c])
    BY <1>2 DEF HoldsResult
  <1>4. conn' = conn /\ due' = due
    BY DEF hostVars
  <1>5. QED BY <1>3, <1>4 DEF Frames, Trims, Served

\* The hello is answered with the connection's attach request.
LEMMA HelloGate ==
  ASSUME Types, Sound(h), NEW b \in Channels, ReceiveHello(b), h.rpc[b].open, toClient[b] # <<>>,
         UNCHANGED <<storeVars, hostVars>>, NEW c \in Channels, GateAt(c)
  PROVE  GateAt(c)'
  <1> DEFINE q == AttachRequest
             r == <<q>>
  <1>1. PICK a \in Attempts :
          /\ h.attempt[a].ch = b /\ h.attempt[a].pc = "hello"
          /\ h' = [h EXCEPT !.attempt[a].pc = "attaching"]
          /\ toServer' = Written(toServer, OnlyTo(b, r)) /\ link' = link
          /\ toClient' = [toClient EXCEPT ![b] = Tail(@)]
    BY DEF ReceiveHello
  <1>2. q.type = "attach" /\ h \in HandleRecord /\ toServer \in [Channels -> Seq(ToServerMessage)]
    BY HostFacts DEF AttachRequest
  <1> HIDE DEF q
  <1> DEFINE f == [h.attempt EXCEPT ![a].pc = "attaching"]
  <1>3. h' = [h EXCEPT !.attempt = f]
    BY <1>1, <1>2 DEF HandleRecord
  <1>4. f[a].pc = "attaching" /\ f[a].ch = b /\ \A x \in Attempts \ {a} : f[x] = h.attempt[x]
    BY <1>1, <1>2 DEF HandleRecord, AttemptSet, AttemptRecord
  <1> HIDE DEF f
  <1>5. h'.client = h.client /\ h'.rpc = h.rpc /\ h'.attempt = f
    BY <1>2, <1>3 DEF HandleRecord
  <1>6. conn' = conn /\ due' = due
    BY DEF hostVars
  <1>7. \A x \in Attempts \ {a} : h.attempt[x].pc = "idle"
    <2>1. h.attempt[a].pc # "idle"
      BY <1>1
    <2>2. QED BY <2>1, NoOther
  <1>8. CASE c # b
    <2>1. toClient'[c] = toClient[c]
      BY <1>1, <1>8, HostFacts
    <2>2. toServer'[c] = toServer[c]
      <3> HIDE DEF r
      <3>1. Written(toServer, OnlyTo(b, r))[c] = toServer[c]
        BY <1>2, <1>8, WritesOther
      <3>2. QED BY <1>1, <3>1
    <2>3. Greeted(c)' => Greeted(c)
      BY <1>4, <1>5, <1>8 DEF Greeted
    <2>4. Waiting(c) => Waiting(c)'
      BY <1>1, <1>4, <1>5, <1>8 DEF Waiting
    <2>5. Through(c)' => Through(c)
      BY <1>5, <2>4 DEF Through
    <2>6. Frames(c)
      BY <1>1, <1>6, <2>1, <2>2, <2>3, <2>5 DEF Frames, Trims, Served
    <2>7. QED BY <2>6, FramesKeep
  <1>9. CASE c = b
    <2>1. Greeted(b)
      BY <1>1 DEF Greeted
    <2>2. /\ conn[b] = "gated" => due[b] = <<>>
          /\ Once(toServer[b]) /\ OwnIds(toServer[b], b)
          /\ link[b] = "up" => conn[b] = "gated"
          /\ ~HoldsAttach(toServer[b]) /\ ~HoldsResult(toClient[b])
      BY <1>9, <2>1 DEF GateAt
    <2>3. ~Greeted(b)'
      BY <1>4, <1>5, <1>7 DEF Greeted
    <2>4. ~Through(b)'
      <3>1. Waiting(b)'
        BY <1>4, <1>5 DEF Waiting
      <3>2. QED BY <3>1 DEF Through
    <2>5. ~HoldsResult(toClient[b])'
      <3>1. toClient'[b] = Tail(toClient[b])
        BY <1>1, HostFacts
      <3>2. toClient[b] \in Seq(ToClientMessage)
        BY HostFacts
      <3>3. Range(toClient'[b]) \subseteq Range(toClient[b])
        BY <3>1, <3>2, Takes
      <3>4. QED BY <2>2, <3>3 DEF HoldsResult
    <2>6. /\ HoldsAttach(toServer[b])' => conn'[b] = "gated"
          /\ Once(toServer[b])' /\ OwnIds(toServer[b], b)'
      <3>1. CASE link[b] # "up"
        <4>1. toServer'[b] = toServer[b]
          <5> HIDE DEF r
          <5>1. Written(toServer, OnlyTo(b, r))[b] = toServer[b]
            BY <1>2, <3>1, WritesOther
          <5>2. QED BY <1>1, <5>1
        <4>2. QED BY <2>2, <4>1 DEF HoldsAttach, Once, OwnIds
      <3>2. CASE link[b] = "up"
        <4> DEFINE j == Joined(toServer[b], r)
        <4>1. toServer'[b] = j
          <5> HIDE DEF r
          <5>1. Written(toServer, OnlyTo(b, r))[b] = Joined(toServer[b], r)
            BY <3>2, WritesHere
          <5>2. QED BY <1>1, <5>1
        <4>2. r \in Seq({q}) /\ Range(r) = {q} /\ DOMAIN r = {1} /\ r[1] = q
          BY One
        <4>3. toServer[b] \in Seq(ToServerMessage \cup {q}) /\ r \in Seq(ToServerMessage \cup {q})
          BY <1>2, <4>2
        <4> HIDE DEF r
        <4>4. Range(j) = Range(toServer[b]) \cup {q}
          BY <4>2, <4>3, Joins
        <4>5. ASSUME NEW k \in DOMAIN j, j[k].type = "attach" PROVE k - Len(toServer[b]) = 1 /\ k \in Int
          <5>1. /\ k \in Int
                /\ \/ k \in DOMAIN toServer[b] /\ Joined(toServer[b], r)[k] = toServer[b][k]
                   \/ k - Len(toServer[b]) \in DOMAIN r /\ Joined(toServer[b], r)[k] = r[k - Len(toServer[b])]
            BY <4>3, JoinedAt
          <5>2. ~(k \in DOMAIN toServer[b] /\ j[k] = toServer[b][k])
            BY <2>2, <4>5 DEF HoldsAttach, Range
          <5>3. QED BY <4>2, <5>1, <5>2
        <4>6. Len(toServer[b]) \in Nat
          BY <4>3
        <4> HIDE DEF j
        <4>7. Once(j)
          BY <4>5, <4>6 DEF Once
        <4>8. OwnIds(j, b)
          BY <1>2, <2>2, <4>4 DEF OwnIds
        <4>9. QED BY <1>6, <2>2, <3>2, <4>1, <4>7, <4>8 DEF Once, OwnIds
      <3>3. QED BY <3>1, <3>2
    <2>7. QED BY <1>6, <1>9, <2>2, <2>3, <2>4, <2>5, <2>6 DEF GateAt
  <1>10. QED BY <1>8, <1>9

\* A message the shell reads.
LEMMA ReadGate ==
  ASSUME Types, Sound(h), NEW b \in Channels, Reads(b), UNCHANGED <<storeVars, hostVars>>,
         NEW c \in Channels, GateAt(c)
  PROVE  GateAt(c)'
  <1> DEFINE m == Head(toClient[b])
  <1>1. h.rpc[b].open /\ toClient[b] # <<>> /\ h \in HandleRecord /\ toClient[b] \in Seq(ToClientMessage)
    BY HostFacts DEF Reads
  <1>2. ASSUME Frames(c) PROVE GateAt(c)'
    BY <1>2, FramesKeep
  <1>3. CASE m.type = "hello" /\ ReceiveHello(b)
    BY <1>1, <1>3, HelloGate
  <1>4. CASE m.type = "attached" /\ ReceiveAttached(b, m)
    <2>1. m \in Range(toClient[b])
      BY <1>1, Takes
    <2> HIDE DEF m
    <2>2. PICK a \in Attempts :
            /\ h.attempt[a].ch = b /\ h.attempt[a].pc = "attaching"
            /\ h' = [h EXCEPT !.attempt[a].pc = "reconciling", !.attempt[a].result = m]
            /\ toClient' = [toClient EXCEPT ![b] = Tail(@)] /\ toServer' = toServer /\ link' = link
      BY <1>4 DEF ReceiveAttached
    <2> DEFINE f == [h.attempt EXCEPT ![a].pc = "reconciling", ![a].result = m]
    <2>3. h' = [h EXCEPT !.attempt = f]
      BY <1>1, <2>2 DEF HandleRecord
    <2>4. f[a].pc = "reconciling" /\ f[a].ch = b /\ \A x \in Attempts \ {a} : f[x] = h.attempt[x]
      BY <1>1, <2>2 DEF HandleRecord, AttemptSet, AttemptRecord
    <2> HIDE DEF f
    <2>5. h'.client = h.client /\ h'.rpc = h.rpc /\ h'.attempt = f
      BY <1>1, <2>3 DEF HandleRecord
    <2>6. Greeted(c)' => Greeted(c)
      BY <2>4, <2>5 DEF Greeted
    <2>7. Through(c)' => Through(c) \/ HoldsResult(toClient[c])
      <3>1. CASE c = b
        BY <1>4, <2>1, <3>1 DEF HoldsResult
      <3>2. CASE c # b
        <4>1. Waiting(c) => Waiting(c)'
          BY <2>2, <2>4, <2>5, <3>2 DEF Waiting
        <4>2. QED BY <2>5, <4>1 DEF Through
      <3>3. QED BY <3>1, <3>2
    <2>8. Frames(c)
      BY <1>1, <2>2, <2>6, <2>7, ReadFrames
    <2>9. QED BY <1>2, <2>8
  <1>5. ASSUME h'.attempt = h.attempt, h'.client = h.client,
               \A d \in Channels : h'.rpc[d].open = h.rpc[d].open,
               toClient' = [toClient EXCEPT ![b] = Tail(@)], toServer' = toServer, link' = link
        PROVE  GateAt(c)'
    <2>1. (Greeted(c)' => Greeted(c)) /\ (Through(c)' => Through(c))
      BY <1>5 DEF Greeted, Through, Waiting
    <2>2. Frames(c)
      BY <1>1, <1>5, <2>1, ReadFrames
    <2>3. QED BY <1>2, <2>2
  <1>6. CASE m.type = "push" /\ ReceivePush(b, m)
    <2>1. /\ h' = [h EXCEPT !.rpc = h'.rpc, !.lastSeq = h'.lastSeq]
          /\ \A d \in Channels : h'.rpc[d].open = h.rpc[d].open
      BY <1>1, <1>6, PushTypes
    <2> DEFINE p == h'.rpc
               n == h'.lastSeq
    <2>2. h' = [h EXCEPT !.rpc = p, !.lastSeq = n]
      BY <2>1
    <2> HIDE DEF p, n
    <2>3. h'.attempt = h.attempt /\ h'.client = h.client
      BY <1>1, <2>2 DEF HandleRecord
    <2>4. toClient' = [toClient EXCEPT ![b] = Tail(@)] /\ toServer' = toServer /\ link' = link
      BY <1>6 DEF ReceivePush
    <2>5. QED BY <1>5, <2>1, <2>3, <2>4
  <1>7. CASE m.type = "response" /\ ReceiveResponse(b, m)
    <2>1. /\ h' = [h EXCEPT !.rpc = h'.rpc, !.owned = h'.owned]
          /\ \A d \in Channels : h'.rpc[d].open = h.rpc[d].open
      BY <1>1, <1>7, ResponseTypes
    <2> DEFINE p == h'.rpc
               o == h'.owned
    <2>2. h' = [h EXCEPT !.rpc = p, !.owned = o]
      BY <2>1
    <2> HIDE DEF p, o
    <2>3. h'.attempt = h.attempt /\ h'.client = h.client
      BY <1>1, <2>2 DEF HandleRecord
    <2>4. toClient' = [toClient EXCEPT ![b] = Tail(@)] /\ toServer' = toServer /\ link' = link
      BY <1>7 DEF ReceiveResponse
    <2>5. QED BY <1>5, <2>1, <2>3, <2>4
  <1>8. CASE m.type = "superseded" /\ ReceiveSuperseded(b)
    <2> DEFINE u == FailOwned(h)
               t == TRUE
    <2>1. h' = [u EXCEPT !.stopped = t, !.state = "disconnected"]
      BY <1>8 DEF ReceiveSuperseded
    <2>2. u \in HandleRecord /\ Face(h, u)
      BY <1>1, Fails, QuietIs, SettledFace
    <2> HIDE DEF u, t
    <2>3. h'.attempt = h.attempt /\ h'.client = h.client /\ \A d \in Channels : h'.rpc[d].open = h.rpc[d].open
      BY <2>1, <2>2 DEF HandleRecord, Face
    <2>4. toClient' = [toClient EXCEPT ![b] = Tail(@)] /\ toServer' = toServer /\ link' = link
      BY <1>8 DEF ReceiveSuperseded
    <2>5. QED BY <1>5, <2>3, <2>4
  <1>9. QED BY <1>3, <1>4, <1>6, <1>7, <1>8 DEF Reads

\* A new channel is gated, and nothing was written to it yet.
LEMMA ConnectGate ==
  ASSUME Types, NEW a \in Attempts, NEW b \in Channels, Connect(a, b), NEW c \in Channels, GateAt(c)
  PROVE  GateAt(c)'
  <1> DEFINE hello == [type |-> "hello"]
  <1>1. /\ h' = [h EXCEPT !.attempt = h'.attempt, !.client = b, !.rpc = h'.rpc]
        /\ h'.attempt[a].pc = "hello" /\ h'.attempt[a].ch = b
        /\ \A x \in Attempts : x # a => h'.attempt[x] = h.attempt[x]
        /\ \A d \in Channels : d # b => h'.rpc[d] = h.rpc[d]
    BY ConnectTypes
  <1>2. /\ link[b] = "unused" /\ h.attempt[a].pc = "opening"
        /\ conn' = [conn EXCEPT ![b] = "gated"] /\ link' = [link EXCEPT ![b] = "up"]
        /\ toClient' = [toClient EXCEPT ![b] = <<hello>>]
        /\ toServer' = toServer /\ due' = due
    BY DEF Connect, ChannelOpens, Accept
  <1>3. hello.type # "attached" /\ Range(<<hello>>) = {hello}
    BY DEF Range
  <1> HIDE DEF hello
  <1>4. h'.client = b
    <2> DEFINE f == h'.attempt
               p == h'.rpc
    <2>1. h' = [h EXCEPT !.attempt = f, !.client = b, !.rpc = p] /\ h \in HandleRecord
      BY <1>1, HostFacts
    <2> HIDE DEF f, p
    <2>2. QED BY <2>1 DEF HandleRecord
  <1>5. CASE c # b
    <2>1. /\ conn'[c] = conn[c] /\ link'[c] = link[c] /\ toClient'[c] = toClient[c]
          /\ toServer'[c] = toServer[c] /\ due'[c] = due[c]
      BY <1>2, <1>5, HostFacts
    <2>2. Greeted(c)' => Greeted(c)
      BY <1>1, <1>5 DEF Greeted
    <2>3. ~Through(c)'
      BY <1>4, <1>5 DEF Through
    <2>4. Frames(c)
      BY <2>1, <2>2, <2>3 DEF Frames, Trims, Served
    <2>5. QED BY <2>4, FramesKeep
  <1>6. CASE c = b
    <2>1. toServer'[b] = <<>> /\ due'[b] = <<>>
      BY <1>2, ChannelFacts
    <2>2. conn'[b] = "gated" /\ toClient'[b] = <<hello>>
      BY <1>2, HostFacts
    <2>3. ~HoldsResult(toClient[b])'
      BY <1>3, <2>2 DEF HoldsResult
    <2>4. ~HoldsAttach(toServer[b])' /\ Once(toServer[b])' /\ OwnIds(toServer[b], b)'
      BY <2>1, Nothing DEF HoldsAttach, Once, OwnIds
    <2>5. ~Through(b)'
      BY <1>1 DEF Through, Waiting
    <2>6. QED BY <1>6, <2>1, <2>2, <2>3, <2>4, <2>5 DEF GateAt
  <1>7. QED BY <1>5, <1>6

\* Every step keeps the gate.
LEMMA GateStep ==
  ASSUME Types, AttemptInv, GateInv, [Next]_vars
  PROVE  GateInv'
  <1>0. Sound(h) /\ SenderInv /\ \A c \in Channels : GateAt(c)
    BY DEF AttemptInv, GateInv
  <1>1. ASSUME running' = running PROVE SenderInv'
    BY <1>0, <1>1 DEF SenderInv
  <1>2. ASSUME running' = running, \A c \in Channels : GateAt(c)' \/ Frames(c) PROVE GateInv'
    <2>1. \A c \in Channels : GateAt(c)'
      BY <1>0, <1>2, FramesKeep
    <2>2. QED BY <1>1, <1>2, <2>1 DEF GateInv
  <1>3. CASE UNCHANGED vars
    <2>1. /\ UNCHANGED <<link, toClient, toServer, conn, due, h, running>>
      BY <1>3 DEF vars, wireVars, hostVars, handleVars
    <2>2. QED BY <1>0, <2>1 DEF GateInv, SenderInv, GateAt, Greeted, Through, Waiting, Served
  <1>4. ASSUME NEW a \in Attempts, NEW b \in Channels, Connect(a, b) PROVE GateInv'
    <2>1. running' = running
      BY <1>4 DEF Connect, Accept
    <2>2. QED BY <1>0, <1>2, <1>4, <2>1, ConnectGate
  <1>5. CASE DaemonStep /\ UNCHANGED handleVars
    BY <1>5, DaemonGate
  <1>6. ASSUME NEW b \in Channels, BreakChannel(b) PROVE GateInv'
    <2>1. running' = running
      BY <1>6 DEF BreakChannel, hostVars
    <2>2. QED BY <1>2, <1>6, <2>1, CutFrames
  <1>7. CASE ShellStep /\ UNCHANGED <<storeVars, hostVars>>
    <2>1. running' = running
      BY <1>7 DEF hostVars
    <2>2. CASE CalmStep
      BY <1>2, <1>7, <2>1, <2>2, CalmGate
    <2>3. ASSUME NEW b \in Channels, Reads(b) PROVE GateInv'
      BY <1>0, <1>2, <1>7, <2>1, <2>3, ReadGate
    <2>4. ASSUME NEW i \in MyInvokes, Invoke(i) PROVE GateInv'
      BY <1>2, <1>7, <2>1, <2>4, InvokeFrames
    <2>5. ASSUME NEW a \in Attempts, Continue(a) PROVE GateInv'
      BY <1>2, <1>7, <2>1, <2>5, ContinueFrames
    <2>6. QED BY <1>0, <1>7, <2>2, <2>3, <2>4, <2>5, CalmSteps
  <1>8. QED BY <1>3, <1>4, <1>5, <1>6, <1>7 DEF Next

\* The initial states have no connection.
LEMMA GateStart ==
  ASSUME Init
  PROVE  GateInv
  <1>1. /\ running = {} /\ \A c \in Channels : toClient[c] = <<>> /\ toServer[c] = <<>> /\ due[c] = <<>>
    BY InitTypes
  <1>2. \A c \in Channels : conn[c] = "unused" /\ link[c] = "unused"
    BY DEF Init, InitHost, InitWires
  <1>3. \A a \in Attempts : h.attempt[a].pc = "idle"
    BY IdleTypes DEF Init, InitHandle
  <1>4. ~HoldsAttach(<<>>) /\ Once(<<>>) /\ \A c : OwnIds(<<>>, c)
    BY Nothing DEF HoldsAttach, Once, OwnIds
  <1>5. ASSUME NEW c \in Channels PROVE GateAt(c)
    BY <1>1, <1>2, <1>3, <1>4 DEF GateAt, Greeted
  <1>6. QED BY <1>1, <1>5 DEF GateInv, SenderInv

\* A connection attaches at most once, behind its gate, and what was attached
\* through an open channel is served there (RpcServer.handleAttach).
THEOREM GateInvariant ==
  ASSUME OneCaller
  PROVE  Spec => []GateInv
  <1>1. Init => GateInv
    BY GateStart
  <1>2. Types /\ AttemptInv /\ GateInv /\ [Next]_vars => GateInv'
    BY GateStep
  <1>3. QED BY <1>1, <1>2, TypesInvariant, AttemptInvariant, PTL DEF Spec

----------------------------------------------------------------------------
(* What the connected client waits for can be answered.                    *)
\* Where the answer to id can come from, on channel c.
Asking(q, id) == \E x \in Range(q) : x.type = "invoke" /\ x.id = id
Answering(q, id) == \E x \in Range(q) : x.type = "response" /\ x.id = id
Running(id) == \E w \in running : w.id = id
Broken(c) == link[c] = "cut" \/ c \in doomed
Good(id, c) ==
  \/ <<c, id>> \in dropped \/ Broken(c) \/ Running(id)
  \/ Asking(toServer[c], id) \/ Answering(due[c], id) \/ Answering(toClient[c], id)

\* An attach result that accounts for id.
Known(id, r) == id \in DOMAIN r.verdict /\ r.verdict[id] # "unknown"
Tells(q, id) == \E x \in Range(q) : x.type = "attached" /\ Known(id, x)
\* The handle is attaching through c, and no result that is in accounts for id,
\* the id of an earlier connection: the reattach will lose it or send it again.
Stale(id, c) ==
  /\ id.ch # c
  /\ \E a \in Attempts : Moving(h.attempt[a])
  /\ ~Tells(toClient[c], id)
  /\ \A a \in Attempts : h.attempt[a].pc = "reconciling" => ~Known(id, h.attempt[a].result)

\* Every invoke that is owed has an answer to come, or will be reconciled.
Awaits(id, i, c) == h.owned[i] = "owned" /\ h.wire[i] = id /\ h.client = c /\ h.rpc[c].open
WaitAt(id, i, c) == Awaits(id, i, c) => Good(id, c) \/ Stale(id, c)
WaitInv == \A id \in CallId, i \in MyInvokes, c \in Channels : WaitAt(id, i, c)

\* A step that loses no request and no answer on c, but with the channel.
Keeping(id, c) ==
  \/ Broken(c)'
  \/ /\ Broken(c) => Broken(c)'
     /\ Asking(toServer[c], id) => Asking(toServer'[c], id) \/ Running(id)'
     /\ Answering(due[c], id) => Answering(due'[c], id) \/ Answering(toClient'[c], id)
     /\ Answering(toClient[c], id) => Answering(toClient'[c], id)
     /\ Running(id) => Running(id)' \/ Answering(toClient'[c], id)

\* Such a step keeps what can be answered.
LEMMA GoodKept ==
  ASSUME NEW c \in Channels, NEW id \in CallId, Keeping(id, c), dropped \subseteq dropped', Good(id, c)
  PROVE  Good(id, c)'
  <1> DEFINE t == toServer'[c]
             u == due'[c]
             v == toClient'[c]
  <1>1. CASE Broken(c)'
    BY <1>1 DEF Good
  <1>2. CASE ~Broken(c)'
    <2>1. \/ <<c, id>> \in dropped' \/ Broken(c)' \/ Running(id)'
          \/ Asking(t, id) \/ Answering(u, id) \/ Answering(v, id)
      BY <1>2 DEF Good, Keeping
    <2>2. /\ Asking(t, id) => Asking(toServer[c], id)'
          /\ Answering(u, id) => Answering(due[c], id)'
          /\ Answering(v, id) => Answering(toClient[c], id)'
      BY DEF Asking, Answering
    <2> HIDE DEF t, u, v
    <2>3. QED BY <2>1, <2>2 DEF Good
  <1>3. QED BY <1>1, <1>2

\* And what is awaited, if the handle has no part in it.
LEMMA WaitKept ==
  ASSUME NEW c \in Channels, NEW i \in MyInvokes, NEW id \in CallId, UNCHANGED handleVars,
         WaitAt(id, i, c), Keeping(id, c), Tells(toClient'[c], id) => Tells(toClient[c], id)
  PROVE  WaitAt(id, i, c)'
  <1>1. h' = h /\ dropped' = dropped
    BY DEF handleVars, ghostVars
  <1>2. SUFFICES ASSUME Awaits(id, i, c) PROVE Good(id, c)' \/ Stale(id, c)'
    BY <1>1 DEF WaitAt, Awaits
  <1>3. CASE Good(id, c)
    BY <1>1, <1>3, GoodKept
  <1>4. CASE Stale(id, c)
    <2>1. ~Tells(toClient[c], id)'
      BY <1>4 DEF Stale, Tells
    <2>2. Stale(id, c)'
      BY <1>1, <1>4, <2>1 DEF Stale
    <2>3. QED BY <2>2
  <1>5. QED BY <1>2, <1>3, <1>4 DEF WaitAt

\* More messages, no fewer answers; no new results, no more told.
LEMMA AnswersGrow ==
  ASSUME NEW q, NEW r, NEW id
  PROVE  /\ Range(q) \subseteq Range(r) /\ Answering(q, id) => Answering(r, id)
         /\ Range(q) \subseteq Range(r) /\ Asking(q, id) => Asking(r, id)
         /\ (\A x \in Range(r) : x.type = "attached" => x \in Range(q)) /\ Tells(r, id) => Tells(q, id)
  BY DEF Answering, Asking, Tells

\* A write loses nothing.
LEMMA WritesGrow ==
  ASSUME NEW S, NEW q \in [Channels -> Seq(S)], NEW b, NEW x, NEW c \in Channels
  PROVE  Range(q[c]) \subseteq Range(Written(q, OnlyTo(b, <<x>>))[c])
  <1> DEFINE r == <<x>>
             T == S \cup {x}
  <1>1. r \in Seq({x})
    OBVIOUS
  <1>2. r \in Seq(T) /\ q[c] \in Seq(S) /\ q[c] \in Seq(T)
    OBVIOUS
  <1> HIDE DEF r, T
  <1>3. CASE c = b /\ link[c] = "up"
    <2>1. Written(q, OnlyTo(c, r))[c] = Joined(q[c], r)
      BY <1>3, WritesHere
    <2>2. Range(Joined(q[c], r)) = Range(q[c]) \cup Range(r)
      BY <1>2, Joins
    <2>3. QED BY <1>3, <2>1, <2>2 DEF r
  <1>4. CASE ~(c = b /\ link[c] = "up")
    <2>1. Written(q, OnlyTo(b, r))[c] = q[c]
      BY <1>4, WritesOther
    <2>2. QED BY <2>1 DEF r
  <1>5. QED BY <1>3, <1>4

\* A step of the daemon that reads nothing and writes no result: what was
\* awaited still is.
LEMMA CalmWaits ==
  ASSUME UNCHANGED handleVars, NEW c \in Channels, NEW i \in MyInvokes, NEW id \in CallId, WaitAt(id, i, c),
         UNCHANGED <<link, toServer, running>>, doomed \subseteq doomed', due'[c] = due[c],
         Range(toClient[c]) \subseteq Range(toClient'[c]),
         \A x \in Range(toClient'[c]) : x.type = "attached" => x \in Range(toClient[c])
  PROVE  WaitAt(id, i, c)'
  <1>1. Running(id) => Running(id)'
    BY DEF Running
  <1>2. Keeping(id, c)
    BY <1>1, AnswersGrow DEF Keeping, Broken
  <1>3. Tells(toClient'[c], id) => Tells(toClient[c], id)
    BY AnswersGrow
  <1>4. QED BY <1>2, <1>3, WaitKept

\* A connection the daemon drops.
LEMMA DropWaits ==
  ASSUME Types, NEW b \in Channels, AttachDeadline(b) \/ DropSuperseded(b) \/ ServerNoticesClose(b),
         UNCHANGED handleVars, NEW c \in Channels, NEW i \in MyInvokes, NEW id \in CallId, WaitAt(id, i, c)
  PROVE  WaitAt(id, i, c)'
  <1>1. /\ Forget({b}) /\ toClient' = toClient /\ b \in Connected /\ running' = running
        /\ link' = link \/ CutLinks({b})
    BY DropTypes
  <1>2. link[b] = "cut" \/ CutLinks({b})
    BY DEF AttachDeadline, DropSuperseded, ServerNoticesClose, DropConnection
  <1>3. c = b => link'[c] = "cut"
    BY <1>1, <1>2, HostFacts DEF CutLinks
  <1>4. Running(id) => Running(id)'
    BY <1>1 DEF Running
  <1>5. ASSUME c # b PROVE Keeping(id, c)
    <2>1. /\ due'[c] = due[c] /\ toServer'[c] = toServer[c] /\ (c \in doomed => c \in doomed')
          /\ link'[c] = link[c]
      BY <1>1, <1>5 DEF Forget, Emptied, CutLinks
    <2>2. QED BY <1>1, <1>4, <2>1 DEF Keeping, Broken
  <1>6. Keeping(id, c)
    BY <1>3, <1>5 DEF Keeping, Broken
  <1>7. QED BY <1>1, <1>6, WaitKept

\* A crash cuts every channel that is open.
LEMMA CrashWaits ==
  ASSUME Types, DaemonCrash, UNCHANGED handleVars, NEW c \in Channels, NEW i \in MyInvokes, NEW id \in CallId
  PROVE  WaitAt(id, i, c)'
  <1>1. /\ link'[c] = (IF c \in Connected THEN "cut" ELSE link[c]) /\ h' = h
    BY DEF DaemonCrash, CutLinks, handleVars
  <1>2. (link[c] = "up" => c \in Connected) /\ link[c] \in Links /\ (link[c] = "unused" => ~h.rpc[c].open)
    BY ChannelFacts, HostFacts
  <1>3. link'[c] = "cut" \/ ~h'.rpc[c].open
    BY <1>1, <1>2 DEF Links
  <1>4. QED BY <1>3 DEF WaitAt, Awaits, Good, Broken

\* A channel that breaks.
LEMMA CutWaits ==
  ASSUME Types, NEW b \in Channels, BreakChannel(b),
         NEW c \in Channels, NEW i \in MyInvokes, NEW id \in CallId, WaitAt(id, i, c)
  PROVE  WaitAt(id, i, c)'
  <1>1. /\ UNCHANGED <<toClient, toServer, due, running, doomed>> /\ UNCHANGED handleVars
        /\ link'[c] \in {link[c], "cut"}
    BY DEF BreakChannel, Cut, CutLinks, hostVars, handleVars
  <1>2. Running(id) => Running(id)'
    BY <1>1 DEF Running
  <1>3. Keeping(id, c)
    BY <1>1, <1>2 DEF Keeping, Broken
  <1>4. QED BY <1>1, <1>3, WaitKept

\* Pushes write pushes only.
LEMMA PushWaits ==
  ASSUME Types, NEW b, NEW e \in Events, NEW size \in FrameSizes, PushThrough(b, e, size),
         UNCHANGED handleVars, NEW c \in Channels, NEW i \in MyInvokes, NEW id \in CallId, WaitAt(id, i, c)
  PROVE  WaitAt(id, i, c)'
  <1>1. /\ \A x \in Range(toClient'[c]) : x \in Range(toClient[c]) \/ x \in PushMessages
        /\ UNCHANGED <<link, toServer, hostVars>>
    BY PushedTypes
  <1>2. \A x \in Range(toClient'[c]) : x.type = "attached" => x \in Range(toClient[c])
    BY <1>1 DEF PushMessages
  <1>3. Range(toClient[c]) \subseteq Range(toClient'[c])
    <2>1. toClient \in [Channels -> Seq(ToClientMessage)]
      BY HostFacts
    <2>2. toClient' = toClient \/ \E x : toClient' = Written(toClient, OnlyTo(b, <<x>>))
      BY DEF PushThrough
    <2>3. QED BY <2>1, <2>2, WritesGrow
  <1>4. QED BY <1>1, <1>2, <1>3, CalmWaits DEF hostVars

\* So do the other client's comings and goings write their notice only.
LEMMA OtherWaits ==
  ASSUME Types, PushFails \/ SettlementAgesOut \/ ForeignAttach \/ ForeignLeaves,
         UNCHANGED handleVars, NEW c \in Channels, NEW i \in MyInvokes, NEW id \in CallId, WaitAt(id, i, c)
  PROVE  WaitAt(id, i, c)'
  <1>1. CASE PushFails \/ SettlementAgesOut
    <2>1. UNCHANGED <<wireVars, hostVars>>
      BY <1>1, JournalStepTypes
    <2>2. QED BY <2>1, CalmWaits DEF wireVars, hostVars
  <1>2. CASE ForeignAttach \/ ForeignLeaves
    <2>1. /\ UNCHANGED <<link, toServer, running, due>> /\ doomed \subseteq doomed'
          /\ \A x \in Range(toClient'[c]) : x \in Range(toClient[c]) \/ x = [type |-> "superseded"]
      BY <1>2, ForeignTypes
    <2>2. toClient \in [Channels -> Seq(ToClientMessage)]
      BY HostFacts
    <2>3. toClient' = toClient \/ \E x : toClient' = Written(toClient, OnlyTo(active, <<x>>))
      BY <1>2 DEF ForeignAttach, ForeignLeaves, wireVars
    <2>4. Range(toClient[c]) \subseteq Range(toClient'[c])
      BY <2>2, <2>3, WritesGrow
    <2>5. \A x \in Range(toClient'[c]) : x.type = "attached" => x \in Range(toClient[c])
      BY <2>1
    <2>6. QED BY <2>1, <2>4, <2>5, CalmWaits
  <1>3. QED BY <1>1, <1>2

\* What an attach left due is written, or lost with the channel.
LEMMA ImmediateWaits ==
  ASSUME Types, NEW b \in Channels, RunImmediates(b), UNCHANGED handleVars,
         NEW c \in Channels, NEW i \in MyInvokes, NEW id \in CallId, WaitAt(id, i, c)
  PROVE  WaitAt(id, i, c)'
  <1> DEFINE r == due[b]
  <1>1. /\ toClient' = Written(toClient, OnlyTo(b, r)) /\ conn[b] = "attached"
        /\ due' = [due EXCEPT ![b] = <<>>]
        /\ UNCHANGED <<link, toServer, doomed, running>>
    BY DEF RunImmediates
  <1>2. /\ toClient \in [Channels -> Seq(ToClientMessage)] /\ due \in [Channels -> Seq(DueMessage)]
        /\ link \in [Channels -> Links]
    BY HostFacts
  <1>3. CASE c # b
    <2>1. due'[c] = due[c]
      BY <1>1, <1>2, <1>3
    <2> HIDE DEF r
    <2>2. toClient'[c] = toClient[c]
      BY <1>1, <1>2, <1>3, WritesOther
    <2>3. QED BY <1>1, <2>1, <2>2, CalmWaits
  <1>4. CASE c = b
    <2>1. link[c] # "unused"
      BY <1>1, <1>4, ChannelFacts
    <2>2. CASE link[c] # "up"
      <3>1. Keeping(id, c)
        BY <1>1, <1>2, <2>1, <2>2 DEF Keeping, Broken, Links
      <3> HIDE DEF r
      <3>2. toClient'[c] = toClient[c]
        BY <1>1, <2>2, WritesTo
      <3>3. QED BY <3>1, <3>2, WaitKept
    <2>3. CASE link[c] = "up"
      <3>1. r = due[c] /\ toClient' = Written(toClient, OnlyTo(c, r))
        BY <1>1, <1>4
      <3> HIDE DEF r
      <3>2. r \in Seq(DueMessage)
        BY <1>2, <3>1
      <3>3. Range(r) \subseteq DueMessage
        BY <3>2, Elements
      <3>4. r \in Seq(ToClientMessage)
        BY <3>2, Kinds
      <3>5. Range(toClient'[c]) = Range(toClient[c]) \cup Range(r)
        <4>1. toClient'[c] = Joined(toClient[c], r)
          BY <2>3, <3>1, WritesHere
        <4>2. QED BY <1>2, <3>4, <4>1, Joins
      <3>6. \A x \in Range(toClient'[c]) : x.type = "attached" => x \in Range(toClient[c])
        BY <3>3, <3>5 DEF DueMessage, PushMessages, Responses
      <3>7. Tells(toClient'[c], id) => Tells(toClient[c], id)
        BY <3>6, AnswersGrow
      <3>8. /\ Answering(due[c], id) => Answering(toClient'[c], id)
            /\ Answering(toClient[c], id) => Answering(toClient'[c], id)
        BY <3>1, <3>5 DEF Answering
      <3>9. Running(id) => Running(id)'
        BY <1>1 DEF Running
      <3>10. Keeping(id, c)
        BY <1>1, <3>8, <3>9 DEF Keeping, Broken
      <3>11. QED BY <3>7, <3>10, WaitKept
    <2>4. QED BY <2>2, <2>3
  <1>5. QED BY <1>3, <1>4

\* A handler that finishes answers its sender and the holder; a client that is
\* neither has yet to attach.
LEMMA FinishWaits ==
  ASSUME Types, Sound(h), OneHolder, GateInv, NEW w \in running, Finish(w), UNCHANGED handleVars,
         NEW c \in Channels, NEW i \in MyInvokes, NEW id \in CallId, WaitAt(id, i, c)
  PROVE  WaitAt(id, i, c)'
  <1>1. /\ running' = running \ {w} /\ UNCHANGED <<link, toServer, doomed, due, conn, active>> /\ h' = h
    BY DEF Finish, handleVars
  <1>2. /\ Range(toClient'[c]) \subseteq Range(toClient[c]) \cup {Response(w)}
        /\ c \in SettlesTo(w) /\ link[c] = "up" => Response(w) \in Range(toClient'[c])
        /\ Range(toClient[c]) \subseteq Range(toClient'[c])
    BY FinishWrites
  <1>3. \A x \in Range(toClient'[c]) : x.type = "attached" => x \in Range(toClient[c])
    BY <1>2 DEF Response
  <1>4. Tells(toClient'[c], id) => Tells(toClient[c], id)
    BY <1>3, AnswersGrow
  <1>5. Answering(toClient[c], id) => Answering(toClient'[c], id)
    BY <1>2, AnswersGrow
  <1>6. CASE Broken(c) \/ c \in SettlesTo(w) \/ w.id # id
    <2>1. Running(id) => Running(id)' \/ w.id = id
      BY <1>1 DEF Running
    <2>2. CASE Broken(c)
      BY <1>1, <1>4, <2>2, WaitKept DEF Keeping, Broken
    <2>3. CASE ~Broken(c)
      <3>1. w.id = id => Answering(toClient'[c], id) \/ link[c] # "up"
        BY <1>2, <1>6, <2>3 DEF Answering, Response
      <3>2. CASE link[c] = "up" \/ w.id # id
        <4>1. Keeping(id, c)
          BY <1>1, <1>5, <2>1, <3>1, <3>2 DEF Keeping, Broken
        <4>2. QED BY <1>4, <4>1, WaitKept
      <3>3. CASE link[c] # "up"
        <4>1. link[c] = "unused"
          BY <2>3, <3>3, HostFacts DEF Broken, Links
        <4>2. ~h.rpc[c].open
          BY <4>1, ChannelFacts
        <4>3. QED BY <1>1, <4>2 DEF WaitAt, Awaits
      <3>4. QED BY <3>2, <3>3
    <2>4. QED BY <2>2, <2>3
  <1>7. CASE ~Broken(c) /\ c \notin SettlesTo(w) /\ w.id = id
    <2>1. SUFFICES ASSUME Awaits(id, i, c) PROVE Stale(id, c)'
      BY <1>1 DEF WaitAt, Awaits
    <2>2. id.ch # c /\ c # active
      BY <1>7 DEF SettlesTo, GateInv, SenderInv
    <2>3. link[c] = "up"
      <3>1. link[c] # "unused"
        BY <2>1, ChannelFacts DEF Awaits
      <3>2. QED BY <1>7, <3>1, HostFacts DEF Broken, Links
    <2>4. ~Served(c)
      BY <1>7, <2>2 DEF Served, OneHolder, Broken
    <2>5. ~HoldsResult(toClient[c]) /\ ~Through(c)
      BY <2>3, <2>4 DEF GateInv, GateAt
    <2>6. Waiting(c)
      BY <2>1, <2>5 DEF Through, Awaits
    <2>7. PICK a \in Attempts : h.attempt[a].pc \in {"hello", "attaching"}
      BY <2>6 DEF Waiting
    <2>8. \A b \in Attempts : b # a => h.attempt[b].pc = "idle"
      BY <2>7 DEF Sound
    <2>9. ~Tells(toClient'[c], id)
      BY <1>4, <2>5 DEF Tells, HoldsResult
    <2>10. ~Tells(toClient[c], id)'
      BY <2>9 DEF Tells
    <2>11. /\ \E b \in Attempts : Moving(h'.attempt[b])
           /\ \A b \in Attempts : h'.attempt[b].pc # "reconciling"
      BY <1>1, <2>7, <2>8 DEF Moving
    <2>12. QED BY <2>2, <2>10, <2>11 DEF Stale
  <1>8. QED BY <1>6, <1>7

\* What is left of a queue whose head the daemon took.
LEMMA TakesRequest ==
  ASSUME Types, NEW b \in Channels, ServerReceive(b), NEW m, m = Head(toServer[b]), NEW c \in Channels, NEW id
  PROVE  Asking(toServer[c], id) =>
           Asking(toServer'[c], id) \/ (c = b /\ m.type = "invoke" /\ m.id = id)
  <1>1. CASE c # b
    BY <1>1, ReceiveTakes
  <1>2. CASE c = b
    <2>1. toServer[b] \in Seq(ToServerMessage) /\ toServer[b] # <<>> /\ toServer'[b] = Tail(toServer[b])
      BY HostFacts, ReceiveTakes
    <2>2. Range(toServer[b]) = Range(toServer'[b]) \cup {m}
      BY <2>1, Takes
    <2>3. QED BY <1>2, <2>2 DEF Asking
  <1>3. QED BY <1>1, <1>2

\* An invoke that is read runs.
LEMMA DispatchWaits ==
  ASSUME Types, NEW b \in Channels, ServerReceive(b), NEW m, m = Head(toServer[b]), DispatchInvoke(b, m),
         UNCHANGED handleVars, NEW c \in Channels, NEW i \in MyInvokes, NEW id \in CallId, WaitAt(id, i, c)
  PROVE  WaitAt(id, i, c)'
  <1>0. link' = link
    BY ReceiveTakes
  <1>1. /\ running' = running \cup {[id |-> m.id, inv |-> m.inv, from |-> b]}
        /\ UNCHANGED <<toClient, doomed, due>>
    BY DEF DispatchInvoke
  <1>2. (Running(id) => Running(id)') /\ (m.id = id => Running(id)')
    <2> DEFINE w == [id |-> m.id, inv |-> m.inv, from |-> b]
    <2>1. w.id = m.id /\ running' = running \cup {w}
      BY <1>1
    <2> HIDE DEF w
    <2>2. QED BY <2>1 DEF Running
  <1>3. Asking(toServer[c], id) => Asking(toServer'[c], id) \/ Running(id)'
    BY <1>2, TakesRequest
  <1>4. Keeping(id, c)
    BY <1>0, <1>1, <1>2, <1>3 DEF Keeping, Broken
  <1>5. QED BY <1>1, <1>4, WaitKept

\* A refused attach is answered with the refusal.
LEMMA RefuseWaits ==
  ASSUME Types, NEW b \in Channels, ServerReceive(b), NEW m, m = Head(toServer[b]), m.type = "attach",
         RefuseAttach(b, m),
         UNCHANGED handleVars, NEW c \in Channels, NEW i \in MyInvokes, NEW id \in CallId, WaitAt(id, i, c)
  PROVE  WaitAt(id, i, c)'
  <1> DEFINE x == [type |-> "refused"]
  <1>1. /\ toClient' = Written(toClient, OnlyTo(b, <<x>>))
        /\ UNCHANGED <<doomed, due, running>> /\ link' = link
    BY ReceiveTakes DEF RefuseAttach
  <1>2. x \in ToClientMessage /\ x.type = "refused"
    BY Kinds
  <1> HIDE DEF x
  <1>3. toClient \in [Channels -> Seq(ToClientMessage)]
    BY HostFacts
  <1>4. Range(toClient[c]) \subseteq Range(toClient'[c])
    BY <1>1, <1>3, WritesGrow
  <1>5. \A y \in Range(toClient'[c]) : y \in Range(toClient[c]) \/ y = x
    <2>1. CASE c = b /\ link[c] = "up"
      <3> DEFINE r == <<x>>
      <3>1. r \in Seq(ToClientMessage) /\ Range(r) = {x}
        BY <1>2, One
      <3>2. toClient' = Written(toClient, OnlyTo(c, r))
        BY <1>1, <2>1
      <3> HIDE DEF r
      <3>3. toClient'[c] = Joined(toClient[c], r)
        BY <2>1, <3>2, WritesHere
      <3>4. Range(toClient'[c]) = Range(toClient[c]) \cup Range(r)
        BY <1>3, <3>1, <3>3, Joins
      <3>5. QED BY <3>1, <3>4
    <2>2. CASE ~(c = b /\ link[c] = "up")
      <3>1. toClient'[c] = toClient[c]
        BY <1>1, <1>3, <2>2, WritesOther
      <3>2. QED BY <3>1
    <2>3. QED BY <2>1, <2>2
  <1>6. Tells(toClient'[c], id) => Tells(toClient[c], id)
    BY <1>2, <1>5 DEF Tells
  <1>7. Answering(toClient[c], id) => Answering(toClient'[c], id)
    BY <1>4, AnswersGrow
  <1>8. Asking(toServer[c], id) => Asking(toServer'[c], id)
    BY TakesRequest
  <1>9. Running(id) => Running(id)'
    BY <1>1 DEF Running
  <1>10. Keeping(id, c)
    BY <1>1, <1>7, <1>8, <1>9 DEF Keeping, Broken
  <1>11. QED BY <1>6, <1>10, WaitKept

\* An attach that is served accounts for ids that run, or whose answers are due.
LEMMA ServeWaits ==
  ASSUME Types, GateInv, NEW b \in Channels, ServerReceive(b), NEW m, m = Head(toServer[b]), m.type = "attach",
         m \in Attaches, ServeAttach(b, m),
         UNCHANGED handleVars, NEW c \in Channels, NEW i \in MyInvokes, NEW id \in CallId, WaitAt(id, i, c)
  PROVE  WaitAt(id, i, c)'
  <1>1. /\ due' = [due EXCEPT ![b] = AttachDue(m)] /\ doomed \subseteq doomed'
        /\ running' = running /\ link' = link
    BY ReceiveTakes DEF ServeAttach
  <1>2. /\ \A x \in Range(toClient'[c]) :
             \/ x \in Range(toClient[c]) \/ (c = b /\ x = AttachResult(m))
             \/ x = [type |-> "superseded"]
        /\ Range(toClient[c]) \subseteq Range(toClient'[c])
    BY ServeWrites
  <1>3. due \in [Channels -> Seq(DueMessage)]
    BY HostFacts
  <1>4. Running(id) => Running(id)'
    BY <1>1 DEF Running
  <1>5. CASE c = b /\ Known(id, AttachResult(m))
    <2>1. id \in m.pending /\ Verdict(id) # "unknown"
      BY <1>5 DEF Known, AttachResult
    <2>2. CASE Running(id)
      BY <1>4, <2>2 DEF WaitAt, Good
    <2>3. CASE ~Running(id)
      <3>1. Retained(id) /\ Verdict(id) = "completed"
        BY <2>1, <2>3 DEF Verdict, Running
      <3>2. PICK k \in DOMAIN retained : retained[k].id = id
        BY <3>1 DEF Retained
      <3>3. \E x \in Range(AttachDue(m)) : x.type = "response" /\ x.id = id
        BY <2>1, <3>1, <3>2, AttachMessages
      <3>4. due'[c] = AttachDue(m)
        BY <1>1, <1>3, <1>5
      <3>5. Answering(due[c], id)'
        BY <3>3, <3>4 DEF Answering
      <3>6. QED BY <3>5 DEF WaitAt, Good
    <2>4. QED BY <2>2, <2>3
  <1>6. CASE ~(c = b /\ Known(id, AttachResult(m)))
    <2>1. Tells(toClient'[c], id) => Tells(toClient[c], id)
      BY <1>2, <1>6 DEF Tells
    <2>2. Answering(toClient[c], id) => Answering(toClient'[c], id)
      BY <1>2, AnswersGrow
    <2>3. Asking(toServer[c], id) => Asking(toServer'[c], id)
      BY TakesRequest
    <2>4. Answering(due[c], id) => Answering(due'[c], id)
      <3>1. CASE c # b
        BY <1>1, <1>3, <3>1
      <3>2. CASE c = b
        <4>1. HoldsAttach(toServer[b])
          BY ReceiveTakes DEF HoldsAttach
        <4>2. due[b] = <<>>
          BY <4>1 DEF GateInv, GateAt
        <4>3. QED BY <3>2, <4>2, Nothing DEF Answering
      <3>3. QED BY <3>1, <3>2
    <2>5. Keeping(id, c)
      BY <1>1, <1>4, <2>2, <2>3, <2>4 DEF Keeping, Broken
    <2>6. QED BY <2>1, <2>5, WaitKept
  <1>7. QED BY <1>5, <1>6

\* Every step of the daemon keeps what is awaited.
LEMMA DaemonWaits ==
  ASSUME Types, Sound(h), OneHolder, GateInv, WaitInv, DaemonStep, UNCHANGED handleVars
  PROVE  WaitInv'
  <1> SUFFICES ASSUME NEW id \in CallId, NEW i \in MyInvokes, NEW c \in Channels
               PROVE  WaitAt(id, i, c)'
    BY DEF WaitInv
  <1>1. WaitAt(id, i, c)
    BY DEF WaitInv
  <1>2. ASSUME NEW b \in Channels, ServerReceive(b) PROVE WaitAt(id, i, c)'
    <2> DEFINE m == Head(toServer[b])
    <2>1. m \in ToServerMessage
      BY <1>2, ReceiveTakes
    <2>2. m.type = "attach" => m \in Attaches
      BY <2>1, Kinds
    <2>3. \/ m.type = "attach" /\ ServeAttach(b, m)
          \/ m.type = "attach" /\ RefuseAttach(b, m)
          \/ m.type = "invoke" /\ DispatchInvoke(b, m)
      BY <1>2 DEF ServerReceive
    <2> HIDE DEF m
    <2>4. m = Head(toServer[b])
      BY DEF m
    <2>5. CASE m.type = "attach" /\ ServeAttach(b, m)
      BY <1>1, <1>2, <2>2, <2>4, <2>5, ServeWaits
    <2>6. CASE m.type = "attach" /\ RefuseAttach(b, m)
      BY <1>1, <1>2, <2>4, <2>6, RefuseWaits
    <2>7. CASE m.type = "invoke" /\ DispatchInvoke(b, m)
      BY <1>1, <1>2, <2>4, <2>7, DispatchWaits
    <2>8. QED BY <2>3, <2>5, <2>6, <2>7
  <1>3. ASSUME NEW b \in Channels, RunImmediates(b) PROVE WaitAt(id, i, c)'
    BY <1>1, <1>3, ImmediateWaits
  <1>4. ASSUME NEW b \in Channels, AttachDeadline(b) \/ DropSuperseded(b) \/ ServerNoticesClose(b)
        PROVE  WaitAt(id, i, c)'
    BY <1>1, <1>4, DropWaits
  <1>5. ASSUME NEW w \in running, Finish(w) PROVE WaitAt(id, i, c)'
    BY <1>1, <1>5, FinishWaits
  <1>6. ASSUME NEW e \in Events, NEW size \in FrameSizes, NEW b, PushThrough(b, e, size)
        PROVE  WaitAt(id, i, c)'
    BY <1>1, <1>6, PushWaits
  <1>7. CASE PushFails \/ SettlementAgesOut \/ ForeignAttach \/ ForeignLeaves
    BY <1>1, <1>7, OtherWaits
  <1>8. CASE DaemonCrash
    BY <1>8, CrashWaits
  <1>9. QED BY <1>2, <1>3, <1>4, <1>5, <1>6, <1>7, <1>8 DEF DaemonStep, SessionPush, HandlerPush

\* A calm step of the shell closes the client, or settles promises only.
LEMMA CalmStepWaits ==
  ASSUME Types, CalmStep, UNCHANGED <<storeVars, hostVars>>,
         NEW c \in Channels, NEW i \in MyInvokes, NEW id \in CallId, WaitAt(id, i, c)
  PROVE  WaitAt(id, i, c)'
  <1>1. SUFFICES ASSUME Awaits(id, i, c)' PROVE Good(id, c)' \/ Stale(id, c)'
    BY DEF WaitAt
  <1>2. /\ h'.owned[i] = "owned" /\ h'.wire[i] = id /\ h'.client = c /\ h'.rpc[c].open
    BY <1>1 DEF Awaits
  <1>3. Quiet(h, h') /\ Becomes(h') /\ UNCHANGED ghostVars /\ Steady
    BY <1>2 DEF CalmStep, QuietStep, Shut
  <1>4. h.rpc[c].open /\ h.wire[i] = id /\ h.owned[i] = "owned" /\ h.client = c
    BY <1>2, <1>3 DEF Quiet, SameClient, MaySettle, Steady
  <1>5. link'[c] = link[c] /\ toClient'[c] = toClient[c] /\ toServer' = toServer /\ dropped' = dropped
    BY <1>2, <1>3 DEF Becomes, CutLinks, Emptied, ghostVars
  <1>6. doomed' = doomed /\ due' = due /\ running' = running
    BY DEF hostVars
  <1>7. Good(id, c) \/ Stale(id, c)
    BY <1>4 DEF WaitAt, Awaits
  <1>8. CASE Good(id, c)
    <2>1. Running(id) => Running(id)'
      BY <1>6 DEF Running
    <2>2. Keeping(id, c)
      BY <1>5, <1>6, <2>1 DEF Keeping, Broken
    <2>3. QED BY <1>5, <1>8, <2>2, GoodKept
  <1>9. CASE Stale(id, c)
    <2>1. ~Tells(toClient[c], id)'
      BY <1>5, <1>9 DEF Stale, Tells
    <2>2. \E a \in Attempts : Moving(h'.attempt[a])
      BY <1>3, <1>9 DEF Stale, Steady
    <2>3. \A a \in Attempts : h'.attempt[a].pc = "reconciling" => h'.attempt[a] = h.attempt[a]
      BY <1>3 DEF Quiet, Halts, Moving
    <2>4. \A a \in Attempts : h'.attempt[a].pc = "reconciling" => ~Known(id, h'.attempt[a].result)
      BY <1>9, <2>3 DEF Stale
    <2>5. QED BY <1>9, <2>1, <2>2, <2>4 DEF Stale
  <1>10. QED BY <1>7, <1>8, <1>9

\* A channel that opens: what is owed was asked for on an earlier one.
LEMMA ConnectWaits ==
  ASSUME Types, CallsInv, NEW a \in Attempts, NEW b \in Channels, Connect(a, b),
         NEW c \in Channels, NEW i \in MyInvokes, NEW id \in CallId
  PROVE  WaitAt(id, i, c)'
  <1>1. /\ h' = [h EXCEPT !.attempt = h'.attempt, !.client = b, !.rpc = h'.rpc]
        /\ h'.attempt[a].pc = "hello"
        /\ \A x \in Attempts : x # a => h'.attempt[x] = h.attempt[x]
    BY ConnectTypes
  <1>2. h'.client = b /\ h'.wire = h.wire
    <2> DEFINE f == h'.attempt
               p == h'.rpc
    <2>1. h' = [h EXCEPT !.attempt = f, !.client = b, !.rpc = p] /\ h \in HandleRecord
      BY <1>1, HostFacts
    <2> HIDE DEF f, p
    <2>2. QED BY <2>1 DEF HandleRecord
  <1>3. SUFFICES ASSUME Awaits(id, i, c)' PROVE Stale(id, c)'
    BY DEF WaitAt
  <1>4. h.wire[i] = id /\ c = b
    BY <1>2, <1>3 DEF Awaits
  <1>5. link[b] = "unused" /\ ShellIdle /\ toClient' = [toClient EXCEPT ![b] = <<[type |-> "hello"]>>]
    BY DEF Connect, ChannelOpens, Accept
  <1>6. id.ch # c
    <2>1. id.n <= h.rpc[id.ch].nextId
      BY <1>4 DEF CallsInv, TagInv, Tagged, Waits
    <2>2. h.rpc[b].nextId = 0
      BY <1>5, ChannelFacts
    <2>3. id.n \in Nat \ {0}
      BY DEF CallId
    <2>4. QED BY <1>4, <2>1, <2>2, <2>3
  <1>7. ~Tells(toClient[c], id)'
    <2>1. toClient'[c] = <<[type |-> "hello"]>>
      BY <1>4, <1>5, HostFacts
    <2>2. \A x \in Range(toClient'[c]) : x.type # "attached"
      BY <2>1 DEF Range
    <2>3. QED BY <2>2 DEF Tells
  <1>8. \A x \in Attempts : h'.attempt[x].pc # "reconciling"
    BY <1>1, <1>5 DEF ShellIdle, Reconciling
  <1>9. \E x \in Attempts : Moving(h'.attempt[x])
    BY <1>1 DEF Moving
  <1>10. QED BY <1>6, <1>7, <1>8, <1>9 DEF Stale

\* A dispatch: its requests are on their way, or lost with the channel.
LEMMA CallWaits ==
  ASSUME Types, NEW is, NEW q, Calls(is, q), UNCHANGED <<storeVars, hostVars>>, dropped' = dropped,
         NEW c \in Channels, NEW i \in MyInvokes, NEW id \in CallId, WaitAt(id, i, c),
         i \notin is /\ h'.owned[i] = "owned" => h.owned[i] = "owned",
         i \notin is /\ Awaits(id, i, c)' /\ Stale(id, c) => Stale(id, c)'
  PROVE  WaitAt(id, i, c)'
  <1>1. SUFFICES ASSUME Awaits(id, i, c)' PROVE Good(id, c)' \/ Stale(id, c)'
    BY DEF WaitAt
  <1>2. /\ h'.owned[i] = "owned" /\ h'.wire[i] = id /\ h'.client = c /\ h'.rpc[c].open
    BY <1>1 DEF Awaits
  <1>3. /\ h.client = c /\ h.rpc[c].open /\ link' = link /\ toClient' = toClient
        /\ toServer'[c] = IF Up /\ link[c] = "up" THEN Joined(toServer[c], q) ELSE toServer[c]
    BY <1>2 DEF Calls
  <1>4. Up
    BY <1>3, Callers DEF Up
  <1>5. q \in Seq(ToServerMessage) /\ toServer[c] \in Seq(ToServerMessage)
    <2>1. InvokeMessages \subseteq ToServerMessage
      BY DEF ToServerMessage
    <2>2. q \in Seq(InvokeMessages)
      BY DEF Calls
    <2>3. QED BY <2>1, <2>2, HostFacts
  <1>6. doomed' = doomed /\ due' = due /\ running' = running
    BY DEF hostVars
  <1>7. CASE i \in is
    <2>1. PICK k \in DOMAIN q : q[k].inv = i
      BY <1>4, <1>7 DEF Calls, Covers
    <2>2. q[k].type = "invoke" /\ q[k].id = id /\ q[k] \in Range(q)
      BY <1>2, <1>5, <2>1, Elements DEF Calls
    <2>3. CASE link[c] = "up"
      <3>1. Range(toServer'[c]) = Range(toServer[c]) \cup Range(q)
        BY <1>3, <1>4, <1>5, <2>3, Joins
      <3>2. Asking(toServer[c], id)'
        BY <2>2, <3>1 DEF Asking
      <3>3. QED BY <3>2 DEF Good
    <2>4. CASE link[c] # "up"
      <3>1. link[c] = "cut"
        BY <1>3, <2>4, ChannelFacts, HostFacts DEF Links
      <3>2. QED BY <1>3, <3>1 DEF Good, Broken
    <2>5. QED BY <2>3, <2>4
  <1>8. CASE i \notin is
    <2>1. Awaits(id, i, c)
      BY <1>2, <1>3, <1>8 DEF Calls, Awaits
    <2>2. CASE Good(id, c)
      <3>1. Running(id) => Running(id)'
        BY <1>6 DEF Running
      <3>2. Range(toServer[c]) \subseteq Range(toServer'[c])
        BY <1>3, <1>5, Joins
      <3>3. Asking(toServer[c], id) => Asking(toServer'[c], id)
        BY <3>2, AnswersGrow
      <3>4. Keeping(id, c)
        BY <1>3, <1>6, <3>1, <3>3 DEF Keeping, Broken
      <3>5. QED BY <2>2, <3>4, GoodKept
    <2>3. CASE Stale(id, c)
      BY <1>1, <1>8, <2>3
    <2>4. QED BY <2>1, <2>2, <2>3 DEF WaitAt
  <1>9. QED BY <1>7, <1>8

\* invoke().
LEMMA InvokeWaits ==
  ASSUME Types, NEW j \in MyInvokes, Invoke(j), UNCHANGED <<storeVars, hostVars>>,
         NEW c \in Channels, NEW i \in MyInvokes, NEW id \in CallId, WaitAt(id, i, c)
  PROVE  WaitAt(id, i, c)'
  <1>1. PICK q : Calls({j}, q)
    BY InvokeCalls
  <1>2. /\ h' = [h EXCEPT !.owned = h'.owned, !.wire = h'.wire, !.rpc = h'.rpc] /\ h \in HandleRecord
        /\ \A x \in MyInvokes \ {j} : h'.owned[x] = h.owned[x]
        /\ UNCHANGED ghostVars
    BY InvokeCalls, HostFacts
  <1>3. h'.attempt = h.attempt
    BY <1>2 DEF HandleRecord
  <1>4. toClient' = toClient
    BY <1>1 DEF Calls
  <1>5. Stale(id, c) => Stale(id, c)'
    <2>1. ~Tells(toClient[c], id) => ~Tells(toClient[c], id)'
      BY <1>4 DEF Tells
    <2>2. QED BY <1>3, <2>1 DEF Stale
  <1>6. dropped' = dropped
    BY <1>2 DEF ghostVars
  <1>7. i \notin {j} /\ h'.owned[i] = "owned" => h.owned[i] = "owned"
    BY <1>2
  <1>8. QED BY <1>1, <1>5, <1>6, <1>7, CallWaits

\* A reattach: what is not asked for again is accounted for by the result.
LEMMA ContinueWaits ==
  ASSUME Types, NEW a \in Attempts, Continue(a), UNCHANGED <<storeVars, hostVars>>,
         NEW c \in Channels, NEW i \in MyInvokes, NEW id \in CallId, WaitAt(id, i, c)
  PROVE  WaitAt(id, i, c)'
  <1>1. PICK is : \E q : Reattaches(a, is) /\ Calls(is, q)
    BY ContinueCalls
  <1>2. PICK q : Reattaches(a, is) /\ Calls(is, q)
    BY <1>1
  <1>3. i \notin is /\ h'.owned[i] = "owned" =>
          h.owned[i] = "owned" /\ Known(h.wire[i], h.attempt[a].result)
    BY <1>2 DEF Reattaches, MaySettle, Known
  <1>4. i \notin is => h'.wire[i] = h.wire[i]
    BY <1>2 DEF Calls
  <1>5. i \notin is /\ Awaits(id, i, c)' => ~Stale(id, c)
    <2>1. h.attempt[a].pc = "reconciling"
      BY <1>2 DEF Reattaches
    <2>2. i \notin is /\ Awaits(id, i, c)' => Known(id, h.attempt[a].result)
      BY <1>3, <1>4 DEF Awaits
    <2>3. Stale(id, c) => ~Known(id, h.attempt[a].result)
      BY <2>1 DEF Stale
    <2>4. QED BY <2>2, <2>3
  <1>6. dropped' = dropped
    BY <1>2 DEF Reattaches
  <1>7. QED BY <1>2, <1>3, <1>5, <1>6, CallWaits

\* A message is read: what is left is what was there but for its head.
LEMMA ReadWaits ==
  ASSUME Types, NEW c \in Channels, toClient[c] # <<>>, toClient' = [toClient EXCEPT ![c] = Tail(@)],
         link' = link, UNCHANGED <<storeVars, hostVars>>, dropped \subseteq dropped',
         Range(toServer[c]) \subseteq Range(toServer'[c]),
         NEW i \in MyInvokes, NEW id \in CallId, WaitAt(id, i, c),
         Awaits(id, i, c)' => Awaits(id, i, c),
         NEW m, m = Head(toClient[c]),
         m.type = "response" /\ m.id = id => ~Awaits(id, i, c)' \/ <<c, id>> \in dropped',
         \A a \in Attempts : Moving(h.attempt[a]) => Moving(h'.attempt[a]),
         \A a \in Attempts : h'.attempt[a].pc = "reconciling" =>
           \/ h.attempt[a].pc = "reconciling" /\ h'.attempt[a].result = h.attempt[a].result
           \/ m.type = "attached" /\ h'.attempt[a].result = m
  PROVE  WaitAt(id, i, c)'
  <1>1. SUFFICES ASSUME Awaits(id, i, c)' PROVE Good(id, c)' \/ Stale(id, c)'
    BY DEF WaitAt
  <1>2. toClient \in [Channels -> Seq(ToClientMessage)]
    BY HostFacts
  <1>3. toClient'[c] = Tail(toClient[c]) /\ Range(toClient[c]) = Range(toClient'[c]) \cup {m}
    BY <1>2, TakesOne
  <1>4. doomed' = doomed /\ due' = due /\ running' = running
    BY DEF hostVars
  <1>5. Good(id, c) \/ Stale(id, c)
    BY <1>1 DEF WaitAt
  <1>6. CASE <<c, id>> \in dropped'
    BY <1>6 DEF Good
  <1>7. CASE Good(id, c) /\ <<c, id>> \notin dropped'
    <2>1. Running(id) => Running(id)'
      BY <1>4 DEF Running
    <2>2. Asking(toServer[c], id) => Asking(toServer'[c], id)
      BY AnswersGrow
    <2>3. Answering(toClient[c], id) => Answering(toClient'[c], id)
      BY <1>1, <1>3, <1>7 DEF Answering
    <2>4. Keeping(id, c)
      BY <1>4, <2>1, <2>2, <2>3 DEF Keeping, Broken
    <2>5. QED BY <1>7, <2>4, GoodKept
  <1>8. CASE Stale(id, c)
    <2>1. ~Tells(toClient[c], id)'
      BY <1>3, <1>8 DEF Stale, Tells
    <2>2. m.type = "attached" => ~Known(id, m)
      BY <1>3, <1>8 DEF Stale, Tells
    <2>3. \A a \in Attempts : h'.attempt[a].pc = "reconciling" => ~Known(id, h'.attempt[a].result)
      BY <1>8, <2>2 DEF Stale
    <2>4. QED BY <1>8, <2>1, <2>3 DEF Stale
  <1>9. QED BY <1>5, <1>6, <1>7, <1>8

\* A message the shell reads, through its only client.
LEMMA ReadsWaits ==
  ASSUME Types, CallsInv, Sound(h), NEW b \in Channels, Reads(b), UNCHANGED <<storeVars, hostVars>>,
         NEW c \in Channels, NEW i \in MyInvokes, NEW id \in CallId, WaitAt(id, i, c)
  PROVE  WaitAt(id, i, c)'
  <1> DEFINE m == Head(toClient[b])
  <1>1. h.rpc[b].open /\ toClient[b] # <<>> /\ h \in HandleRecord /\ h.client = b
    BY HostFacts DEF Reads, Sound
  <1>2. \/ m.type = "hello" /\ ReceiveHello(b)
        \/ m.type = "attached" /\ ReceiveAttached(b, m)
        \/ m.type = "push" /\ ReceivePush(b, m)
        \/ m.type = "response" /\ ReceiveResponse(b, m)
        \/ m.type = "superseded" /\ ReceiveSuperseded(b)
    BY DEF Reads
  <1>3. toServer \in [Channels -> Seq(ToServerMessage)]
    BY HostFacts
  <1> HIDE DEF m
  <1>4. m = Head(toClient[b])
    BY DEF m
  <1>5. ASSUME h'.client = b, c # b PROVE WaitAt(id, i, c)'
    BY <1>5 DEF WaitAt, Awaits
  <1>6. CASE m.type = "hello" /\ ReceiveHello(b)
    <2>1. PICK a \in Attempts :
            /\ h.attempt[a].ch = b /\ h.attempt[a].pc = "hello"
            /\ h' = [h EXCEPT !.attempt[a].pc = "attaching"]
            /\ toServer' = Written(toServer, OnlyTo(b, <<AttachRequest>>))
            /\ toClient' = [toClient EXCEPT ![b] = Tail(@)] /\ link' = link /\ UNCHANGED ghostVars
      BY <1>6 DEF ReceiveHello
    <2> DEFINE f == [h.attempt EXCEPT ![a].pc = "attaching"]
    <2>2. h' = [h EXCEPT !.attempt = f]
      BY <1>1, <2>1 DEF HandleRecord
    <2>3. f[a].pc = "attaching" /\ \A x \in Attempts \ {a} : f[x] = h.attempt[x]
      BY <1>1, <2>1 DEF HandleRecord, AttemptSet, AttemptRecord
    <2> HIDE DEF f
    <2>4. h'.client = h.client /\ h'.rpc = h.rpc /\ h'.owned = h.owned /\ h'.wire = h.wire /\ h'.attempt = f
      BY <1>1, <2>2 DEF HandleRecord
    <2>5. Awaits(id, i, c)' => Awaits(id, i, c)
      BY <2>4 DEF Awaits
    <2>6. /\ \A x \in Attempts : Moving(h.attempt[x]) => Moving(h'.attempt[x])
          /\ \A x \in Attempts : h'.attempt[x].pc = "reconciling" =>
               h.attempt[x].pc = "reconciling" /\ h'.attempt[x].result = h.attempt[x].result
      BY <2>3, <2>4 DEF Moving
    <2>7. Range(toServer[b]) \subseteq Range(toServer'[b])
      BY <1>3, <2>1, WritesGrow
    <2>8. dropped' = dropped
      BY <2>1 DEF ghostVars
    <2>9. QED BY <1>1, <1>4, <1>5, <1>6, <2>1, <2>4, <2>5, <2>6, <2>7, <2>8, ReadWaits
  <1>7. CASE m.type = "attached" /\ ReceiveAttached(b, m)
    <2>1. PICK a \in Attempts :
            /\ h.attempt[a].ch = b /\ h.attempt[a].pc = "attaching"
            /\ h' = [h EXCEPT !.attempt[a].pc = "reconciling", !.attempt[a].result = m]
            /\ toClient' = [toClient EXCEPT ![b] = Tail(@)] /\ toServer' = toServer /\ link' = link
            /\ UNCHANGED ghostVars
      BY <1>7 DEF ReceiveAttached
    <2> DEFINE f == [h.attempt EXCEPT ![a].pc = "reconciling", ![a].result = m]
    <2>2. h' = [h EXCEPT !.attempt = f]
      BY <1>1, <2>1 DEF HandleRecord
    <2>3. f[a].pc = "reconciling" /\ f[a].result = m /\ \A x \in Attempts \ {a} : f[x] = h.attempt[x]
      BY <1>1, <2>1 DEF HandleRecord, AttemptSet, AttemptRecord
    <2> HIDE DEF f
    <2>4. h'.client = h.client /\ h'.rpc = h.rpc /\ h'.owned = h.owned /\ h'.wire = h.wire /\ h'.attempt = f
      BY <1>1, <2>2 DEF HandleRecord
    <2>5. Awaits(id, i, c)' => Awaits(id, i, c)
      BY <2>4 DEF Awaits
    <2>6. /\ \A x \in Attempts : Moving(h.attempt[x]) => Moving(h'.attempt[x])
          /\ \A x \in Attempts : h'.attempt[x].pc = "reconciling" =>
               \/ h.attempt[x].pc = "reconciling" /\ h'.attempt[x].result = h.attempt[x].result
               \/ m.type = "attached" /\ h'.attempt[x].result = m
      BY <1>7, <2>3, <2>4 DEF Moving
    <2>7. dropped' = dropped
      BY <2>1 DEF ghostVars
    <2>8. QED BY <1>1, <1>4, <1>5, <1>7, <2>1, <2>4, <2>5, <2>6, <2>7, ReadWaits
  <1>8. CASE m.type = "push" /\ ReceivePush(b, m)
    <2>1. /\ h' = [h EXCEPT !.rpc = h'.rpc, !.lastSeq = h'.lastSeq]
          /\ \A d \in Channels : h'.rpc[d].open = h.rpc[d].open
      BY <1>1, <1>4, <1>8, PushTypes
    <2> DEFINE p == h'.rpc
               n == h'.lastSeq
    <2>2. h' = [h EXCEPT !.rpc = p, !.lastSeq = n]
      BY <2>1
    <2> HIDE DEF p, n
    <2>3. h'.attempt = h.attempt /\ h'.client = h.client /\ h'.owned = h.owned /\ h'.wire = h.wire
      BY <1>1, <2>2 DEF HandleRecord
    <2>4. /\ toClient' = [toClient EXCEPT ![b] = Tail(@)] /\ toServer' = toServer /\ link' = link
          /\ dropped' = dropped
      BY <1>8 DEF ReceivePush
    <2>5. Awaits(id, i, c)' => Awaits(id, i, c)
      BY <2>1, <2>3 DEF Awaits
    <2>6. QED BY <1>1, <1>4, <1>5, <1>8, <2>3, <2>4, <2>5, ReadWaits
  <1>9. CASE m.type = "response" /\ ReceiveResponse(b, m)
    <2>1. /\ h' = [h EXCEPT !.rpc = h'.rpc, !.owned = h'.owned]
          /\ \A d \in Channels : h'.rpc[d].open = h.rpc[d].open
          /\ \A j \in MyInvokes : h'.owned[j] = h.owned[j] \/ h'.owned[j] = "ok"
          /\ \A j \in MyInvokes : (\E p \in h.rpc[b].pending : p.id = m.id /\ p.inv = j) => h'.owned[j] # "owned"
      BY <1>1, <1>4, <1>9, ResponseTypes
    <2> DEFINE p == h'.rpc
               o == h'.owned
    <2>2. h' = [h EXCEPT !.rpc = p, !.owned = o]
      BY <2>1
    <2> HIDE DEF p, o
    <2>3. h'.attempt = h.attempt /\ h'.client = h.client /\ h'.wire = h.wire
      BY <1>1, <2>2 DEF HandleRecord
    <2>4. /\ toClient' = [toClient EXCEPT ![b] = Tail(@)] /\ toServer' = toServer /\ link' = link
          /\ dropped \subseteq dropped'
          /\ {x \in h.rpc[b].pending : x.id = m.id} = {} => <<b, m.id>> \in dropped'
      BY <1>9 DEF ReceiveResponse
    <2>5. Awaits(id, i, c)' => Awaits(id, i, c)
      BY <2>1, <2>3 DEF Awaits
    <2>6. m.id = id => ~Awaits(id, i, b)' \/ <<b, id>> \in dropped'
      <3>1. SUFFICES ASSUME m.id = id, Awaits(id, i, b)', <<b, id>> \notin dropped' PROVE FALSE
        OBVIOUS
      <3>2. PICK x \in h.rpc[b].pending : x.id = id
        BY <2>4, <3>1
      <3>3. x.inv \in MyInvokes
        BY <1>1 DEF HandleRecord, ClientRecord, Pending
      <3>4. Tagged(id, x.inv) /\ Tagged(id, i)
        BY <2>3, <3>1, <3>2 DEF Tagged, Waits, Awaits
      <3>5. x.inv = i
        BY <3>3, <3>4 DEF CallsInv, TagInv
      <3>6. QED BY <2>1, <3>1, <3>2, <3>5 DEF Awaits
    <2>7. QED BY <1>1, <1>4, <1>5, <1>9, <2>3, <2>4, <2>5, <2>6, ReadWaits
  <1>10. CASE m.type = "superseded" /\ ReceiveSuperseded(b)
    <2> DEFINE u == FailOwned(h)
               t == TRUE
    <2>1. h' = [u EXCEPT !.stopped = t, !.state = "disconnected"]
      BY <1>10 DEF ReceiveSuperseded
    <2>2. u \in HandleRecord
      BY <1>1, Fails, QuietIs
    <2>3. \A j \in MyInvokes : u.owned[j] # "owned"
      <3>1. Owned(h) \in SUBSET Owned(h)
        OBVIOUS
      <3>2. \A j \in MyInvokes : u.owned[j] = IF j \in Owned(h) THEN "failed" ELSE h.owned[j]
        BY <1>1, <3>1, Settles DEF FailOwned
      <3>3. QED BY <3>2 DEF Owned
    <2> HIDE DEF u, t
    <2>4. h'.owned = u.owned
      BY <2>1, <2>2 DEF HandleRecord
    <2>5. QED BY <2>3, <2>4 DEF WaitAt, Awaits
  <1>11. QED BY <1>2, <1>6, <1>7, <1>8, <1>9, <1>10

\* Every step keeps what is awaited.
LEMMA WaitStep ==
  ASSUME Types, CallsInv, AttemptInv, OneHolder, GateInv, WaitInv, [Next]_vars
  PROVE  WaitInv'
  <1>1. CASE DaemonStep /\ UNCHANGED handleVars
    BY <1>1, DaemonWaits DEF AttemptInv
  <1> USE DEF AttemptInv
  <1>2. CASE UNCHANGED vars
    <2>1. SUFFICES ASSUME NEW id \in CallId, NEW i \in MyInvokes, NEW c \in Channels
                   PROVE  WaitAt(id, i, c)'
      BY DEF WaitInv
    <2>2. UNCHANGED <<handleVars, link, toServer, toClient, running, doomed, due>>
      BY <1>2 DEF vars, wireVars, hostVars
    <2>3. QED BY <2>1, <2>2, CalmWaits DEF WaitInv
  <1>3. CASE ShellStep /\ UNCHANGED <<storeVars, hostVars>>
    <2>1. SUFFICES ASSUME NEW id \in CallId, NEW i \in MyInvokes, NEW c \in Channels
                   PROVE  WaitAt(id, i, c)'
      BY DEF WaitInv
    <2>2. WaitAt(id, i, c)
      BY DEF WaitInv
    <2>3. CASE CalmStep
      BY <1>3, <2>2, <2>3, CalmStepWaits
    <2>4. ASSUME NEW b \in Channels, Reads(b) PROVE WaitAt(id, i, c)'
      BY <1>3, <2>2, <2>4, ReadsWaits
    <2>5. ASSUME NEW j \in MyInvokes, Invoke(j) PROVE WaitAt(id, i, c)'
      BY <1>3, <2>2, <2>5, InvokeWaits
    <2>6. ASSUME NEW a \in Attempts, Continue(a) PROVE WaitAt(id, i, c)'
      BY <1>3, <2>2, <2>6, ContinueWaits
    <2>7. QED BY <1>3, <2>1, <2>3, <2>4, <2>5, <2>6, CalmSteps
  <1>4. ASSUME NEW a \in Attempts, NEW b \in Channels, Connect(a, b) PROVE WaitInv'
    BY <1>4, ConnectWaits DEF WaitInv
  <1>5. ASSUME NEW b \in Channels, BreakChannel(b) PROVE WaitInv'
    BY <1>5, CutWaits DEF WaitInv
  <1>6. QED BY <1>1, <1>2, <1>3, <1>4, <1>5 DEF Next

\* Nothing is owed at first.
LEMMA WaitStart ==
  ASSUME Init
  PROVE  WaitInv
  <1>1. \A i \in MyInvokes : h.owned[i] = "new"
    BY DEF Init, InitHandle
  <1>2. QED BY <1>1 DEF WaitInv, WaitAt, Awaits

\* What is owed through an open client can be answered there, or its attach is
\* still to be reconciled.
THEOREM WaitInvariant ==
  ASSUME OneCaller
  PROVE  Spec => []WaitInv
  <1>1. Init => WaitInv
    BY WaitStart
  <1>2. Types /\ CallsInv /\ AttemptInv /\ OneHolder /\ GateInv /\ WaitInv /\ [Next]_vars => WaitInv'
    BY WaitStep
  <1>3. QED BY <1>1, <1>2, TypesInvariant, CallsInvariant, AttemptInvariant, OneHolderServed, GateInvariant,
               PTL DEF Spec

\* WaitIsAnswerable: with one caller nobody waits for nothing
\* (RemoteServerHandle.reconcile, SessionHost.deliverSettlement).
THEOREM NobodyWaitsForNothing ==
  ASSUME OneCaller
  PROVE  Spec => []WaitIsAnswerable
  <1>1. Types /\ AttemptInv /\ WaitInv => WaitIsAnswerable
    <2>1. SUFFICES ASSUME Types, AttemptInv, WaitInv, NEW i \in Invokes,
                          h.owned[i] = "owned", h.state = "connected", h.client # None,
                          h.rpc[h.client].open, h.wire[i] # NoWire
                   PROVE  <<h.client, h.wire[i]>> \in dropped \/ Answerable(h.wire[i], h.client)
      BY DEF WaitIsAnswerable
    <2> DEFINE c == h.client
               id == h.wire[i]
    <2>2. c \in Channels /\ id \in CallId /\ i \in MyInvokes
      BY <2>1, HostFacts, Callers DEF HandleRecord
    <2>3. \A a \in Attempts : h.attempt[a].pc = "idle"
      BY <2>1 DEF AttemptInv, Sound
    <2>4. Good(id, c) \/ Stale(id, c)
      BY <2>1, <2>2 DEF WaitInv, WaitAt, Awaits
    <2>5. ~Stale(id, c)
      BY <2>3 DEF Stale, Moving
    <2> HIDE DEF c, id
    <2>6. /\ toServer[c] \in Seq(ToServerMessage) /\ toClient[c] \in Seq(ToClientMessage)
          /\ due[c] \in Seq(DueMessage)
      BY <2>1, <2>2, HostFacts
    <2>7. /\ Asking(toServer[c], id) => \E k \in DOMAIN toServer[c] :
               toServer[c][k].type = "invoke" /\ toServer[c][k].id = id
          /\ Answering(due[c], id) => \E k \in DOMAIN due[c] :
               due[c][k].type = "response" /\ due[c][k].id = id
          /\ Answering(toClient[c], id) => \E k \in DOMAIN toClient[c] :
               toClient[c][k].type = "response" /\ toClient[c][k].id = id
      BY <2>6, Elements DEF Asking, Answering
    <2>8. <<c, id>> \in dropped \/ Answerable(id, c)
      BY <2>4, <2>5, <2>7 DEF Good, Broken, Running, Answerable
    <2>9. QED BY <2>8 DEF c, id
  <1>2. QED BY <1>1, TypesInvariant, AttemptInvariant, WaitInvariant, PTL

----------------------------------------------------------------------------
(* Which pushes a cursor counts as past.                                   *)
\* What is on its way to the client of c, or in the handle's hands, that one
\* incarnation of the daemon stamped.
Stamped(q) == {x \in Range(q) : x.type \in {"push", "attached"}}
Read(c) == {h.attempt[a].result : a \in {b \in Attempts : h.attempt[b].ch = c /\ h.attempt[b].pc = "reconciling"}}
Stamps(c) == Stamped(toClient[c]) \cup Read(c)

\* A channel carries the stamps of one incarnation, that of the client's cursor
\* if this one counts from it.
StampAt(c) ==
  /\ \A x \in Stamps(c) :
       /\ x.epoch <= epoch
       /\ link[c] = "up" => x.epoch = epoch
       /\ x.epoch = epoch => x.seq < nextSeq
       /\ h.epoch = epoch /\ h.client = c /\ h.rpc[c].open => x.epoch = epoch
       /\ \A y \in Stamps(c) : x.epoch = y.epoch
  /\ \A x \in Range(due[c]) : x.type = "push" => x.epoch = epoch /\ x.seq < nextSeq
\* A cursor of this incarnation counts no push that is not journalled yet.
CountAt(c) == h.epoch = epoch /\ h.rpc[c].open => h.rpc[c].seq < nextSeq
EpochInv ==
  /\ h.epoch <= epoch
  /\ h.epoch = epoch => h.lastSeq < nextSeq
  /\ \A c \in Channels : StampAt(c) /\ CountAt(c)

\* A replay is only granted to a cursor of the same incarnation.
CursorAt(a, c) ==
  h.attempt[a].ch = c =>
    /\ h.attempt[a].pc = "attaching" =>
         /\ \A x \in Range(toServer[c]) : x.type = "attach" => x.epoch = h.epoch
         /\ \A x \in Range(toClient[c]) : x.type = "attached" /\ x.status = "ok" => x.epoch = h.epoch
    /\ h.attempt[a].pc = "reconciling" /\ h.attempt[a].result.status = "ok" =>
         h.attempt[a].result.epoch = h.epoch
    /\ Moving(h.attempt[a]) => promised[c] = {}
CursorInv == \A a \in Attempts, c \in Channels : CursorAt(a, c)

\* Every push a cursor of this incarnation is past is accounted for, or was in
\* a replay that was cut short; the handle's cursor may also be past the pushes
\* that its client was promised.
Past(s) == <<epoch, s>> \in accounted \cup CutShort \cup blind
LossAt(s) ==
  /\ \A c \in Channels : h.rpc[c].open /\ s <= h.rpc[c].seq => Past(s)
  /\ s <= h.lastSeq => Past(s) \/ \E c \in Channels : h.rpc[c].open /\ <<epoch, s>> \in promised[c]
LossInv == h.epoch = epoch => \A s \in journalled : LossAt(s)

\* What a stamp is.
LEMMA StampTypes ==
  ASSUME Types, NEW c \in Channels
  PROVE  \A x \in Stamps(c) : x.epoch \in Int /\ x.seq \in Int
  <1>1. \A x \in Range(toClient[c]) : x \in ToClientMessage
    BY HostFacts, Elements
  <1>2. \A x \in ToClientMessage : x.type \in {"push", "attached"} => x \in PushMessages \cup Results
    BY DEF ToClientMessage, PlainMessage, PushMessages, Responses, Results
  <1>3. \A a \in Attempts : h.attempt[a].pc = "reconciling" => h.attempt[a].result \in Results
    BY HostFacts DEF HandleRecord, AttemptSet, AttemptRecord
  <1>4. \A x \in PushMessages \cup Results : x.epoch \in Int /\ x.seq \in Int
    BY SessionAssumption DEF PushMessages, Results, Cursor
  <1>5. QED BY <1>1, <1>2, <1>3, <1>4 DEF Stamps, Stamped, Read

\* A step of the daemon other than a crash: what it stamps is of now, and what
\* it grants was asked for.
Advance ==
  /\ h' = h /\ epoch' = epoch /\ nextSeq \in Nat /\ nextSeq' \in Nat /\ nextSeq <= nextSeq'
  /\ journalled' \subseteq journalled \cup {nextSeq}
Fresh(c) ==
  /\ link'[c] = "up" => link[c] = "up"
  /\ \A x \in Range(toClient'[c]) : x.type \in {"push", "attached"} =>
       x \in Range(toClient[c]) \/ (link[c] = "up" /\ x.epoch = epoch /\ x.seq < nextSeq')
  /\ \A x \in Range(due'[c]) : x.type = "push" =>
       x \in Range(due[c]) \/ (x.epoch = epoch /\ x.seq < nextSeq')
Granted(c) ==
  /\ Range(toServer'[c]) \subseteq Range(toServer[c])
  /\ \A x \in Range(toClient'[c]) : x.type = "attached" /\ x.status = "ok" =>
       \/ x \in Range(toClient[c])
       \/ \E m \in Range(toServer[c]) : m.type = "attach" /\ m.epoch = x.epoch
Honest(c) == Fresh(c) /\ Granted(c)

\* Stamps stay of one incarnation.
LEMMA FreshStamps ==
  ASSUME Types, Advance, NEW c \in Channels, StampAt(c), Fresh(c)
  PROVE  StampAt(c)'
  <1>1. \A x \in Stamps(c)' : x \in Stamps(c) \/ (link[c] = "up" /\ x.epoch = epoch /\ x.seq < nextSeq')
    <2>1. Read(c)' = Read(c)
      BY DEF Read, Advance
    <2>2. \A x \in Stamped(toClient[c])' :
            x \in Stamped(toClient[c]) \/ (link[c] = "up" /\ x.epoch = epoch /\ x.seq < nextSeq')
      BY DEF Stamped, Fresh
    <2>3. QED BY <2>1, <2>2 DEF Stamps
  <1>2. \A x \in Stamps(c) : x.epoch \in Int /\ x.seq \in Int
    BY StampTypes
  <1>3. epoch \in Int
    BY HostFacts
  <1>4. \A x \in Stamps(c)' :
          /\ x.epoch <= epoch' /\ (link'[c] = "up" => x.epoch = epoch')
          /\ x.epoch = epoch' => x.seq < nextSeq'
          /\ h'.epoch = epoch' /\ h'.client = c /\ h'.rpc[c].open => x.epoch = epoch'
          /\ link[c] = "up" => x.epoch = epoch
    BY <1>1, <1>2, <1>3 DEF StampAt, Advance, Fresh
  <1>5. \A x, y \in Stamps(c)' : x.epoch = y.epoch
    BY <1>1, <1>4 DEF StampAt
  <1>6. \A x \in Range(due'[c]) : x.type = "push" => x.epoch = epoch' /\ x.seq < nextSeq'
    <2>1. \A x \in Range(due[c]) : x.type = "push" => x.seq \in Int
      BY HostFacts, Elements DEF DueMessage, PushMessages, Responses
    <2>2. QED BY <2>1 DEF StampAt, Advance, Fresh
  <1>7. QED BY <1>4, <1>5, <1>6 DEF StampAt

\* Such a step keeps all that is known of the cursors.
LEMMA HonestKeep ==
  ASSUME Types, Advance, UNCHANGED handleVars, EpochInv, CursorInv, LossInv,
         \A c \in Channels : Honest(c)
  PROVE  EpochInv' /\ CursorInv' /\ LossInv'
  <1>1. /\ h.lastSeq \in Int /\ h.epoch \in Int /\ \A c \in Channels : h.rpc[c].seq \in Int
    BY HostFacts DEF HandleRecord, ClientRecord, Cursor
  <1>2. \A c \in Channels : StampAt(c)'
    BY FreshStamps DEF EpochInv, Honest
  <1>3. \A c \in Channels : CountAt(c)'
    BY <1>1 DEF EpochInv, CountAt, Advance
  <1>4. EpochInv'
    BY <1>1, <1>2, <1>3 DEF EpochInv, Advance
  <1>5. CursorInv'
    <2>1. SUFFICES ASSUME NEW a \in Attempts, NEW c \in Channels PROVE CursorAt(a, c)'
      BY DEF CursorInv
    <2>2. promised' = promised /\ h' = h
      BY DEF handleVars, ghostVars
    <2>3. QED BY <2>2 DEF CursorInv, CursorAt, Honest, Granted
  <1>6. LossInv'
    <2>1. SUFFICES ASSUME h.epoch = epoch, NEW s \in journalled' PROVE LossAt(s)'
      BY DEF LossInv, Advance
    <2>2. h' = h /\ UNCHANGED <<promised, accounted, blind>> /\ epoch' = epoch
      BY DEF handleVars, ghostVars, Advance
    <2>3. Past(s) => Past(s)'
      BY <2>2 DEF Past, CutShort
    <2>4. CASE s \in journalled
      BY <2>1, <2>2, <2>3, <2>4 DEF LossInv, LossAt
    <2>5. CASE s = nextSeq
      BY <1>1, <2>1, <2>2, <2>5 DEF LossAt, EpochInv, CountAt, Advance
    <2>6. QED BY <2>4, <2>5 DEF Advance
  <1>7. QED BY <1>4, <1>5, <1>6

\* A step that writes no attach result, and only pushes of now.
LEMMA HonestCalm ==
  ASSUME Types, NEW c \in Channels,
         link'[c] = "up" => link[c] = "up",
         link[c] # "up" => toClient'[c] = toClient[c],
         Range(toServer'[c]) \subseteq Range(toServer[c]),
         \A x \in Range(toClient'[c]) : x.type = "attached" => x \in Range(toClient[c]),
         \A x \in Range(toClient'[c]) : x.type = "push" =>
           x \in Range(toClient[c]) \/ (x.epoch = epoch /\ x.seq < nextSeq'),
         Range(due'[c]) \subseteq Range(due[c])
  PROVE  Honest(c)
  BY DEF Honest, Fresh, Granted

\* What the counter of pushes and the journal may do.
LEMMA Advances ==
  ASSUME Types, Types', UNCHANGED handleVars, epoch' = epoch,
         \/ UNCHANGED <<nextSeq, journalled>>
         \/ nextSeq' = nextSeq + 1 /\ journalled' \subseteq journalled \cup {nextSeq}
  PROVE  Advance
  <1>1. nextSeq \in Nat /\ nextSeq' \in Nat
    BY DEF Types, JournalTypeOK
  <1>2. QED BY <1>1 DEF Advance, handleVars

\* A connection the daemon drops.
LEMMA DropHonest ==
  ASSUME Types, NEW b \in Channels, AttachDeadline(b) \/ DropSuperseded(b) \/ ServerNoticesClose(b),
         UNCHANGED handleVars, NEW c \in Channels
  PROVE  Honest(c)
  <1>1. Forget({b}) /\ toClient' = toClient /\ (link' = link \/ CutLinks({b}))
    BY DropTypes
  <1>2. /\ due \in [Channels -> Seq(DueMessage)] /\ toServer \in [Channels -> Seq(ToServerMessage)]
        /\ link \in [Channels -> Links]
    BY HostFacts
  <1>3. due'[c] \in {due[c], <<>>} /\ toServer'[c] \in {toServer[c], <<>>}
    <2>1. due' = Emptied(due, {b}) /\ toServer' = Emptied(toServer, {b})
      BY <1>1 DEF Forget
    <2>2. \A d \in Channels : due'[d] = IF d \in {b} THEN <<>> ELSE due[d]
      BY <2>1 DEF Emptied
    <2>3. \A d \in Channels : toServer'[d] = IF d \in {b} THEN <<>> ELSE toServer[d]
      BY <2>1 DEF Emptied
    <2>4. QED BY <2>2, <2>3
  <1>4. Range(due'[c]) \subseteq Range(due[c]) /\ Range(toServer'[c]) \subseteq Range(toServer[c])
    BY <1>3, Nothing
  <1>5. link'[c] = "up" => link[c] = "up"
    BY <1>1, <1>2, LinkTypes
  <1>6. QED BY <1>1, <1>4, <1>5, HonestCalm

\* A push is of now.
LEMMA PushHonest ==
  ASSUME Types, NEW b, NEW e \in Events, NEW size \in FrameSizes, PushThrough(b, e, size),
         UNCHANGED handleVars, NEW c \in Channels
  PROVE  Honest(c)
  <1>1. /\ nextSeq' = nextSeq + 1 /\ UNCHANGED <<link, toServer, hostVars>>
        /\ \A x \in Range(toClient'[c]) :
             x \in Range(toClient[c]) \/ (x \in PushMessages /\ x.seq = nextSeq /\ x.epoch = epoch)
    BY PushedTypes
  <1>2. toClient' = toClient \/ \E out : toClient' = Written(toClient, out)
    BY DEF PushThrough
  <1>3. link[c] # "up" => toClient'[c] = toClient[c]
    BY <1>2, WritesTo
  <1>4. nextSeq \in Nat
    BY DEF Types, JournalTypeOK
  <1>5. \A x \in Range(toClient'[c]) : x.type = "attached" => x \in Range(toClient[c])
    BY <1>1 DEF PushMessages
  <1>6. \A x \in Range(toClient'[c]) : x.type = "push" =>
          x \in Range(toClient[c]) \/ (x.epoch = epoch /\ x.seq < nextSeq')
    BY <1>1, <1>4
  <1>7. Range(due'[c]) \subseteq Range(due[c]) /\ Range(toServer'[c]) \subseteq Range(toServer[c])
    BY <1>1 DEF hostVars
  <1>8. QED BY <1>1, <1>3, <1>5, <1>6, <1>7, HonestCalm

\* The other client, a failed push, a settlement that ages out.
LEMMA OtherHonest ==
  ASSUME Types, PushFails \/ SettlementAgesOut \/ ForeignAttach \/ ForeignLeaves,
         UNCHANGED handleVars, NEW c \in Channels
  PROVE  Honest(c)
  <1>1. CASE PushFails \/ SettlementAgesOut
    <2>1. UNCHANGED <<wireVars, hostVars>>
      BY <1>1, JournalStepTypes
    <2>2. QED BY <2>1, HonestCalm DEF wireVars, hostVars
  <1>2. CASE ForeignAttach \/ ForeignLeaves
    <2>1. /\ UNCHANGED <<storeVars, link, toServer, due>>
          /\ \A x \in Range(toClient'[c]) : x \in Range(toClient[c]) \/ x = [type |-> "superseded"]
      BY <1>2, ForeignTypes
    <2>2. \A x \in Range(toClient'[c]) : x.type \in {"push", "attached"} => x \in Range(toClient[c])
      BY <2>1
    <2>3. toClient' = toClient \/ \E out : toClient' = Written(toClient, out)
      BY <1>2 DEF ForeignAttach, ForeignLeaves, wireVars
    <2>4. link[c] # "up" => toClient'[c] = toClient[c]
      BY <2>3, WritesTo
    <2>5. QED BY <2>1, <2>2, <2>4, HonestCalm
  <1>3. QED BY <1>1, <1>2

\* A replay that is written is of now: it was due.
LEMMA ImmediateHonest ==
  ASSUME Types, NEW b \in Channels, RunImmediates(b), UNCHANGED handleVars,
         NEW c \in Channels, StampAt(c)
  PROVE  Honest(c)
  <1> DEFINE r == due[b]
  <1>1. /\ toClient' = Written(toClient, OnlyTo(b, r))
        /\ due' = [due EXCEPT ![b] = <<>>]
        /\ UNCHANGED <<link, toServer, storeVars>>
    BY DEF RunImmediates
  <1>2. /\ toClient \in [Channels -> Seq(ToClientMessage)] /\ due \in [Channels -> Seq(DueMessage)]
    BY HostFacts
  <1>3. Range(due'[c]) \subseteq Range(due[c])
    BY <1>1, <1>2, Nothing
  <1>4. r \in Seq(DueMessage) /\ (c = b => r = due[c])
    BY <1>2
  <1> HIDE DEF r
  <1>5. CASE c # b \/ link[c] # "up"
    <2>1. toClient'[c] = toClient[c]
      <3>1. toClient \in [Channels -> Seq(ToClientMessage)]
        BY <1>2
      <3>2. Written(toClient, OnlyTo(b, r))[c] = toClient[c]
        BY ONLY <1>5, <3>1, WritesOther, c \in Channels
      <3>3. QED BY <1>1, <3>2
    <2>2. QED BY <1>1, <1>3, <2>1, HonestCalm
  <1>6. CASE c = b /\ link[c] = "up"
    <2>1. r \in Seq(ToClientMessage)
      BY <1>4, Kinds
    <2>2. toClient'[c] = Joined(toClient[c], r)
      <3>1. toClient' = Written(toClient, OnlyTo(c, r))
        BY <1>1, <1>6
      <3>2. QED BY <1>6, <3>1, WritesHere
    <2>3. Range(toClient'[c]) = Range(toClient[c]) \cup Range(r)
      BY <1>2, <2>1, <2>2, Joins
    <2>4. \A x \in Range(r) : x.type # "attached"
      BY <1>4, Elements DEF DueMessage, PushMessages, Responses
    <2>5. \A x \in Range(r) : x.type = "push" => x.epoch = epoch /\ x.seq < nextSeq
      BY <1>4, <1>6 DEF StampAt
    <2>6. nextSeq' = nextSeq
      BY <1>1 DEF storeVars
    <2>7. QED BY <1>1, <1>3, <1>6, <2>3, <2>4, <2>5, <2>6, HonestCalm
  <1>7. QED BY <1>5, <1>6

\* A handler's response is no push.
LEMMA FinishHonest ==
  ASSUME Types, NEW w \in running, Finish(w), UNCHANGED handleVars, NEW c \in Channels
  PROVE  Honest(c)
  <1>1. /\ UNCHANGED <<link, toServer, due>> /\ \E out : toClient' = Written(toClient, out)
    BY DEF Finish
  <1>2. Range(toClient'[c]) \subseteq Range(toClient[c]) \cup {Response(w)}
    BY FinishWrites
  <1>3. \A x \in Range(toClient'[c]) : x.type \in {"push", "attached"} => x \in Range(toClient[c])
    BY <1>2 DEF Response
  <1>4. link[c] # "up" => toClient'[c] = toClient[c]
    BY <1>1, WritesTo
  <1>5. QED BY <1>1, <1>3, <1>4, HonestCalm

\* A request that is read is gone; a refusal is neither push nor result.
LEMMA RequestHonest ==
  ASSUME Types, NEW b \in Channels, ServerReceive(b), NEW m,
         RefuseAttach(b, m) \/ DispatchInvoke(b, m), UNCHANGED handleVars, NEW c \in Channels
  PROVE  Honest(c)
  <1>1. /\ toServer[b] # <<>> /\ toServer'[b] = Tail(toServer[b])
        /\ \A d \in Channels : d # b => toServer'[d] = toServer[d]
        /\ link' = link
    BY ReceiveTakes
  <1>2. /\ toServer \in [Channels -> Seq(ToServerMessage)] /\ toClient \in [Channels -> Seq(ToClientMessage)]
    BY HostFacts
  <1>3. Range(toServer'[c]) \subseteq Range(toServer[c])
    <2>1. Range(toServer[b]) = Range(Tail(toServer[b])) \cup {Head(toServer[b])}
      BY <1>1, <1>2, Takes
    <2>2. QED BY <1>1, <2>1
  <1>4. due' = due
    BY DEF RefuseAttach, DispatchInvoke
  <1>5. CASE DispatchInvoke(b, m)
    <2>1. toClient' = toClient
      BY <1>5 DEF DispatchInvoke
    <2>2. QED BY <1>1, <1>3, <1>4, <2>1, HonestCalm
  <1>6. CASE RefuseAttach(b, m)
    <2> DEFINE x == [type |-> "refused"]
    <2> DEFINE r == <<x>>
    <2>1. toClient' = Written(toClient, OnlyTo(b, r))
      BY <1>6 DEF RefuseAttach
    <2>2. x \in ToClientMessage /\ x.type = "refused"
      BY Kinds
    <2> HIDE DEF x
    <2>3. r \in Seq(ToClientMessage) /\ Range(r) = {x}
      BY <2>2, One
    <2> HIDE DEF r
    <2>4. \A y \in Range(toClient'[c]) : y \in Range(toClient[c]) \/ y = x
      <3>1. CASE c = b /\ link[c] = "up"
        <4>1. toClient' = Written(toClient, OnlyTo(c, r))
          BY <2>1, <3>1
        <4>2. toClient'[c] = Joined(toClient[c], r)
          BY <3>1, <4>1, WritesHere
        <4>3. Range(toClient'[c]) = Range(toClient[c]) \cup Range(r)
          BY <1>2, <2>3, <4>2, Joins
        <4>4. QED BY <2>3, <4>3
      <3>2. CASE c # b \/ link[c] # "up"
        <4>1. toClient'[c] = toClient[c]
          BY <1>2, <2>1, <3>2, WritesOther
        <4>2. QED BY <4>1
      <3>3. QED BY <3>1, <3>2
    <2>5. link[c] # "up" => toClient'[c] = toClient[c]
      BY <1>2, <2>1, WritesOther
    <2>6. \A y \in Range(toClient'[c]) : y.type \in {"push", "attached"} => y \in Range(toClient[c])
      BY <2>2, <2>4
    <2>7. QED BY <1>1, <1>3, <1>4, <2>5, <2>6, HonestCalm
  <1>7. QED BY <1>5, <1>6

\* An attach is answered as of now, and granted a replay if it asked for one of
\* this incarnation.
LEMMA ServeHonest ==
  ASSUME Types, NEW b \in Channels, ServerReceive(b), NEW m, m = Head(toServer[b]), m.type = "attach",
         m \in Attaches, ServeAttach(b, m), UNCHANGED handleVars, NEW c \in Channels
  PROVE  Honest(c)
  <1>1. /\ toServer[b] # <<>> /\ toServer'[b] = Tail(toServer[b]) /\ m \in Range(toServer[b])
        /\ \A d \in Channels : d # b => toServer'[d] = toServer[d]
        /\ link' = link /\ nextSeq' = nextSeq
    BY ReceiveTakes
  <1>2. /\ toServer \in [Channels -> Seq(ToServerMessage)] /\ due \in [Channels -> Seq(DueMessage)]
        /\ nextSeq \in Nat
    BY HostFacts DEF JournalTypeOK
  <1>3. Range(toServer'[c]) \subseteq Range(toServer[c])
    <2>1. Range(toServer[b]) = Range(Tail(toServer[b])) \cup {Head(toServer[b])}
      BY <1>1, <1>2, Takes
    <2>2. QED BY <1>1, <2>1
  <1>4. \A x \in Range(toClient'[c]) :
          \/ x \in Range(toClient[c]) \/ (c = b /\ x = AttachResult(m))
          \/ x = [type |-> "superseded"]
    BY ServeWrites
  <1>5. link[c] # "up" => toClient'[c] = toClient[c]
    <2>1. \E out : toClient' = Written(toClient, out)
      BY DEF ServeAttach
    <2>2. QED BY <2>1, WritesTo
  <1>6. /\ AttachResult(m).epoch = epoch /\ AttachResult(m).seq < nextSeq
        /\ AttachResult(m).status = "ok" => m.epoch = epoch
    <2>1. AttachStatus(m) = "ok" => m.epoch = epoch
      BY AttachMessages
    <2>2. QED BY <1>2, <2>1 DEF AttachResult, LastSeq
  <1>7. \A x \in Range(due'[c]) : x.type = "push" =>
          x \in Range(due[c]) \/ (x.epoch = epoch /\ x.seq < nextSeq')
    <2>1. due' = [due EXCEPT ![b] = AttachDue(m)]
      BY DEF ServeAttach
    <2>2. CASE c # b
      BY <1>2, <2>1, <2>2
    <2>3. CASE c = b
      <3>1. due'[c] = AttachDue(m)
        BY <1>2, <2>1, <2>3
      <3>2. \A x \in Range(AttachDue(m)) : x \in Responses \/ (x.epoch = epoch /\ x.seq < nextSeq)
        BY AttachMessages
      <3>3. QED BY <1>1, <3>1, <3>2 DEF Responses
    <2>4. QED BY <2>2, <2>3
  <1>8. Fresh(c)
    <2>1. \A x \in Range(toClient'[c]) : x.type \in {"push", "attached"} =>
            x \in Range(toClient[c]) \/ (x.epoch = epoch /\ x.seq < nextSeq')
      BY <1>1, <1>4, <1>6
    <2>2. QED BY <1>1, <1>5, <1>7, <2>1 DEF Fresh
  <1>9. Granted(c)
    <2>1. \A x \in Range(toClient'[c]) : x.type = "attached" => x \in Range(toClient[c]) \/ (c = b /\ x = AttachResult(m))
      BY <1>4
    <2>2. QED BY <1>1, <1>3, <1>6, <2>1 DEF Granted
  <1>10. QED BY <1>8, <1>9 DEF Honest

\* A crash starts another incarnation: no channel is up, no cursor counts from it.
LEMMA CrashCursors ==
  ASSUME Types, Types', DaemonCrash, UNCHANGED handleVars, EpochInv, CursorInv
  PROVE  EpochInv' /\ CursorInv' /\ LossInv'
  <1>1. /\ epoch' = epoch + 1 /\ h' = h /\ toClient' = toClient /\ promised' = promised
        /\ due' = Emptied(due, Channels) /\ toServer' = Emptied(toServer, Channels)
        /\ CutLinks(Connected)
    BY DEF DaemonCrash, handleVars, ghostVars
  <1>2. epoch \in Int /\ h.epoch \in Int
    BY HostFacts DEF HandleRecord
  <1>3. h.epoch < epoch'
    BY <1>1, <1>2 DEF EpochInv
  <1>4. \A c \in Channels : due'[c] = <<>> /\ toServer'[c] = <<>>
    BY <1>1 DEF Emptied
  <1>5. \A c \in Channels : link'[c] # "up"
    <2>1. \A c \in Channels : link'[c] = IF c \in Connected THEN "cut" ELSE link[c]
      BY <1>1, HostFacts, LinkTypes
    <2>2. QED BY <2>1, ChannelFacts
  <1>6. \A c \in Channels : Stamps(c)' = Stamps(c)
    BY <1>1 DEF Stamps, Stamped, Read
  <1>7. \A c \in Channels : StampAt(c)'
    <2> SUFFICES ASSUME NEW c \in Channels PROVE StampAt(c)'
      OBVIOUS
    <2>1. \A x \in Stamps(c)' : x.epoch \in Int /\ x.epoch <= epoch /\ \A y \in Stamps(c)' : x.epoch = y.epoch
      BY <1>6, StampTypes DEF EpochInv, StampAt
    <2>2. \A x \in Stamps(c)' : x.epoch < epoch'
      BY <1>1, <1>2, <2>1
    <2>3. \A x \in Stamps(c)' : x.epoch <= epoch' /\ x.epoch # epoch'
      BY <1>1, <1>2, <2>1, <2>2
    <2>4. h'.epoch # epoch' /\ link'[c] # "up"
      BY <1>1, <1>2, <1>3, <1>5
    <2>5. \A x \in Range(due'[c]) : FALSE
      BY <1>4, Nothing
    <2>6. QED BY <2>1, <2>3, <2>4, <2>5 DEF StampAt
  <1>8. h'.epoch <= epoch' /\ h'.epoch # epoch'
    BY <1>1, <1>2, <1>3
  <1>9. EpochInv' /\ LossInv'
    BY <1>7, <1>8 DEF EpochInv, CountAt, LossInv
  <1>10. CursorInv'
    <2>1. SUFFICES ASSUME NEW a \in Attempts, NEW c \in Channels PROVE CursorAt(a, c)'
      BY DEF CursorInv
    <2>2. \A x \in Range(toServer'[c]) : FALSE
      BY <1>4, Nothing
    <2>3. CursorAt(a, c)
      BY DEF CursorInv
    <2>4. QED BY <1>1, <2>2, <2>3 DEF CursorAt
  <1>11. QED BY <1>9, <1>10

\* Every step of the daemon keeps what is known of the cursors.
LEMMA DaemonCursors ==
  ASSUME Types, Types', DaemonStep, UNCHANGED handleVars, EpochInv, CursorInv, LossInv
  PROVE  EpochInv' /\ CursorInv' /\ LossInv'
  <1>1. ASSUME Advance, \A c \in Channels : Honest(c)
        PROVE  EpochInv' /\ CursorInv' /\ LossInv'
    BY <1>1, HonestKeep
  <1>2. ASSUME epoch' = epoch, UNCHANGED <<nextSeq, journalled>> PROVE Advance
    BY <1>2, Advances
  <1>3. ASSUME NEW b \in Channels, ServerReceive(b) PROVE EpochInv' /\ CursorInv' /\ LossInv'
    <2> DEFINE m == Head(toServer[b])
    <2>1. m \in ToServerMessage /\ epoch' = epoch /\ UNCHANGED <<nextSeq, journalled>>
      BY <1>3, ReceiveTakes
    <2>2. m.type = "attach" => m \in Attaches
      BY <2>1, Kinds
    <2>3. \/ m.type = "attach" /\ ServeAttach(b, m)
          \/ m.type = "attach" /\ RefuseAttach(b, m)
          \/ m.type = "invoke" /\ DispatchInvoke(b, m)
      BY <1>3 DEF ServerReceive
    <2> HIDE DEF m
    <2>4. m = Head(toServer[b])
      BY DEF m
    <2>5. \A c \in Channels : Honest(c)
      <3>1. CASE m.type = "attach" /\ ServeAttach(b, m)
        BY <1>3, <2>2, <2>4, <3>1, ServeHonest
      <3>2. CASE RefuseAttach(b, m) \/ DispatchInvoke(b, m)
        BY <1>3, <3>2, RequestHonest
      <3>3. QED BY <2>3, <3>1, <3>2
    <2>6. QED BY <1>1, <1>2, <2>1, <2>5
  <1>4. ASSUME NEW b \in Channels, RunImmediates(b) PROVE EpochInv' /\ CursorInv' /\ LossInv'
    <2>1. \A c \in Channels : Honest(c)
      BY <1>4, ImmediateHonest DEF EpochInv
    <2>2. epoch' = epoch /\ UNCHANGED <<nextSeq, journalled>>
      BY <1>4 DEF RunImmediates, storeVars
    <2>3. QED BY <1>1, <1>2, <2>1, <2>2
  <1>5. ASSUME NEW b \in Channels, AttachDeadline(b) \/ DropSuperseded(b) \/ ServerNoticesClose(b)
        PROVE  EpochInv' /\ CursorInv' /\ LossInv'
    <2>1. \A c \in Channels : Honest(c)
      BY <1>5, DropHonest
    <2>2. UNCHANGED storeVars /\ epoch' = epoch
      BY <1>5, DropTypes
    <2>3. QED BY <1>1, <1>2, <2>1, <2>2 DEF storeVars
  <1>6. ASSUME NEW w \in running, Finish(w) PROVE EpochInv' /\ CursorInv' /\ LossInv'
    <2>1. \A c \in Channels : Honest(c)
      BY <1>6, FinishHonest
    <2>2. epoch' = epoch /\ UNCHANGED <<nextSeq, journalled>>
      BY <1>6 DEF Finish, journalVars
    <2>3. QED BY <1>1, <1>2, <2>1, <2>2
  <1>7. ASSUME NEW e \in Events, NEW size \in FrameSizes, NEW b, PushThrough(b, e, size)
        PROVE  EpochInv' /\ CursorInv' /\ LossInv'
    <2>1. \A c \in Channels : Honest(c)
      BY <1>7, PushHonest
    <2>2. nextSeq' = nextSeq + 1 /\ journalled' = journalled \cup {nextSeq} /\ epoch' = epoch
      BY <1>7 DEF PushThrough, AppendPush, hostVars
    <2>3. Advance
      BY <2>2, Advances
    <2>4. QED BY <1>1, <2>1, <2>3
  <1>8. CASE PushFails \/ SettlementAgesOut \/ ForeignAttach \/ ForeignLeaves
    <2>1. \A c \in Channels : Honest(c)
      BY <1>8, OtherHonest
    <2>2. CASE PushFails
      <3>1. nextSeq' = nextSeq + 1 /\ journalled' = journalled /\ epoch' = epoch
        BY <2>2 DEF PushFails, AppendThrows, hostVars
      <3>2. Advance
        BY <3>1, Advances
      <3>3. QED BY <1>1, <2>1, <3>2
    <2>3. CASE SettlementAgesOut \/ ForeignAttach \/ ForeignLeaves
      <3>1. epoch' = epoch /\ UNCHANGED <<nextSeq, journalled>>
        BY <2>3 DEF SettlementAgesOut, ForeignAttach, ForeignLeaves, journalVars, storeVars, hostVars
      <3>2. QED BY <1>1, <1>2, <2>1, <3>1
    <2>4. QED BY <1>8, <2>2, <2>3
  <1>9. CASE DaemonCrash
    BY <1>9, CrashCursors
  <1>10. QED BY <1>3, <1>4, <1>5, <1>6, <1>7, <1>8, <1>9 DEF DaemonStep, SessionPush, HandlerPush

\* A channel that breaks.
LEMMA CutCursors ==
  ASSUME Types, Types', NEW b \in Channels, BreakChannel(b), EpochInv, CursorInv, LossInv
  PROVE  EpochInv' /\ CursorInv' /\ LossInv'
  <1>1. /\ UNCHANGED handleVars /\ UNCHANGED <<toClient, toServer, due, epoch, nextSeq, journalled>>
        /\ CutLinks({b})
    BY DEF BreakChannel, Cut, storeVars, hostVars
  <1>2. \A c \in Channels : link'[c] = "up" => link[c] = "up"
    BY <1>1, HostFacts, LinkTypes
  <1>3. \A c \in Channels : Honest(c)
    BY <1>1, <1>2, HonestCalm
  <1>4. Advance
    BY <1>1, Advances
  <1>5. QED BY <1>1, <1>3, <1>4, HonestKeep

\* A step of the shell that moves no cursor and takes in nothing new.
Stands(c) ==
  /\ h'.rpc[c].seq = h.rpc[c].seq /\ (h'.rpc[c].open => h.rpc[c].open)
  /\ Stamps(c)' \subseteq Stamps(c)
  /\ link'[c] = "up" => link[c] = "up"
  /\ h'.client = c /\ h'.rpc[c].open => h.client = c
CursorsStand ==
  /\ h'.epoch = h.epoch /\ h'.lastSeq = h.lastSeq
  /\ UNCHANGED <<epoch, nextSeq, journalled, due, promised, accounted, blind>>
  /\ \A c \in Channels : Stands(c)

\* Fewer open clients, more replays cut short.
LEMMA MoreCutShort ==
  ASSUME promised' = promised, \A c \in Channels : h'.rpc[c].open => h.rpc[c].open
  PROVE  CutShort \subseteq CutShort'
  BY DEF CutShort

\* Such a step keeps what is known of the cursors.
LEMMA StandsKeep ==
  ASSUME Types, CursorsStand, EpochInv, LossInv
  PROVE  EpochInv' /\ LossInv'
  <1>1. \A c \in Channels : StampAt(c)' /\ CountAt(c)'
    BY DEF EpochInv, StampAt, CountAt, CursorsStand, Stands
  <1>2. EpochInv'
    BY <1>1 DEF EpochInv, CursorsStand
  <1>3. LossInv'
    <2>1. SUFFICES ASSUME h.epoch = epoch, NEW s \in journalled PROVE LossAt(s)'
      BY DEF LossInv, CursorsStand
    <2>2. LossAt(s)
      BY <2>1 DEF LossInv
    <2>3. CutShort \subseteq CutShort'
      BY MoreCutShort DEF CursorsStand, Stands
    <2>4. Past(s) => Past(s)'
      BY <2>3 DEF Past, CursorsStand
    <2>5. \A c \in Channels : h'.rpc[c].open /\ s <= h'.rpc[c].seq => Past(s)'
      BY <2>2, <2>4 DEF LossAt, CursorsStand, Stands
    <2>6. ASSUME s <= h'.lastSeq
          PROVE  Past(s)' \/ \E c \in Channels : h'.rpc[c].open /\ <<epoch', s>> \in promised'[c]
      <3>1. Past(s) \/ \E c \in Channels : h.rpc[c].open /\ <<epoch, s>> \in promised[c]
        BY <2>2, <2>6 DEF LossAt, CursorsStand
      <3>2. CASE Past(s)
        BY <2>4, <3>2
      <3>3. ASSUME NEW c \in Channels, h.rpc[c].open, <<epoch, s>> \in promised[c]
            PROVE  Past(s)' \/ \E d \in Channels : h'.rpc[d].open /\ <<epoch', s>> \in promised'[d]
        <4>1. CASE h'.rpc[c].open
          BY <3>3, <4>1 DEF CursorsStand
        <4>2. CASE ~h'.rpc[c].open
          <5>1. <<epoch', s>> \in CutShort'
            BY <3>3, <4>2 DEF CutShort, CursorsStand
          <5>2. QED BY <5>1 DEF Past
        <4>3. QED BY <4>1, <4>2
      <3>4. QED BY <3>1, <3>2, <3>3
    <2>7. QED BY <2>5, <2>6 DEF LossAt
  <1>4. QED BY <1>2, <1>3

\* What a queue loses leaves fewer stamps; so do attempts that end.
LEMMA FewerStamps ==
  ASSUME NEW c \in Channels, Range(toClient'[c]) \subseteq Range(toClient[c]), Halts(h.attempt, h'.attempt)
  PROVE  Stamps(c)' \subseteq Stamps(c)
  <1>1. Stamped(toClient[c])' \subseteq Stamped(toClient[c])
    BY DEF Stamped
  <1>2. Read(c)' \subseteq Read(c)
    BY DEF Read, Halts, Moving
  <1>3. QED BY <1>1, <1>2 DEF Stamps

\* Grants stay honest when the handle's cursor and the attempts stand, and no
\* attach request or result comes in.
LEMMA GrantsStand ==
  ASSUME CursorInv, h'.epoch = h.epoch, promised' = promised, Halts(h.attempt, h'.attempt),
         \A c \in Channels : Range(toClient'[c]) \subseteq Range(toClient[c]),
         \A c \in Channels : \A x \in Range(toServer'[c]) : x.type = "attach" => x \in Range(toServer[c])
  PROVE  CursorInv'
  <1>1. SUFFICES ASSUME NEW a \in Attempts, NEW c \in Channels PROVE CursorAt(a, c)'
    BY DEF CursorInv
  <1>2. CursorAt(a, c)
    BY DEF CursorInv
  <1>3. h'.attempt[a] = h.attempt[a] \/ ~Moving(h'.attempt[a])
    BY DEF Halts
  <1>4. QED BY <1>2, <1>3 DEF CursorAt, Moving

\* A calm step of the shell.
LEMMA CalmCursors ==
  ASSUME Types, CalmStep, UNCHANGED <<storeVars, hostVars>>, EpochInv, CursorInv, LossInv
  PROVE  EpochInv' /\ CursorInv' /\ LossInv'
  <1>1. /\ UNCHANGED <<epoch, nextSeq, journalled, due, promised, accounted, blind, toServer>>
        /\ h'.epoch = h.epoch /\ h'.lastSeq = h.lastSeq /\ Halts(h.attempt, h'.attempt)
        /\ \A c \in Channels : h'.rpc[c].seq = h.rpc[c].seq /\ (h'.rpc[c].open => h.rpc[c].open)
    BY DEF CalmStep, QuietStep, Quiet, SameClient, Becomes, storeVars, hostVars, ghostVars
  <1>2. \E cs : CutLinks(cs) /\ toClient' = Emptied(toClient, cs)
    BY DEF CalmStep, QuietStep, Becomes
  <1>3. \A c \in Channels : toClient'[c] \in {toClient[c], <<>>}
    BY <1>2 DEF Emptied
  <1>4. \A c \in Channels : Range(toClient'[c]) \subseteq Range(toClient[c])
    BY <1>3, Nothing
  <1>5. \A c \in Channels : link'[c] = "up" => link[c] = "up"
    BY <1>2, HostFacts, LinkTypes
  <1>6. \A c \in Channels : h'.client = c /\ h'.rpc[c].open => h.client = c
    BY DEF CalmStep, Shut, Steady
  <1>7. \A c \in Channels : Stamps(c)' \subseteq Stamps(c)
    BY <1>1, <1>4, FewerStamps
  <1>8. CursorsStand
    BY <1>1, <1>5, <1>6, <1>7 DEF CursorsStand, Stands
  <1>9. CursorInv'
    BY <1>1, <1>4, GrantsStand
  <1>10. QED BY <1>8, <1>9, StandsKeep

\* invoke() moves no cursor.
LEMMA InvokeCursors ==
  ASSUME Types, NEW i \in MyInvokes, Invoke(i), UNCHANGED <<storeVars, hostVars>>,
         EpochInv, CursorInv, LossInv
  PROVE  EpochInv' /\ CursorInv' /\ LossInv'
  <1>1. /\ h' = [h EXCEPT !.owned = h'.owned, !.wire = h'.wire, !.rpc = h'.rpc]
        /\ \A d \in Channels : h'.rpc[d].seq = h.rpc[d].seq
        /\ UNCHANGED ghostVars
    BY InvokeCalls
  <1>2. PICK q : Calls({i}, q)
    BY InvokeCalls
  <1>3. /\ h'.epoch = h.epoch /\ h'.lastSeq = h.lastSeq /\ h'.attempt = h.attempt /\ h'.client = h.client
    <2> DEFINE f == h'.owned
    <2> DEFINE g == h'.wire
    <2> DEFINE k == h'.rpc
    <2>1. h' = [h EXCEPT !.owned = f, !.wire = g, !.rpc = k]
      BY <1>1
    <2> HIDE DEF f, g, k
    <2>2. QED BY <2>1, HostFacts DEF HandleRecord
  <1>4. /\ link' = link /\ toClient' = toClient
        /\ \A c \in Channels : h'.rpc[c].open = h.rpc[c].open
    BY <1>2 DEF Calls
  <1>5. \A c \in Channels : \A x \in Range(toServer'[c]) : x.type = "attach" => x \in Range(toServer[c])
    <2> SUFFICES ASSUME NEW c \in Channels, NEW x \in Range(toServer'[c]), x.type = "attach"
                 PROVE  x \in Range(toServer[c])
      OBVIOUS
    <2>1. toServer'[c] = Joined(toServer[c], q) \/ toServer'[c] = toServer[c]
      BY <1>2 DEF Calls
    <2>2. q \in Seq(InvokeMessages)
      BY <1>2 DEF Calls
    <2>3. Range(q) \subseteq InvokeMessages
      BY <2>2, Elements
    <2>4. q \in Seq(ToServerMessage) /\ toServer[c] \in Seq(ToServerMessage)
      BY <2>2, HostFacts DEF ToServerMessage
    <2>5. Range(Joined(toServer[c], q)) = Range(toServer[c]) \cup Range(q)
      BY <2>4, Joins
    <2>6. QED BY <2>1, <2>3, <2>5 DEF InvokeMessages
  <1>6. Halts(h.attempt, h'.attempt)
    BY <1>3 DEF Halts
  <1>7. \A c \in Channels : Stamps(c)' \subseteq Stamps(c)
    BY <1>4, <1>6, FewerStamps
  <1>8. CursorsStand
    BY <1>1, <1>3, <1>4, <1>7 DEF CursorsStand, Stands, storeVars, hostVars, ghostVars
  <1>9. CursorInv'
    BY <1>1, <1>3, <1>4, <1>5, <1>6, GrantsStand DEF ghostVars
  <1>10. QED BY <1>8, <1>9, StandsKeep

\* The attempts that reconcile do so already, or begin with the result m.
TakesIn(b, m) ==
  \A a \in Attempts : h'.attempt[a].pc = "reconciling" =>
    \/ h'.attempt[a] = h.attempt[a]
    \/ m.type = "attached" /\ h'.attempt[a].ch = b /\ h'.attempt[a].result = m

\* A message is read: it is stamped like what it was among.
LEMMA ReadStands ==
  ASSUME Types, NEW b \in Channels, toClient[b] # <<>>, toClient' = [toClient EXCEPT ![b] = Tail(@)],
         NEW m, m = Head(toClient[b]), link' = link,
         UNCHANGED <<storeVars, hostVars>>,
         h'.client = h.client, \A c \in Channels : h'.rpc[c].open = h.rpc[c].open,
         TakesIn(b, m), NEW c \in Channels
  PROVE  /\ Range(toClient'[c]) \subseteq Range(toClient[c]) /\ m \in Range(toClient[b])
         /\ Stamps(c)' \subseteq Stamps(c)
  <1>1. toClient \in [Channels -> Seq(ToClientMessage)]
    BY HostFacts
  <1>2. /\ toClient'[b] = Tail(toClient[b]) /\ Range(toClient[b]) = Range(Tail(toClient[b])) \cup {m}
        /\ \A d \in Channels : d # b => toClient'[d] = toClient[d]
    BY <1>1, TakesOne
  <1>3. Range(toClient'[c]) \subseteq Range(toClient[c]) /\ m \in Range(toClient[b])
    BY <1>2
  <1>4. Stamped(toClient[c])' \subseteq Stamped(toClient[c])
    BY <1>3 DEF Stamped
  <1>5. Read(c)' \subseteq Read(c) \cup Stamped(toClient[c])
    <2>1. SUFFICES ASSUME NEW a \in Attempts, h'.attempt[a].ch = c, h'.attempt[a].pc = "reconciling"
                   PROVE  h'.attempt[a].result \in Read(c) \cup Stamped(toClient[c])
      BY DEF Read
    <2>2. CASE h'.attempt[a] = h.attempt[a]
      BY <2>1, <2>2 DEF Read
    <2>3. CASE m.type = "attached" /\ h'.attempt[a].ch = b /\ h'.attempt[a].result = m
      BY <1>3, <2>1, <2>3 DEF Stamped
    <2>4. QED BY <2>1, <2>2, <2>3 DEF TakesIn
  <1>6. QED BY <1>3, <1>4, <1>5 DEF Stamps

\* The handle asks for a replay by its own cursor.
LEMMA HelloCursors ==
  ASSUME Types, Sound(h), GateInv, NEW b \in Channels, ReceiveHello(b), h.rpc[b].open, toClient[b] # <<>>,
         UNCHANGED <<storeVars, hostVars>>, EpochInv, CursorInv, LossInv
  PROVE  EpochInv' /\ CursorInv' /\ LossInv'
  <1> DEFINE q == AttachRequest
             r == <<q>>
             m == Head(toClient[b])
  <1>1. PICK a \in Attempts :
          /\ h.attempt[a].ch = b /\ h.attempt[a].pc = "hello"
          /\ h' = [h EXCEPT !.attempt[a].pc = "attaching"]
          /\ toServer' = Written(toServer, OnlyTo(b, r)) /\ link' = link
          /\ toClient' = [toClient EXCEPT ![b] = Tail(@)] /\ UNCHANGED ghostVars
    BY DEF ReceiveHello
  <1>2. /\ q.type = "attach" /\ q.epoch = h.epoch /\ h \in HandleRecord
        /\ toServer \in [Channels -> Seq(ToServerMessage)]
    BY HostFacts DEF AttachRequest
  <1> HIDE DEF q
  <1> DEFINE f == [h.attempt EXCEPT ![a].pc = "attaching"]
  <1>3. h' = [h EXCEPT !.attempt = f]
    BY <1>1, <1>2 DEF HandleRecord
  <1>4. f[a].pc = "attaching" /\ f[a].ch = b /\ \A x \in Attempts \ {a} : f[x] = h.attempt[x]
    BY <1>1, <1>2 DEF HandleRecord, AttemptSet, AttemptRecord
  <1> HIDE DEF f
  <1>5. /\ h'.client = h.client /\ h'.rpc = h.rpc /\ h'.attempt = f
        /\ h'.epoch = h.epoch /\ h'.lastSeq = h.lastSeq
    BY <1>2, <1>3 DEF HandleRecord
  <1>6. \A x \in Attempts \ {a} : h.attempt[x].pc = "idle"
    <2>1. h.attempt[a].pc # "idle"
      BY <1>1
    <2>2. QED BY <2>1, NoOther
  <1>7. \A x \in Attempts : h'.attempt[x].pc # "reconciling"
    BY <1>4, <1>5, <1>6
  <1> HIDE DEF m
  <1>8. \A c \in Channels : Range(toClient'[c]) \subseteq Range(toClient[c]) /\ Stamps(c)' \subseteq Stamps(c)
    <2>1. m = Head(toClient[b])
      BY DEF m
    <2>2. TakesIn(b, m)
      BY <1>7 DEF TakesIn
    <2>3. h'.client = h.client /\ \A c \in Channels : h'.rpc[c].open = h.rpc[c].open
      BY <1>5
    <2>4. QED BY <1>1, <2>1, <2>2, <2>3, ReadStands
  <1>9. CursorsStand
    BY <1>1, <1>5, <1>8 DEF CursorsStand, Stands, storeVars, hostVars, ghostVars
  <1>10. CursorInv'
    <2>1. SUFFICES ASSUME NEW x \in Attempts, NEW c \in Channels, h'.attempt[x].ch = c PROVE CursorAt(x, c)'
      BY DEF CursorInv, CursorAt
    <2>2. CASE x # a
      BY <1>4, <1>5, <1>6, <2>2 DEF CursorAt, Moving
    <2>3. CASE x = a
      <3>1. c = b
        BY <1>4, <1>5, <2>1, <2>3
      <3>2. Greeted(b)
        BY <1>1 DEF Greeted
      <3>3. ~HoldsAttach(toServer[b]) /\ ~HoldsResult(toClient[b])
        BY <3>2 DEF GateInv, GateAt
      <3>4. \A y \in Range(toClient'[b]) : y.type # "attached"
        BY <1>8, <3>3 DEF HoldsResult
      <3>5. \A y \in Range(toServer'[b]) : y.type = "attach" => y.epoch = h.epoch
        <4>1. CASE link[b] # "up"
          <5> HIDE DEF r
          <5>1. toServer'[b] = toServer[b]
            BY <1>1, <1>2, <4>1, WritesOther
          <5>2. QED BY <3>3, <5>1 DEF HoldsAttach
        <4>2. CASE link[b] = "up"
          <5>1. Range(r) \subseteq {q} /\ r \in Seq({q})
            BY One
          <5> HIDE DEF r
          <5>2. toServer'[b] = Joined(toServer[b], r)
            BY <1>1, <4>2, WritesHere
          <5>3. toServer[b] \in Seq(ToServerMessage \cup {q}) /\ r \in Seq(ToServerMessage \cup {q})
            BY <1>2, <5>1
          <5>4. Range(toServer'[b]) = Range(toServer[b]) \cup Range(r)
            BY <5>2, <5>3, Joins
          <5>5. QED BY <1>2, <3>3, <5>1, <5>4 DEF HoldsAttach
        <4>3. QED BY <4>1, <4>2
      <3>6. CursorAt(a, b) /\ Moving(h.attempt[a])
        BY <1>1 DEF CursorInv, Moving
      <3>7. promised'[b] = {}
        BY <1>1, <3>6 DEF CursorAt, ghostVars
      <3>8. h'.attempt[a].pc = "attaching" /\ h'.epoch = h.epoch
        BY <1>4, <1>5
      <3>9. QED BY <2>3, <3>1, <3>4, <3>5, <3>7, <3>8 DEF CursorAt
    <2>4. QED BY <2>2, <2>3
  <1>11. QED BY <1>9, <1>10, StandsKeep

\* A result that is in the handle's hands was granted by its cursor.
LEMMA AttachedCursors ==
  ASSUME Types, Sound(h), NEW b \in Channels, h.rpc[b].open, toClient[b] # <<>>,
         NEW m, m = Head(toClient[b]), m.type = "attached", ReceiveAttached(b, m),
         UNCHANGED <<storeVars, hostVars>>, EpochInv, CursorInv, LossInv
  PROVE  EpochInv' /\ CursorInv' /\ LossInv'
  <1>1. PICK a \in Attempts :
          /\ h.attempt[a].ch = b /\ h.attempt[a].pc = "attaching"
          /\ h' = [h EXCEPT !.attempt[a].pc = "reconciling", !.attempt[a].result = m]
          /\ toClient' = [toClient EXCEPT ![b] = Tail(@)] /\ toServer' = toServer /\ link' = link
          /\ UNCHANGED ghostVars
    BY DEF ReceiveAttached
  <1>2. h \in HandleRecord
    BY HostFacts
  <1> DEFINE f == [h.attempt EXCEPT ![a].pc = "reconciling", ![a].result = m]
  <1>3. h' = [h EXCEPT !.attempt = f]
    BY <1>1, <1>2 DEF HandleRecord
  <1>4. f[a].pc = "reconciling" /\ f[a].ch = b /\ f[a].result = m /\ \A x \in Attempts \ {a} : f[x] = h.attempt[x]
    BY <1>1, <1>2 DEF HandleRecord, AttemptSet, AttemptRecord
  <1> HIDE DEF f
  <1>5. /\ h'.client = h.client /\ h'.rpc = h.rpc /\ h'.attempt = f
        /\ h'.epoch = h.epoch /\ h'.lastSeq = h.lastSeq
    BY <1>2, <1>3 DEF HandleRecord
  <1>6. TakesIn(b, m)
    BY <1>4, <1>5 DEF TakesIn
  <1>7. \A c \in Channels :
          Range(toClient'[c]) \subseteq Range(toClient[c]) /\ m \in Range(toClient[b]) /\ Stamps(c)' \subseteq Stamps(c)
    <2>1. h'.client = h.client /\ \A c \in Channels : h'.rpc[c].open = h.rpc[c].open
      BY <1>5
    <2>2. QED BY <1>1, <1>6, <2>1, ReadStands
  <1>8. CursorsStand
    BY <1>1, <1>5, <1>7 DEF CursorsStand, Stands, storeVars, hostVars, ghostVars
  <1>9. CursorInv'
    <2>1. SUFFICES ASSUME NEW x \in Attempts, NEW c \in Channels, h'.attempt[x].ch = c PROVE CursorAt(x, c)'
      BY DEF CursorInv, CursorAt
    <2>2. CursorAt(x, c)
      BY DEF CursorInv
    <2>3. CASE x # a
      <3>1. h'.attempt[x] = h.attempt[x] /\ h'.epoch = h.epoch /\ promised' = promised /\ toServer' = toServer
        BY <1>1, <1>4, <1>5, <2>3 DEF ghostVars
      <3>2. Range(toClient'[c]) \subseteq Range(toClient[c])
        BY <1>7
      <3>3. QED BY <2>2, <3>1, <3>2 DEF CursorAt
    <2>4. CASE x = a
      <3>1. c = b /\ h'.attempt[x] = f[a]
        BY <1>4, <1>5, <2>1, <2>4
      <3>2. m.status = "ok" => m.epoch = h.epoch
        BY <1>1, <1>7, <2>2, <2>4, <3>1 DEF CursorAt
      <3>3. promised[b] = {}
        BY <1>1, <2>2, <2>4, <3>1 DEF CursorAt, Moving
      <3>4. QED BY <1>1, <1>4, <1>5, <3>1, <3>2, <3>3 DEF CursorAt, ghostVars
    <2>5. QED BY <2>3, <2>4
  <1>10. QED BY <1>8, <1>9, StandsKeep

\* The other messages that move no cursor.
LEMMA NoticeCursors ==
  ASSUME Types, NEW b \in Channels, h.rpc[b].open, toClient[b] # <<>>, NEW m, m = Head(toClient[b]),
         (m.type = "response" /\ ReceiveResponse(b, m)) \/ ReceiveSuperseded(b),
         UNCHANGED <<storeVars, hostVars>>, EpochInv, CursorInv, LossInv
  PROVE  EpochInv' /\ CursorInv' /\ LossInv'
  <1>1. /\ h'.attempt = h.attempt /\ h'.client = h.client /\ h'.epoch = h.epoch /\ h'.lastSeq = h.lastSeq
        /\ \A c \in Channels : h'.rpc[c].open = h.rpc[c].open /\ h'.rpc[c].seq = h.rpc[c].seq
    <2>1. CASE m.type = "response" /\ ReceiveResponse(b, m)
      <3>1. /\ h' = [h EXCEPT !.rpc = h'.rpc, !.owned = h'.owned]
            /\ \A d \in Channels : h'.rpc[d].open = h.rpc[d].open /\ h'.rpc[d].seq = h.rpc[d].seq
        BY <2>1, ResponseTypes
      <3> DEFINE p == h'.rpc
                 o == h'.owned
      <3>2. h' = [h EXCEPT !.rpc = p, !.owned = o] /\ h \in HandleRecord
        BY <3>1, HostFacts
      <3> HIDE DEF p, o
      <3>3. h'.attempt = h.attempt /\ h'.client = h.client /\ h'.epoch = h.epoch /\ h'.lastSeq = h.lastSeq
        BY <3>2 DEF HandleRecord
      <3>4. QED BY <3>1, <3>3
    <2>2. CASE ReceiveSuperseded(b)
      <3>1. Quiet(h, h') /\ h'.attempt = h.attempt /\ h'.rpc = h.rpc
        BY <2>2, SupersededTypes
      <3>2. h'.client = h.client
        <4> DEFINE u == FailOwned(h)
                   t == TRUE
        <4>1. h' = [u EXCEPT !.stopped = t, !.state = "disconnected"]
          BY <2>2 DEF ReceiveSuperseded
        <4>2. u \in HandleRecord /\ OnlyOwned(h, u)
          BY HostFacts, Fails, QuietIs
        <4>3. u.client = h.client
          <5>1. Face(h, u)
            BY <4>2, HostFacts, SettledFace
          <5>2. QED BY <5>1 DEF Face
        <4> HIDE DEF u, t
        <4>4. QED BY <4>1, <4>2, <4>3 DEF HandleRecord
      <3>3. QED BY <3>1, <3>2 DEF Quiet
    <2>3. QED BY <2>1, <2>2
  <1>2. /\ toClient' = [toClient EXCEPT ![b] = Tail(@)] /\ toServer' = toServer /\ link' = link
        /\ UNCHANGED <<promised, accounted, blind>>
    BY DEF ReceiveResponse, ReceiveSuperseded, ghostVars
  <1>3. TakesIn(b, m)
    BY <1>1 DEF TakesIn
  <1>4. \A c \in Channels : Range(toClient'[c]) \subseteq Range(toClient[c]) /\ Stamps(c)' \subseteq Stamps(c)
    BY <1>1, <1>2, <1>3, ReadStands
  <1>5. CursorsStand
    BY <1>1, <1>2, <1>4 DEF CursorsStand, Stands, storeVars, hostVars
  <1>6. Halts(h.attempt, h'.attempt)
    BY <1>1 DEF Halts
  <1>7. CursorInv'
    BY <1>1, <1>2, <1>4, <1>6, GrantsStand
  <1>8. QED BY <1>5, <1>7, StandsKeep

\* A push is counted: what the cursor steps over is made up for by a resync, or
\* the client had no cursor yet.
LEMMA PushCursors ==
  ASSUME Types, Sound(h), NEW b \in Channels, h.rpc[b].open, toClient[b] # <<>>,
         NEW m, m = Head(toClient[b]), m.type = "push", ReceivePush(b, m),
         UNCHANGED <<storeVars, hostVars>>, EpochInv, CursorInv, LossInv
  PROVE  EpochInv' /\ CursorInv' /\ LossInv'
  <1> DEFINE p == h'.rpc
             n == h'.lastSeq
             cursor == h.rpc[b].seq
  <1>1. /\ m \in PushMessages /\ n \in {h.lastSeq, m.seq} /\ h' = [h EXCEPT !.rpc = p, !.lastSeq = n]
        /\ \A d \in Channels :
             /\ h'.rpc[d].open = h.rpc[d].open
             /\ h'.rpc[d].seq = IF d = b /\ m.seq > cursor THEN m.seq ELSE h.rpc[d].seq
    BY PushTypes
  <1>2. h \in HandleRecord /\ epoch \in Int /\ nextSeq \in Nat /\ journalled \subseteq Nat
    BY HostFacts DEF JournalTypeOK
  <1>3. /\ m.seq \in Nat /\ m.epoch \in Int /\ cursor \in Cursor /\ h.lastSeq \in Cursor
    BY <1>1, <1>2, SessionAssumption DEF PushMessages, HandleRecord, ClientRecord
  <1> HIDE DEF p, n
  <1>4. /\ h'.attempt = h.attempt /\ h'.client = h.client /\ h'.epoch = h.epoch /\ h'.lastSeq = n
    BY <1>1, <1>2 DEF HandleRecord
  <1>5. /\ toClient' = [toClient EXCEPT ![b] = Tail(@)] /\ toServer' = toServer /\ link' = link
        /\ promised' = promised
        /\ UNCHANGED <<epoch, nextSeq, journalled, due>>
    BY DEF ReceivePush, storeVars, hostVars
  <1>6. TakesIn(b, m)
    BY <1>4 DEF TakesIn
  <1>7. \A c \in Channels :
          Range(toClient'[c]) \subseteq Range(toClient[c]) /\ m \in Range(toClient[b]) /\ Stamps(c)' \subseteq Stamps(c)
    BY <1>1, <1>4, <1>5, <1>6, ReadStands
  <1>8. h.client = b /\ \A c \in Channels : h.rpc[c].open => c = b
    BY DEF Sound
  <1>9. h.epoch = epoch => m.epoch = epoch /\ m.seq < nextSeq
    <2>1. m \in Stamps(b)
      BY <1>7 DEF Stamps, Stamped
    <2>2. StampAt(b)
      BY DEF EpochInv
    <2>3. QED BY <1>8, <2>1, <2>2 DEF StampAt
  <1>10. EpochInv'
    <2>1. \A c \in Channels : StampAt(c)'
      BY <1>1, <1>4, <1>5, <1>7 DEF EpochInv, StampAt
    <2>2. \A c \in Channels : CountAt(c)'
      BY <1>1, <1>4, <1>5, <1>9 DEF EpochInv, CountAt
    <2>3. QED BY <1>1, <1>4, <1>5, <1>9, <2>1, <2>2 DEF EpochInv
  <1>11. CursorInv'
    <2>1. Halts(h.attempt, h'.attempt)
      BY <1>4 DEF Halts
    <2>2. QED BY <1>4, <1>5, <1>7, <2>1, GrantsStand
  <1>12. LossInv'
    <2>1. SUFFICES ASSUME h.epoch = epoch, NEW s \in journalled PROVE LossAt(s)'
      BY <1>4, <1>5 DEF LossInv
    <2>2. LossAt(s) /\ s \in Nat
      BY <1>2, <2>1 DEF LossInv
    <2>3. Past(s) => Past(s)'
      <3>1. CutShort \subseteq CutShort'
        BY <1>1, <1>5, MoreCutShort
      <3>2. accounted \subseteq accounted' /\ blind \subseteq blind'
        BY DEF ReceivePush
      <3>3. QED BY <1>5, <3>1, <3>2 DEF Past
    <2>4. s <= cursor => Past(s)
      BY <2>2 DEF LossAt
    <2>5. cursor < s /\ s <= m.seq => Past(s)'
      <3>1. SUFFICES ASSUME cursor < s, s <= m.seq PROVE <<epoch, s>> \in accounted' \cup blind'
        BY <1>5 DEF Past
      <3> DEFINE upTo == {<<m.epoch, t>> : t \in 0 .. m.seq}
                 key == <<m.epoch, m.seq>>
      <3>2. /\ m.seq # cursor + 1 /\ cursor >= 0 => upTo \subseteq accounted'
            /\ ~(m.seq # cursor + 1 /\ cursor >= 0) => key \in accounted'
            /\ cursor = -1 => upTo \ {key} \subseteq blind'
        BY DEF ReceivePush
      <3>3. <<epoch, s>> \in upTo
        BY <1>3, <1>9, <2>1, <2>2, <3>1
      <3>4. s = m.seq => <<epoch, s>> = key
        BY <1>9, <2>1
      <3> HIDE DEF upTo, key
      <3>5. CASE m.seq # cursor + 1 /\ cursor >= 0
        BY <3>2, <3>3, <3>5
      <3>6. CASE m.seq = cursor + 1
        <4>1. s = m.seq
          BY <1>3, <2>2, <3>1, <3>6 DEF Cursor
        <4>2. QED BY <3>2, <3>4, <3>6, <4>1
      <3>7. CASE cursor = -1
        BY <3>2, <3>3, <3>4, <3>7
      <3>8. QED BY <1>3, <3>5, <3>6, <3>7 DEF Cursor
    <2>6. s <= m.seq => Past(s)'
      BY <1>3, <2>2, <2>3, <2>4, <2>5 DEF Cursor
    <2>7. \A c \in Channels : h'.rpc[c].open /\ s <= h'.rpc[c].seq => Past(s)'
      <3>1. SUFFICES ASSUME h'.rpc[b].open, s <= h'.rpc[b].seq PROVE Past(s)'
        BY <1>1, <1>8
      <3>2. h'.rpc[b].seq \in {m.seq, cursor}
        BY <1>1
      <3>3. QED BY <2>3, <2>4, <2>6, <3>1, <3>2
    <2>8. s <= h'.lastSeq => Past(s)' \/ \E c \in Channels : h'.rpc[c].open /\ <<epoch', s>> \in promised'[c]
      <3>1. CASE h'.lastSeq = m.seq
        BY <2>6, <3>1
      <3>2. CASE h'.lastSeq = h.lastSeq
        <4>1. s <= h.lastSeq => Past(s) \/ \E c \in Channels : h.rpc[c].open /\ <<epoch, s>> \in promised[c]
          BY <2>2 DEF LossAt
        <4>2. QED BY <1>1, <1>5, <2>3, <3>2, <4>1
      <3>3. QED BY <1>1, <1>4, <3>1, <3>2
    <2>9. QED BY <2>7, <2>8 DEF LossAt
  <1>13. QED BY <1>10, <1>11, <1>12

\* A message the shell reads.
LEMMA ReadCursors ==
  ASSUME Types, Sound(h), GateInv, NEW b \in Channels, Reads(b), UNCHANGED <<storeVars, hostVars>>,
         EpochInv, CursorInv, LossInv
  PROVE  EpochInv' /\ CursorInv' /\ LossInv'
  <1> DEFINE m == Head(toClient[b])
  <1>1. /\ h.rpc[b].open /\ toClient[b] # <<>>
        /\ \/ m.type = "hello" /\ ReceiveHello(b)
           \/ m.type = "attached" /\ ReceiveAttached(b, m)
           \/ m.type = "push" /\ ReceivePush(b, m)
           \/ m.type = "response" /\ ReceiveResponse(b, m)
           \/ m.type = "superseded" /\ ReceiveSuperseded(b)
    BY DEF Reads
  <1> HIDE DEF m
  <1>2. m = Head(toClient[b])
    BY DEF m
  <1>3. CASE ReceiveHello(b)
    BY <1>1, <1>3, HelloCursors
  <1>4. CASE m.type = "attached" /\ ReceiveAttached(b, m)
    BY <1>1, <1>2, <1>4, AttachedCursors
  <1>5. CASE m.type = "push" /\ ReceivePush(b, m)
    BY <1>1, <1>2, <1>5, PushCursors
  <1>6. CASE (m.type = "response" /\ ReceiveResponse(b, m)) \/ ReceiveSuperseded(b)
    BY <1>1, <1>2, <1>6, NoticeCursors
  <1>7. QED BY <1>1, <1>3, <1>4, <1>5, <1>6

\* A channel that opens: its client counts from the handle's cursor, and every
\* replay of before is cut short.
LEMMA ConnectCursors ==
  ASSUME Types, Sound(h), NEW a \in Attempts, NEW b \in Channels, Connect(a, b),
         EpochInv, CursorInv, LossInv
  PROVE  EpochInv' /\ CursorInv' /\ LossInv'
  <1> DEFINE p == h'.rpc
             f == h'.attempt
  <1>1. /\ h' = [h EXCEPT !.attempt = f, !.client = b, !.rpc = p]
        /\ f[a].pc = "hello" /\ f[a].ch = b /\ \A x \in Attempts : x # a => f[x] = h.attempt[x]
        /\ p[b] = [Unused EXCEPT !.open = TRUE, !.seq = h.lastSeq]
        /\ \A d \in Channels : d # b => p[d] = h.rpc[d]
    BY ConnectTypes
  <1> HIDE DEF p, f
  <1>2. /\ h \in HandleRecord /\ toClient \in [Channels -> Seq(ToClientMessage)] /\ link \in [Channels -> Links]
    BY HostFacts
  <1>3. /\ h'.client = b /\ h'.rpc = p /\ h'.attempt = f /\ h'.epoch = h.epoch /\ h'.lastSeq = h.lastSeq
    BY <1>1, <1>2 DEF HandleRecord
  <1>4. p[b].seq = h.lastSeq
    BY <1>1 DEF Unused
  <1>5. /\ link[b] = "unused" /\ h.attempt[a].pc = "opening"
        /\ link' = [link EXCEPT ![b] = "up"] /\ toClient' = [toClient EXCEPT ![b] = <<[type |-> "hello"]>>]
        /\ UNCHANGED <<epoch, nextSeq, journalled, due, promised, accounted, blind>>
    BY DEF Connect, ChannelOpens, Accept, storeVars, ghostVars
  <1>6. due[b] = <<>> /\ promised[b] = {} /\ ~h.rpc[b].open
    BY <1>5, ChannelFacts
  <1>7. /\ h.client = None /\ \A c \in Channels : ~h.rpc[c].open
        /\ \A x \in Attempts \ {a} : h.attempt[x].pc = "idle"
    <2>1. h.client = None /\ \A x \in Attempts \ {a} : h.attempt[x].pc = "idle"
      BY <1>5 DEF Sound
    <2>2. QED BY <2>1, Callers DEF Sound
  <1>8. h'.rpc[b].seq = h.lastSeq /\ \A d \in Channels : h'.rpc[d].open => d = b
    <2>1. h'.rpc[b].seq = h.lastSeq
      BY <1>3, <1>4
    <2>2. ASSUME NEW d \in Channels, d # b PROVE ~h'.rpc[d].open
      <3>1. p[d] = h.rpc[d]
        BY <1>1, <2>2
      <3>2. QED BY <1>3, <1>7, <3>1
    <2>3. QED BY <2>1, <2>2
  <1>9. \A x \in Attempts : f[x].pc \in {"hello", "idle"} /\ (f[x].pc = "hello" => x = a)
    BY <1>1, <1>7
  <1>10. \A c \in Channels : Read(c)' = {}
    BY <1>3, <1>9 DEF Read
  <1>11. Stamps(b)' = {}
    <2> DEFINE y == [type |-> "hello"]
               r == <<y>>
    <2>1. toClient'[b] = r
      BY <1>2, <1>5
    <2>2. y.type = "hello"
      OBVIOUS
    <2> HIDE DEF y
    <2>3. Range(r) = {y}
      BY One
    <2> HIDE DEF r
    <2>4. Stamped(toClient[b])' = {}
      BY <2>1, <2>2, <2>3 DEF Stamped
    <2>5. QED BY <1>10, <2>4 DEF Stamps
  <1>12. EpochInv'
    <2>1. \A c \in Channels : StampAt(c)'
      <3>1. SUFFICES ASSUME NEW c \in Channels PROVE StampAt(c)'
        OBVIOUS
      <3>2. CASE c = b
        <4>1. \A x \in Range(due'[c]) : FALSE
          BY <1>5, <1>6, <3>2, Nothing
        <4>2. QED BY <1>11, <3>2, <4>1 DEF StampAt
      <3>3. CASE c # b
        <4>1. link'[c] = link[c] /\ toClient'[c] = toClient[c]
          BY <1>2, <1>5, <3>3
        <4>2. Stamps(c)' \subseteq Stamps(c)
          BY <1>10, <4>1 DEF Stamps, Stamped
        <4>3. h'.client # c
          BY <1>3, <3>3
        <4>4. QED BY <1>5, <4>1, <4>2, <4>3 DEF EpochInv, StampAt
      <3>4. QED BY <3>2, <3>3
    <2>2. \A c \in Channels : CountAt(c)'
      BY <1>3, <1>5, <1>8 DEF EpochInv, CountAt
    <2>3. QED BY <1>3, <1>5, <2>1, <2>2 DEF EpochInv
  <1>13. CursorInv'
    BY <1>1, <1>3, <1>5, <1>6, <1>9 DEF CursorInv, CursorAt, Moving
  <1>14. LossInv'
    <2>1. SUFFICES ASSUME h.epoch = epoch, NEW s \in journalled PROVE LossAt(s)'
      BY <1>3, <1>5 DEF LossInv
    <2>2. LossAt(s)
      BY <2>1 DEF LossInv
    <2>3. CutShort \subseteq CutShort'
      <3>1. SUFFICES ASSUME NEW x, NEW d \in Channels, x \in promised[d], ~h.rpc[d].open
                     PROVE  x \in CutShort'
        BY DEF CutShort
      <3>2. d # b
        BY <1>6, <3>1
      <3>3. ~h'.rpc[d].open
        BY <1>1, <1>3, <3>1, <3>2
      <3>4. QED BY <1>5, <3>1, <3>3 DEF CutShort
    <2>4. s <= h.lastSeq => Past(s)'
      BY <1>5, <1>7, <2>2, <2>3 DEF LossAt, Past
    <2>5. \A c \in Channels : h'.rpc[c].open /\ s <= h'.rpc[c].seq => Past(s)'
      BY <1>8, <2>4
    <2>6. QED BY <1>3, <2>4, <2>5 DEF LossAt
  <1>15. QED BY <1>12, <1>13, <1>14

\* A reattach: what the cursor steps over is made up for by a resync, or was
\* promised as a replay on the client's channel.
LEMMA ContinueCursors ==
  ASSUME Types, Sound(h), NEW a \in Attempts, Continue(a), UNCHANGED <<storeVars, hostVars>>,
         EpochInv, CursorInv, LossInv
  PROVE  EpochInv' /\ CursorInv' /\ LossInv'
  <1> DEFINE c == h.attempt[a].ch
             r == h.attempt[a].result
  <1>1. PICK again, q : Reattaches(a, again) /\ Calls(again, q)
    BY ContinueCalls
  <1>2. /\ c \in Channels /\ r \in Results /\ h.attempt[a].pc = "reconciling"
        /\ \A d \in Channels : h'.rpc[d].seq = IF r.status # "ok" /\ d = c THEN r.seq ELSE h.rpc[d].seq
        /\ h'.epoch = r.epoch
        /\ h'.lastSeq = IF r.status = "ok" /\ h.lastSeq > r.seq THEN h.lastSeq ELSE r.seq
        /\ h'.attempt = [h.attempt EXCEPT ![a] = Idle]
        /\ promised' = [promised EXCEPT ![c] =
             IF r.status = "ok" THEN {<<r.epoch, n>> : n \in h.rpc[c].seq + 1 .. r.seq} ELSE {}]
        /\ accounted' = IF r.status = "ok" THEN accounted
                        ELSE accounted \cup {<<r.epoch, n>> : n \in 0 .. r.seq}
        /\ blind' = blind
    BY <1>1 DEF Reattaches
  <1>3. /\ h'.client = h.client /\ link' = link /\ toClient' = toClient
        /\ \A d \in Channels : h'.rpc[d].open = h.rpc[d].open
    BY <1>1 DEF Calls
  <1>4. UNCHANGED <<epoch, nextSeq, journalled, due>>
    BY DEF storeVars, hostVars
  <1>5. /\ h \in HandleRecord /\ epoch \in Int /\ nextSeq \in Nat /\ journalled \subseteq Nat
        /\ promised \in [Channels -> SUBSET (Nat \X Nat)]
    BY HostFacts DEF JournalTypeOK, Types, GhostTypes
  <1>6. /\ r.seq \in Cursor /\ r.epoch \in Int /\ h.lastSeq \in Cursor /\ h.rpc[c].seq \in Cursor
    BY <1>2, <1>5, SessionAssumption DEF Results, HandleRecord, ClientRecord
  <1>7. /\ Moving(h.attempt[a]) /\ h.client = c /\ h.rpc[c].open
        /\ \A d \in Channels : h.rpc[d].open => d = c
        /\ \A x \in Attempts \ {a} : h.attempt[x].pc = "idle"
    <2>1. Moving(h.attempt[a]) /\ h.attempt[a].pc # "idle"
      BY <1>2 DEF Moving
    <2>2. QED BY <2>1, NoOther DEF Sound
  <1>8. \A x \in Attempts : h'.attempt[x].pc = "idle"
    BY <1>2, <1>5, <1>7 DEF Idle, HandleRecord, AttemptSet
  <1>9. /\ r \in Stamps(c) /\ StampAt(c)
    BY <1>2 DEF Stamps, Read, EpochInv
  <1>10. r.epoch <= epoch /\ (r.epoch = epoch => r.seq < nextSeq)
    BY <1>9 DEF StampAt
  <1>11. /\ r.status = "ok" => r.epoch = h.epoch
         /\ promised[c] = {}
    <2>1. CursorAt(a, c)
      BY <1>2 DEF CursorInv
    <2>2. QED BY <1>2, <1>7, <2>1 DEF CursorAt
  <1> HIDE DEF c, r
  <1>12. \A d \in Channels : Stamps(d)' \subseteq Stamps(d)
    <2>1. \A d \in Channels : Read(d)' = {}
      BY <1>8 DEF Read
    <2>2. QED BY <1>3, <2>1 DEF Stamps, Stamped
  <1>13. EpochInv'
    <2>1. ASSUME NEW d \in Channels PROVE StampAt(d)'
      <3>1. StampAt(d)
        BY DEF EpochInv
      <3>2. CASE d # c
        <4>1. h'.client # d
          BY <1>3, <1>7, <3>2
        <4>2. QED BY <1>3, <1>4, <1>12, <3>1, <4>1 DEF StampAt
      <3>3. CASE d = c
        <4>1. r \in Stamps(d) /\ \A x, y \in Stamps(d) : x.epoch = y.epoch
          BY <1>9, <3>1, <3>3 DEF StampAt
        <4>2. \A x \in Stamps(d)' : x.epoch = r.epoch
          BY <1>12, <4>1
        <4>3. h'.epoch = epoch' => \A x \in Stamps(d)' : x.epoch = epoch'
          BY <1>2, <1>4, <4>2
        <4>4. QED BY <1>3, <1>4, <1>12, <3>1, <4>3 DEF StampAt
      <3>4. QED BY <3>2, <3>3
    <2>2. h'.epoch = epoch => h'.lastSeq < nextSeq
      BY <1>2, <1>10, <1>11 DEF EpochInv
    <2>3. ASSUME NEW d \in Channels PROVE CountAt(d)'
      <3>1. SUFFICES ASSUME h'.epoch = epoch, h'.rpc[d].open PROVE h'.rpc[d].seq < nextSeq
        BY <1>4 DEF CountAt
      <3>2. d = c /\ h.rpc[c].open
        BY <1>3, <1>7, <3>1
      <3>3. r.status = "ok" => h.rpc[c].seq < nextSeq
        BY <1>2, <1>11, <3>1, <3>2 DEF EpochInv, CountAt
      <3>4. QED BY <1>2, <1>10, <3>1, <3>2, <3>3
    <2>4. QED BY <1>2, <1>4, <1>10, <2>1, <2>2, <2>3 DEF EpochInv
  <1>14. CursorInv'
    BY <1>8 DEF CursorInv, CursorAt, Moving
  <1>15. LossInv'
    <2>1. SUFFICES ASSUME h'.epoch = epoch, NEW s \in journalled PROVE LossAt(s)'
      BY <1>4 DEF LossInv
    <2>2. r.epoch = epoch /\ s \in Nat
      BY <1>2, <1>5, <2>1
    <2>3. CASE r.status # "ok"
      <3>1. s <= r.seq => Past(s)'
        <4>1. SUFFICES ASSUME s <= r.seq PROVE <<epoch, s>> \in accounted'
          BY <1>4 DEF Past
        <4>2. s \in 0 .. r.seq
          BY <1>6, <2>2, <4>1 DEF Cursor
        <4>3. QED BY <1>2, <2>2, <2>3, <4>2
      <3>2. h'.lastSeq = r.seq /\ \A d \in Channels : h'.rpc[d].open => h'.rpc[d].seq = r.seq
        BY <1>2, <1>3, <1>7, <2>3
      <3>3. QED BY <3>1, <3>2 DEF LossAt
    <2>4. CASE r.status = "ok"
      <3>1. LossAt(s)
        BY <1>11, <2>1, <2>2, <2>4 DEF LossInv
      <3>2. /\ \A d \in Channels : d # c => promised'[d] = promised[d]
            /\ promised'[c] = {<<r.epoch, n>> : n \in h.rpc[c].seq + 1 .. r.seq}
        BY <1>2, <1>5, <2>4
      <3>3. Past(s) => Past(s)'
        <4>1. CutShort \subseteq CutShort'
          <5>1. SUFFICES ASSUME NEW x, NEW d \in Channels, x \in promised[d], ~h.rpc[d].open
                         PROVE  x \in CutShort'
            BY DEF CutShort
          <5>2. d # c
            BY <1>11, <5>1
          <5>3. ~h'.rpc[d].open
            BY <1>3, <5>1
          <5>4. QED BY <3>2, <5>1, <5>2, <5>3 DEF CutShort
        <4>2. QED BY <1>2, <1>4, <2>4, <4>1 DEF Past
      <3>4. \A d \in Channels : h'.rpc[d].open /\ s <= h'.rpc[d].seq => Past(s)'
        BY <1>2, <1>3, <2>4, <3>1, <3>3 DEF LossAt
      <3>5. ASSUME s <= h'.lastSeq
            PROVE  Past(s)' \/ \E d \in Channels : h'.rpc[d].open /\ <<epoch', s>> \in promised'[d]
        <4>1. CASE s <= h.lastSeq
          <5>1. Past(s) \/ \E d \in Channels : h.rpc[d].open /\ <<epoch, s>> \in promised[d]
            BY <3>1, <4>1 DEF LossAt
          <5>2. Past(s)
            BY <1>7, <1>11, <5>1
          <5>3. QED BY <3>3, <5>2
        <4>2. CASE ~(s <= h.lastSeq)
          <5>1. s <= r.seq
            BY <1>2, <3>5, <4>2
          <5>2. CASE s <= h.rpc[c].seq
            <6>1. Past(s)
              BY <1>2, <1>7, <3>1, <5>2 DEF LossAt
            <6>2. QED BY <3>3, <6>1
          <5>3. CASE ~(s <= h.rpc[c].seq)
            <6>1. s \in h.rpc[c].seq + 1 .. r.seq
              BY <1>6, <2>2, <5>1, <5>3 DEF Cursor
            <6>2. <<epoch', s>> \in promised'[c]
              BY <1>4, <2>2, <3>2, <6>1
            <6>3. h'.rpc[c].open /\ c \in Channels
              BY <1>2, <1>3, <1>7
            <6>4. QED BY <6>2, <6>3
          <5>4. QED BY <5>2, <5>3
        <4>3. QED BY <4>1, <4>2
      <3>6. QED BY <3>4, <3>5 DEF LossAt
    <2>5. QED BY <2>3, <2>4
  <1>16. QED BY <1>13, <1>14, <1>15

\* Every step keeps what is known of the cursors.
CursorsInv == EpochInv /\ CursorInv /\ LossInv
LEMMA CursorStep ==
  ASSUME Types, AttemptInv, GateInv, CursorsInv, [Next]_vars
  PROVE  CursorsInv'
  <1> USE DEF AttemptInv, CursorsInv
  <1>0. Types'
    BY TypesStep
  <1>1. CASE DaemonStep /\ UNCHANGED handleVars
    BY <1>0, <1>1, DaemonCursors
  <1>2. CASE UNCHANGED vars
    <2>1. UNCHANGED handleVars /\ UNCHANGED <<link, toServer, toClient, due, epoch, nextSeq, journalled>>
      BY <1>2 DEF vars, wireVars, hostVars, journalVars
    <2>2. Advance
      BY <1>0, <2>1, Advances
    <2>3. \A c \in Channels : Honest(c)
      BY <2>1, HonestCalm
    <2>4. QED BY <2>1, <2>2, <2>3, HonestKeep
  <1>3. CASE ShellStep /\ UNCHANGED <<storeVars, hostVars>>
    <2>1. CASE CalmStep
      BY <1>3, <2>1, CalmCursors
    <2>2. ASSUME NEW b \in Channels, Reads(b) PROVE EpochInv' /\ CursorInv' /\ LossInv'
      BY <1>3, <2>2, ReadCursors
    <2>3. ASSUME NEW j \in MyInvokes, Invoke(j) PROVE EpochInv' /\ CursorInv' /\ LossInv'
      BY <1>3, <2>3, InvokeCursors
    <2>4. ASSUME NEW a \in Attempts, Continue(a) PROVE EpochInv' /\ CursorInv' /\ LossInv'
      BY <1>3, <2>4, ContinueCursors
    <2>5. QED BY <1>3, <2>1, <2>2, <2>3, <2>4, CalmSteps
  <1>4. ASSUME NEW a \in Attempts, NEW b \in Channels, Connect(a, b)
        PROVE  EpochInv' /\ CursorInv' /\ LossInv'
    BY <1>4, ConnectCursors
  <1>5. ASSUME NEW b \in Channels, BreakChannel(b) PROVE EpochInv' /\ CursorInv' /\ LossInv'
    BY <1>0, <1>5, CutCursors
  <1>6. QED BY <1>1, <1>2, <1>3, <1>4, <1>5 DEF Next

\* No cursor counts anything at first.
LEMMA CursorStart ==
  ASSUME Init
  PROVE  CursorsInv
  <1>1. /\ epoch = 1 /\ h.epoch = 0
        /\ \A a \in Attempts : h.attempt[a].pc = "idle"
    BY DEF Init, InitHost, InitHandle, None, Idle
  <1>2. \A c \in Channels : toClient[c] = <<>> /\ due[c] = <<>>
    BY InitTypes
  <1>3. \A c \in Channels : Stamps(c) = {}
    BY <1>1, <1>2, Nothing DEF Stamps, Stamped, Read
  <1>4. \A c \in Channels : \A x \in Range(due[c]) : FALSE
    BY <1>2, Nothing
  <1>5. EpochInv
    BY <1>1, <1>3, <1>4 DEF EpochInv, StampAt, CountAt
  <1>6. CursorInv
    BY <1>1 DEF CursorInv, CursorAt, Moving
  <1>7. LossInv
    BY <1>1 DEF LossInv
  <1>8. QED BY <1>5, <1>6, <1>7 DEF CursorsInv

\* A channel carries the pushes of one incarnation, a replay is only granted to
\* a cursor of that incarnation, and every push such a cursor is past is
\* accounted for or was promised (SessionHost.planAttach, RpcClient, PushJournal).
THEOREM CursorInvariant ==
  ASSUME OneCaller
  PROVE  Spec => []CursorsInv
  <1>1. Init => CursorsInv
    BY CursorStart
  <1>2. Types /\ AttemptInv /\ GateInv /\ CursorsInv /\ [Next]_vars => CursorsInv'
    BY CursorStep
  <1>3. QED BY <1>1, <1>2, TypesInvariant, AttemptInvariant, GateInvariant, PTL DEF Spec

\* LossIsLoud: with one caller every push of this session that the client counts
\* as past was received or made up for, but for a replay its channel did not
\* survive and what a client without a cursor stepped over (RpcClient.handlePush,
\* RemoteServerHandle.connectInner).
THEOREM NoSilentLoss ==
  ASSUME OneCaller
  PROVE  Spec => []LossIsLoud
  <1>1. CursorsInv => LossIsLoud
    BY DEF CursorsInv, LossInv, LossAt, Past, LossIsLoud
  <1>2. QED BY <1>1, CursorInvariant, PTL
=============================================================================
