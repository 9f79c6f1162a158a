----------------------- MODULE SyncSubscriptionProofs -----------------------
(***************************************************************************)
(* Proofs about SyncSubscription, for every set of operations, subscribers *)
(* and filters, with refusals, failing transports, catch-up calls and any  *)
(* interleaving of writers, handlers and the push loop.                    *)
(***************************************************************************)
EXTENDS SyncSubscription, SequenceTheorems, TLAPS

-----------------------------------------------------------------------------
(* The inductive invariant.                                                *)

SubscriptionType == [refs : SUBSET Op, on : BOOLEAN]
PushType == [scheduled : BOOLEAN, running : BOOLEAN, full : BOOLEAN, ops : SUBSET Op]
LoopType == [at : {"idle", "round"} \cup Sub, visited : SUBSET Sub, delta : SUBSET Op,
             full : BOOLEAN, todo : SUBSET Op]
Request == [type : {"subscribe", "unsubscribe"}]
Reply == [type : {"subscribeAck", "opsBatch", "error"}, ops : SUBSET Op]
ClientType == [at : {"new", "sent", "syncing", "live", "left"}, ack : BOOLEAN, stop : BOOLEAN]

TypeOK ==
    /\ store \subseteq Op /\ unnotified \subseteq Op
    /\ listing \in [Sub -> SubscriptionType] /\ subs \in [Sub -> SubscriptionType]
    /\ push \in PushType /\ loop \in LoopType
    /\ toR \in [Sub -> Seq(Request)] /\ toS \in [Sub -> Seq(Reply)]
    /\ client \in [Sub -> ClientType]
    /\ got \in [Sub -> SUBSET Op] /\ listed \in [Sub -> SUBSET Op]
    /\ pushes \in [Sub -> [Op -> Nat]]

\* The Subscribe message waits for onSubscribe; the responder has not answered yet.
Asked(s) == HeadIs(toR[s], "subscribe")
Unanswered(s) == client[s].at = "new" \/ Asked(s) \/ listing[s].on

\* A subscriber subscribes once; until onSubscribe registers it there is no
\* acknowledgement, no registration and no push, and without an acknowledgement it is
\* not live.
HandshakeOf(s) ==
    /\ client[s].at \in {"syncing", "live"} => client[s].ack
    /\ client[s].at = "new" => toR[s] = <<>> /\ ~listing[s].on
    /\ \A i \in DOMAIN toR[s] : toR[s][i].type = "subscribe" => i = 1
    /\ listing[s].on => ~Asked(s)
    /\ Unanswered(s) =>
          /\ ~subs[s].on /\ ~client[s].ack /\ loop.at # s
          /\ \A i \in DOMAIN toS[s] : toS[s][i].type # "subscribeAck"
          /\ \A o \in Op : pushes[s][o] = 0
Handshake == \A s \in Sub : HandshakeOf(s)

\* What is noted, listed or recorded as sent is in the store, and in the filter where it
\* is about to be pushed; a subscriber that does not catch up holds what was listed.
Stored ==
    /\ unnotified \subseteq store /\ push.ops \subseteq store /\ loop.delta \subseteq store
    /\ loop.todo \subseteq store
    /\ \A s \in Sub :
         /\ subs[s].refs \subseteq store /\ listing[s].refs \subseteq store
         /\ listing[s].on /\ s \notin Immediately => listing[s].refs \subseteq listed[s]
         /\ loop.at = s => loop.todo \subseteq Matches[s]

\* SentIsDelivered, also for a subscriber that still waits for its acknowledgement and
\* will not catch up.
Received(s) == got[s] \cup InFlight(s) \cup listed[s]
DeliveredTo(s) ==
    subs[s].on /\ (client[s].at = "live" \/ s \notin Immediately) =>
        subs[s].refs \cap Visible(s) \subseteq Received(s)
Delivered == \A s \in Sub : DeliveredTo(s)

\* The push loop runs while a round is scheduled or in progress.
LoopRuns == push.scheduled \/ loop.at # "idle" => push.running

\* A later round, the rest of this round, or the rest of this subscription's turn pushes
\* the operation.
WillPush(s, o) ==
    \/ push.scheduled /\ (push.full \/ o \in push.ops)
    \/ loop.at # "idle" /\ s \notin loop.visited /\ (loop.full \/ o \in loop.delta)
    \/ loop.at = s /\ o \in loop.todo

\* Every stored operation of a subscription's filter is recorded as sent, not notified
\* yet, or going to be pushed.
Covered ==
    \A s \in Sub : subs[s].on =>
        \A o \in store \cap Matches[s] :
            o \in subs[s].refs \/ o \in unnotified \/ WillPush(s, o)

\* A pushed operation is recorded as sent, and none that was pushed is about to be.
PushedOnce ==
    \A s \in Sub, o \in Op :
      /\ subs[s].on /\ pushes[s][o] > 0 => o \in subs[s].refs
      /\ loop.at = s /\ o \in loop.todo => pushes[s][o] = 0

IInv ==
    /\ TypeOK /\ Handshake /\ Stored /\ Delivered /\ LoopRuns /\ Covered
    /\ PushedOnce /\ PushedOnceAndInScope

-----------------------------------------------------------------------------
(* Lemmas about the message queues and the chunks.                         *)

(* Appending a message to a queue to a subscriber. *)
LEMMA Appended ==
  ASSUME NEW S, NEW q \in Seq(S), NEW m \in S
  PROVE  /\ Append(q, m) \in Seq(S)
         /\ DOMAIN Append(q, m) = DOMAIN q \cup {Len(q) + 1}
         /\ Append(q, m)[Len(q) + 1] = m /\ Len(q) + 1 \notin DOMAIN q
         /\ \A i \in DOMAIN q : Append(q, m)[i] = q[i]
<1>1. Append(q, m) \in Seq(S) /\ Len(Append(q, m)) = Len(q) + 1
  BY AppendProperties
<1>2. DOMAIN q = 1..Len(q) /\ DOMAIN Append(q, m) = 1..(Len(q) + 1) /\ Len(q) \in Nat
  BY <1>1, LenProperties
<1> QED BY <1>1, <1>2, AppendProperties

(* Taking the first message off a queue. *)
LEMMA Taken ==
  ASSUME NEW S, NEW q \in Seq(S), q # <<>>
  PROVE  /\ Head(q) \in S /\ Tail(q) \in Seq(S) /\ 1 \in DOMAIN q /\ Head(q) = q[1]
         /\ \A i \in DOMAIN Tail(q) : i \in Nat /\ i >= 1 /\ i + 1 \in DOMAIN q /\ Tail(q)[i] = q[i + 1]
         /\ \A i \in DOMAIN q : i = 1 \/ (i - 1 \in DOMAIN Tail(q) /\ Tail(q)[i - 1] = q[i])
<1>1. Head(q) \in S /\ Tail(q) \in Seq(S) /\ Len(Tail(q)) = Len(q) - 1
      /\ \A i \in 1..Len(Tail(q)) : Tail(q)[i] = q[i + 1]
  BY HeadTailProperties
<1>2. DOMAIN q = 1..Len(q) /\ DOMAIN Tail(q) = 1..Len(Tail(q)) /\ Len(q) \in Nat \ {0}
  BY <1>1, LenProperties, EmptySeq
<1>3. Head(q) = q[1]
  OBVIOUS
<1> QED BY <1>1, <1>2, <1>3

\* The operations of the batches of a queue.
OpsIn(q) == UNION {q[i].ops : i \in DOMAIN q}

(* A message that is sent adds its operations to those on their way. *)
LEMMA SentOps ==
  ASSUME NEW q \in Seq(Reply), NEW m \in Reply
  PROVE  OpsIn(Append(q, m)) = OpsIn(q) \cup m.ops
<1>1. \A o : o \in OpsIn(Append(q, m)) <=> \E i \in DOMAIN Append(q, m) : o \in Append(q, m)[i].ops
  BY DEF OpsIn
<1>2. \A o : o \in OpsIn(q) <=> \E i \in DOMAIN q : o \in q[i].ops
  BY DEF OpsIn
<1>3. ASSUME NEW o PROVE o \in OpsIn(Append(q, m)) <=> o \in OpsIn(q) \cup m.ops
  BY <1>1, <1>2, Appended
<1> QED BY <1>3

(* A message that is received takes only its own operations off. *)
LEMMA ReceivedOps ==
  ASSUME NEW q \in Seq(Reply), q # <<>>
  PROVE  OpsIn(q) \subseteq Head(q).ops \cup OpsIn(Tail(q))
<1> SUFFICES ASSUME NEW i \in DOMAIN q, NEW o \in q[i].ops
             PROVE  o \in Head(q).ops \/ \E j \in DOMAIN Tail(q) : o \in Tail(q)[j].ops
  BY DEF OpsIn
<1> QED BY Taken

(* A chunk holds operations that are to be pushed. *)
LEMMA ChunkIsPart ==
  ASSUME NEW refs, NEW chunk \in Chunks(refs)
  PROVE  chunk \subseteq refs
BY DEF Chunks, kSubset

-----------------------------------------------------------------------------
(* The initial states.                                                     *)

(* The responder and its established subscribers start in states of the invariant. *)
LEMMA InitInvariant == ASSUME Assumptions, Init PROVE IInv
<1>1. <<>> \in Seq(Request) /\ <<>> \in Seq(Reply) /\ DOMAIN <<>> = {}
  BY EmptySeq
<1>2. TypeOK
  BY <1>1 DEF Init, Assumptions, TypeOK, None, NoLoop, Visible, SubscriptionType, PushType,
     LoopType, ClientType
<1>3. Handshake
  BY <1>1 DEF Init, Assumptions, Handshake, HandshakeOf, Unanswered, Asked, HeadIs, None, NoLoop
<1>4. Stored
  BY DEF Init, Assumptions, Stored, None, NoLoop
<1>5. Delivered
  BY DEF Init, Assumptions, Delivered, DeliveredTo, Received, None, Visible
<1>6. LoopRuns /\ Covered
  BY DEF Init, Assumptions, LoopRuns, Covered, None, NoLoop
<1>7. PushedOnce /\ PushedOnceAndInScope
  BY DEF Init, Assumptions, PushedOnce, PushedOnceAndInScope, NoLoop
<1> QED BY <1>2, <1>3, <1>4, <1>5, <1>6, <1>7 DEF IInv

-----------------------------------------------------------------------------
(* Every step keeps the invariant: the types.                              *)

(* The responder's writers and its push loop. *)
LEMMA LoopTypes ==
  ASSUME TypeOK, Write \/ NotifyLocalUpdate \/ PushRound \/ RoundEnds
                   \/ \E s \in Sub : PushTo(s) \/ PushChunk(s) \/ PushFails(s),
         Assumptions
  PROVE  TypeOK'
<1>1. CASE Write
  BY <1>1 DEF TypeOK, Write
<1>2. CASE NotifyLocalUpdate
  <2>1. \A R, ops : ops \subseteq Op => Notified(R, ops) \in PushType
    BY DEF TypeOK, Notified, PushType
  <2>2. PICK o \in unnotified : /\ unnotified' = unnotified \ {o}
                               /\ push' \in {Notified(Registered, {o}), Notified(Registered, {})}
    BY <1>2 DEF NotifyLocalUpdate
  <2>3. push' \in PushType
    <3>1. {o} \subseteq Op /\ {} \subseteq Op
      BY DEF TypeOK
    <3> QED BY <2>1, <2>2, <3>1
  <2> QED BY <1>2, <2>2, <2>3 DEF TypeOK, NotifyLocalUpdate
<1>3. CASE PushRound
  <2>1. loop' \in LoopType
    BY <1>3 DEF TypeOK, PushRound, LoopType, PushType
  <2>2. push' \in PushType
    BY <1>3 DEF TypeOK, PushRound, PushType
  <2> QED BY <1>3, <2>1, <2>2 DEF TypeOK, PushRound
<1>4. CASE RoundEnds
  BY <1>4 DEF TypeOK, RoundEnds, NoLoop, LoopType
<1>5. ASSUME NEW s \in Sub, PushTo(s) PROVE TypeOK'
  <2>1. PICK refs \in {loop.delta, store \cap Matches[s]} :
           loop' = [loop EXCEPT !.visited = @ \cup {s}, !.todo = refs \ subs[s].refs,
                                !.at = IF refs \ subs[s].refs = {} THEN "round" ELSE s]
    BY <1>5 DEF PushTo
  <2>2. refs \subseteq Op
    BY DEF TypeOK, LoopType
  <2>3. loop' \in LoopType
    BY <2>1, <2>2 DEF TypeOK, LoopType
  <2> QED BY <1>5, <2>3 DEF TypeOK, PushTo
<1>6. ASSUME NEW s \in Sub, PushChunk(s) PROVE TypeOK'
  <2>1. PICK chunk \in Chunks(loop.todo) :
           /\ subs' = IF subs[s].on THEN Recorded(s, chunk) ELSE subs
           /\ toS' = IF chunk \cap Sendable = {} THEN toS
                     ELSE [toS EXCEPT ![s] = Append(@, [type |-> "opsBatch", ops |-> chunk \cap Sendable])]
           /\ pushes' = [pushes EXCEPT ![s] = [o \in Op |->
                            IF o \in chunk \cap Sendable THEN @[o] + 1 ELSE @[o]]]
           /\ loop' = [loop EXCEPT !.todo = @ \ chunk,
                                   !.at = IF chunk = loop.todo THEN "round" ELSE s]
    BY <1>6 DEF PushChunk
  <2>2. chunk \subseteq Op
    BY ChunkIsPart DEF TypeOK, LoopType
  <2>3. subs' \in [Sub -> SubscriptionType]
    <3>1. subs \in [Sub -> SubscriptionType]
      BY DEF TypeOK
    <3>2. [subs[s] EXCEPT !.refs = @ \cup chunk] \in SubscriptionType
      BY <2>2, <3>1 DEF SubscriptionType
    <3>3. Recorded(s, chunk) = [subs EXCEPT ![s] = [subs[s] EXCEPT !.refs = @ \cup chunk]]
      BY DEF Recorded
    <3> QED BY <2>1, <3>1, <3>2, <3>3
  <2>4. toS' \in [Sub -> Seq(Reply)]
    <3>1. [type |-> "opsBatch", ops |-> chunk \cap Sendable] \in Reply
      BY <2>2 DEF Reply
    <3> QED BY <2>1, <3>1, AppendProperties DEF TypeOK
  <2>5. pushes' \in [Sub -> [Op -> Nat]]
    <3>1. [o \in Op |-> IF o \in chunk \cap Sendable THEN pushes[s][o] + 1 ELSE pushes[s][o]]
             \in [Op -> Nat]
      BY DEF TypeOK
    <3> QED BY <2>1, <3>1 DEF TypeOK
  <2>6. loop' \in LoopType
    BY <2>1 DEF TypeOK, LoopType
  <2> QED BY <1>6, <2>3, <2>4, <2>5, <2>6 DEF TypeOK, PushChunk
<1>7. ASSUME NEW s \in Sub, PushFails(s) PROVE TypeOK'
  BY <1>7 DEF TypeOK, PushFails, None, SubscriptionType, LoopType
<1> QED BY <1>1, <1>2, <1>3, <1>4, <1>5, <1>6, <1>7

(* The responder's handlers and the subscribers. *)
LEMMA PeerTypes ==
  ASSUME TypeOK, NEW s \in Sub,
         \/ OnSubscribe(s) \/ Register(s) \/ OnUnsubscribe(s)
         \/ Subscribe(s) \/ Stop(s) \/ Acknowledged(s) \/ CatchUp(s) \/ Leave(s) \/ Receive(s)
  PROVE  TypeOK'
<1> USE DEF SubscriptionType, ClientType
<1>1. [type |-> "subscribe"] \in Request /\ [type |-> "unsubscribe"] \in Request
      /\ [type |-> "error", ops |-> {}] \in Reply /\ [type |-> "subscribeAck", ops |-> {}] \in Reply
  BY DEF Request, Reply
<1>2. /\ \A m \in Request : Append(toR[s], m) \in Seq(Request)
      /\ \A m \in Reply : Append(toS[s], m) \in Seq(Reply)
  BY AppendProperties DEF TypeOK
<1>3. /\ toR[s] # <<>> => Tail(toR[s]) \in Seq(Request)
      /\ toS[s] # <<>> => Tail(toS[s]) \in Seq(Reply) /\ Head(toS[s]).ops \subseteq Op
  <2>1. toR[s] \in Seq(Request) /\ toS[s] \in Seq(Reply)
    BY DEF TypeOK
  <2>2. toS[s] # <<>> => Head(toS[s]) \in Reply /\ Tail(toS[s]) \in Seq(Reply)
    BY <2>1, HeadTailProperties
  <2>3. toR[s] # <<>> => Tail(toR[s]) \in Seq(Request)
    BY <2>1, HeadTailProperties
  <2> QED BY <2>2, <2>3 DEF Reply
<1>4. CASE OnSubscribe(s)
  <2>1. toR' \in [Sub -> Seq(Request)] /\ toS' \in [Sub -> Seq(Reply)]
    BY <1>1, <1>2, <1>3, <1>4 DEF TypeOK, OnSubscribe, HeadIs
  <2>2. listing' \in [Sub -> SubscriptionType] /\ listed' \in [Sub -> SUBSET Op]
    <3>1. [refs |-> store \cap Matches[s], on |-> TRUE] \in SubscriptionType
      BY DEF TypeOK
    <3>2. store \subseteq Op /\ listed \in [Sub -> SUBSET Op] /\ listing \in [Sub -> SubscriptionType]
      BY DEF TypeOK
    <3>3. listed' \in {listed, [listed EXCEPT ![s] = {}], [listed EXCEPT ![s] = store]}
      BY <1>4 DEF OnSubscribe
    <3>4. listing' \in {listing, [listing EXCEPT ![s] = [refs |-> store \cap Matches[s], on |-> TRUE]]}
      BY <1>4 DEF OnSubscribe
    <3> HIDE DEF SubscriptionType
    <3> QED BY <3>1, <3>2, <3>3, <3>4
  <2> QED BY <1>4, <2>1, <2>2 DEF TypeOK, OnSubscribe
<1>5. CASE Register(s)
  <2>1. toS' \in [Sub -> Seq(Reply)]
    BY <1>1, <1>2, <1>5 DEF TypeOK, Register
  <2>2. listing' \in [Sub -> SubscriptionType] /\ subs' \in [Sub -> SubscriptionType]
    BY <1>5 DEF TypeOK, Register, None
  <2>3. push' \in PushType
    BY <1>5 DEF TypeOK, Register, RegistrationNotifies, Notified, PushType
  <2> QED BY <1>5, <2>1, <2>2, <2>3 DEF TypeOK, Register
<1>6. CASE OnUnsubscribe(s)
  BY <1>1, <1>2, <1>3, <1>6 DEF TypeOK, OnUnsubscribe, HeadIs, None
<1>7. CASE Subscribe(s)
  BY <1>1, <1>2, <1>3, <1>7 DEF TypeOK, Subscribe
<1>8. CASE Stop(s)
  BY <1>8 DEF TypeOK, Stop
<1>9. CASE Acknowledged(s)
  BY <1>9 DEF TypeOK, Acknowledged
<1>10. CASE CatchUp(s)
  BY <1>10 DEF TypeOK, CatchUp, Visible
<1>11. CASE Leave(s)
  BY <1>1, <1>2, <1>3, <1>11 DEF TypeOK, Leave
<1>12. CASE Receive(s)
  <2>1. toR' \in [Sub -> Seq(Request)] /\ toS' \in [Sub -> Seq(Reply)]
    BY <1>1, <1>2, <1>3, <1>12 DEF TypeOK, Receive
  <2>2. got' \in [Sub -> SUBSET Op]
    BY <1>3, <1>12 DEF TypeOK, Receive
  <2>3. client' \in [Sub -> ClientType]
    <3> DEFINE acked == client[s].ack \/ Head(toS[s]).type = "subscribeAck"
               place == IF Head(toS[s]).type = "error" /\ client[s].at # "left" THEN "left"
                        ELSE client[s].at
    <3>1. client' = [client EXCEPT ![s].ack = acked, ![s].at = place]
      BY <1>12 DEF Receive
    <3>2. acked \in BOOLEAN /\ place \in {"new", "sent", "syncing", "live", "left"}
      BY DEF TypeOK
    <3>3. client \in [Sub -> ClientType]
      BY DEF TypeOK
    <3>4. [client[s] EXCEPT !.ack = acked, !.at = place] \in ClientType
      BY <3>2, <3>3
    <3>5. client' = [client EXCEPT ![s] = [client[s] EXCEPT !.ack = acked, !.at = place]]
      <4> HIDE DEF acked, place
      <4> QED BY <3>1, <3>3
    <3> HIDE DEF ClientType, acked, place
    <3> QED BY <3>3, <3>4, <3>5
  <2> QED BY <1>12, <2>1, <2>2, <2>3 DEF TypeOK, Receive
<1> QED BY <1>4, <1>5, <1>6, <1>7, <1>8, <1>9, <1>10, <1>11, <1>12

(* Every step keeps the types. *)
LEMMA NextTypes == ASSUME Assumptions, TypeOK, [Next]_vars PROVE TypeOK'
<1>1. CASE UNCHANGED vars
  BY <1>1 DEF vars, TypeOK
<1> QED BY <1>1, LoopTypes, PeerTypes DEF Next

-----------------------------------------------------------------------------
(* Every step keeps the invariant: the handshake.                          *)

(* A subscription whose messages and state stay as they are keeps its handshake; the    *)
(* responder may drop it, and the push loop may turn to another one.                    *)
LEMMA HandshakeFrame ==
  ASSUME NEW t \in Sub, HandshakeOf(t),
         client'[t] = client[t], toR'[t] = toR[t], toS'[t] = toS[t], listing'[t] = listing[t],
         pushes'[t] = pushes[t], subs'[t].on => subs[t].on, loop'.at = loop.at \/ loop'.at # t
  PROVE  HandshakeOf(t)'
BY DEF HandshakeOf, Unanswered, Asked

(* The responder's writers and its push loop: a push is for a registered subscription. *)
LEMMA LoopHandshake ==
  ASSUME TypeOK, Handshake, Assumptions,
         Write \/ NotifyLocalUpdate \/ PushRound \/ RoundEnds
           \/ \E s \in Sub : PushTo(s) \/ PushChunk(s) \/ PushFails(s)
  PROVE  Handshake'
<1> SUFFICES ASSUME NEW t \in Sub PROVE HandshakeOf(t)'
  BY DEF Handshake
<1>1. HandshakeOf(t) /\ t # "idle" /\ t # "round"
  BY DEF Handshake, Assumptions
<1>2. CASE Write \/ NotifyLocalUpdate
  BY <1>1, <1>2, HandshakeFrame DEF Write, NotifyLocalUpdate
<1>3. CASE PushRound
  BY <1>1, <1>3, HandshakeFrame DEF PushRound
<1>4. CASE RoundEnds
  BY <1>1, <1>4, HandshakeFrame DEF RoundEnds, NoLoop
<1>5. ASSUME NEW s \in Sub, PushTo(s) PROVE HandshakeOf(t)'
  <2>1. loop'.at \in {"round", s}
    BY <1>5 DEF PushTo, TypeOK, LoopType
  <2>2. CASE t = s
    <3>1. ~Unanswered(t)
      BY <1>1, <1>5, <2>2 DEF PushTo, Registered, HandshakeOf
    <3> QED
      BY <1>1, <1>5, <3>1 DEF PushTo, HandshakeOf, Unanswered, Asked
  <2>3. CASE t # s
    BY <1>1, <1>5, <2>1, <2>3, HandshakeFrame DEF PushTo
  <2> QED BY <2>2, <2>3
<1>6. ASSUME NEW s \in Sub, PushChunk(s) PROVE HandshakeOf(t)'
  <2>1. loop.at = s /\ loop'.at \in {"round", s}
    BY <1>6 DEF PushChunk, TypeOK, LoopType
  <2>2. CASE t = s
    <3>1. ~Unanswered(t)
      BY <1>1, <2>1, <2>2 DEF HandshakeOf
    <3> QED
      BY <1>1, <1>6, <3>1 DEF PushChunk, HandshakeOf, Unanswered, Asked
  <2>3. CASE t # s
    <3>1. toS'[t] = toS[t] /\ pushes'[t] = pushes[t] /\ subs'[t] = subs[t]
      BY <1>6, <2>3 DEF PushChunk, Recorded, TypeOK
    <3> QED
      BY <1>1, <1>6, <2>1, <2>3, <3>1, HandshakeFrame DEF PushChunk
  <2> QED BY <2>2, <2>3
<1>7. ASSUME NEW s \in Sub, PushFails(s) PROVE HandshakeOf(t)'
  <2>1. loop'.at = "round" /\ (subs'[t].on => subs[t].on)
    BY <1>7 DEF PushFails, TypeOK, LoopType, None
  <2> QED
    BY <1>1, <1>7, <2>1, HandshakeFrame DEF PushFails
<1> QED BY <1>2, <1>3, <1>4, <1>5, <1>6, <1>7

(* The responder's handlers: onSubscribe answers the one Subscribe message. *)
LEMMA HandlerHandshake ==
  ASSUME TypeOK, Handshake, NEW s \in Sub, OnSubscribe(s) \/ Register(s) \/ OnUnsubscribe(s)
  PROVE  Handshake'
<1> SUFFICES ASSUME NEW t \in Sub PROVE HandshakeOf(t)'
  BY DEF Handshake
<1>1. HandshakeOf(t) /\ HandshakeOf(s)
  BY DEF Handshake
<1>2. /\ toR \in [Sub -> Seq(Request)] /\ toS \in [Sub -> Seq(Reply)]
      /\ listing \in [Sub -> SubscriptionType] /\ subs \in [Sub -> SubscriptionType]
  BY DEF TypeOK
<1>3. CASE t # s
  <2>1. /\ UNCHANGED <<client, pushes, loop>>
        /\ toR'[t] = toR[t] /\ toS'[t] = toS[t] /\ listing'[t] = listing[t] /\ subs'[t] = subs[t]
    BY <1>2, <1>3 DEF OnSubscribe, Register, OnUnsubscribe
  <2> QED BY <1>1, <2>1, HandshakeFrame
<1>4. ASSUME HeadIs(toR[s], "subscribe") \/ HeadIs(toR[s], "unsubscribe"), toR'[s] = Tail(toR[s])
      PROVE  /\ \A i \in DOMAIN toR'[s] : toR'[s][i].type # "subscribe"
             /\ ~Asked(s)' /\ client[s].at # "new"
  <2>1. toR[s] \in Seq(Request) /\ toR[s] # <<>>
    BY <1>2, <1>4 DEF HeadIs
  <2>2. \A i \in DOMAIN toR'[s] : toR'[s][i].type # "subscribe"
    BY <1>1, <1>4, <2>1, Taken DEF HandshakeOf
  <2>3. toR'[s] # <<>> => 1 \in DOMAIN toR'[s] /\ Head(toR'[s]) = toR'[s][1]
    BY <1>4, <2>1, Taken
  <2>4. client[s].at # "new"
    BY <1>1, <2>1 DEF HandshakeOf
  <2> QED BY <2>2, <2>3, <2>4 DEF Asked, HeadIs
<1>5. CASE t = s /\ OnSubscribe(s)
  <2>1. Unanswered(s)
    BY <1>5 DEF OnSubscribe, Unanswered, Asked
  <2>2. /\ ~subs[s].on /\ ~client[s].ack /\ loop.at # s
        /\ \A i \in DOMAIN toS[s] : toS[s][i].type # "subscribeAck"
        /\ \A o \in Op : pushes[s][o] = 0
    BY <1>1, <2>1 DEF HandshakeOf
  <2>3. \A i \in DOMAIN toS'[s] : toS'[s][i].type # "subscribeAck"
    <3>1. [type |-> "error", ops |-> {}] \in Reply
      BY DEF Reply
    <3>2. toS'[s] \in {toS[s], Append(toS[s], [type |-> "error", ops |-> {}])}
      BY <1>2, <1>5 DEF OnSubscribe
    <3>3. toS[s] \in Seq(Reply)
      BY <1>2
    <3> QED BY <2>2, <3>1, <3>2, <3>3, Appended, SMTT(30)
  <2>4. UNCHANGED <<subs, client, loop, pushes>> /\ toR'[s] = Tail(toR[s])
    BY <1>2, <1>5 DEF OnSubscribe
  <2>5. /\ \A i \in DOMAIN toR'[s] : toR'[s][i].type # "subscribe"
        /\ ~Asked(s)' /\ client[s].at # "new"
    BY <1>4, <1>5, <2>4 DEF OnSubscribe
  <2> QED BY <1>1, <1>5, <2>2, <2>3, <2>4, <2>5 DEF HandshakeOf
<1>6. CASE t = s /\ Register(s)
  <2>1. UNCHANGED <<client, loop, pushes, toR>> /\ listing[s].on /\ ~listing'[s].on
    BY <1>2, <1>6 DEF Register, None
  <2>2. ~Unanswered(s)' /\ client[s].at # "new"
    BY <1>1, <2>1 DEF HandshakeOf, Unanswered, Asked
  <2> QED BY <1>1, <1>6, <2>1, <2>2 DEF HandshakeOf
<1>7. CASE t = s /\ OnUnsubscribe(s)
  <2>1. UNCHANGED <<client, loop, pushes, toS, listing>> /\ toR'[s] = Tail(toR[s]) /\ ~subs'[s].on
    BY <1>2, <1>7 DEF OnUnsubscribe, None
  <2>2. /\ \A i \in DOMAIN toR'[s] : toR'[s][i].type # "subscribe"
        /\ ~Asked(s)' /\ client[s].at # "new"
    BY <1>4, <1>7, <2>1 DEF OnUnsubscribe
  <2> QED BY <1>1, <1>7, <2>1, <2>2 DEF HandshakeOf, Unanswered
<1> QED BY <1>3, <1>5, <1>6, <1>7

(* An Unsubscribe message behind the others does not bring back a Subscribe. *)
LEMMA LeavingKeepsAsked ==
  ASSUME NEW s \in Sub, toR[s] \in Seq(Request),
         toR'[s] = Append(toR[s], [type |-> "unsubscribe"]),
         \A i \in DOMAIN toR[s] : toR[s][i].type = "subscribe" => i = 1
  PROVE  /\ Asked(s)' => Asked(s)
         /\ \A i \in DOMAIN toR'[s] : toR'[s][i].type = "subscribe" => i = 1
<1>1. [type |-> "unsubscribe"] \in Request
  BY DEF Request
<1>2. /\ DOMAIN toR'[s] = DOMAIN toR[s] \cup {Len(toR[s]) + 1}
      /\ toR'[s][Len(toR[s]) + 1].type = "unsubscribe"
      /\ \A i \in DOMAIN toR[s] : toR'[s][i] = toR[s][i]
  BY <1>1, Appended
<1>3. Asked(s)' => Asked(s)
  BY <1>1, HeadTailAppend DEF Asked, HeadIs
<1> QED BY <1>2, <1>3

(* The subscriber: an acknowledgement comes before live, a refusal or a stop ends it. *)
LEMMA SubscriberHandshake ==
  ASSUME TypeOK, Handshake, NEW s \in Sub,
         Subscribe(s) \/ Stop(s) \/ Acknowledged(s) \/ CatchUp(s) \/ Leave(s) \/ Receive(s)
  PROVE  Handshake'
<1> SUFFICES ASSUME NEW t \in Sub PROVE HandshakeOf(t)'
  BY DEF Handshake
<1>1. HandshakeOf(t) /\ HandshakeOf(s)
  BY DEF Handshake
<1>2. /\ toR \in [Sub -> Seq(Request)] /\ toS \in [Sub -> Seq(Reply)]
      /\ client \in [Sub -> ClientType]
  BY DEF TypeOK
<1>3. UNCHANGED <<listing, subs, loop, pushes>>
  BY DEF Subscribe, Stop, Acknowledged, CatchUp, Leave, Receive
<1>4. CASE t # s
  <2>1. client'[t] = client[t] /\ toR'[t] = toR[t] /\ toS'[t] = toS[t]
    BY <1>2, <1>4 DEF Subscribe, Stop, Acknowledged, CatchUp, Leave, Receive
  <2> QED BY <1>1, <1>3, <2>1, HandshakeFrame
<1>5. CASE t = s /\ Subscribe(s)
  <2>1. /\ client[s].at = "new" /\ client'[s] = [client[s] EXCEPT !.at = "sent"]
        /\ toR'[s] = Append(toR[s], [type |-> "subscribe"]) /\ toS' = toS
    BY <1>2, <1>5 DEF Subscribe
  <2>2. toR[s] = <<>> /\ ~listing[s].on /\ Unanswered(s)
    BY <1>1, <2>1 DEF HandshakeOf, Unanswered
  <2>3. toR'[s] = <<[type |-> "subscribe"]>>
    BY <2>1, <2>2
  <2>4. \A i \in DOMAIN toR'[s] : i = 1
    BY <2>3
  <2>5. client'[s].at = "sent" /\ client'[s].ack = client[s].ack
    BY <1>2, <2>1 DEF ClientType
  <2> QED BY <1>1, <1>3, <1>5, <2>1, <2>2, <2>4, <2>5 DEF HandshakeOf
<1>6. CASE t = s /\ (Stop(s) \/ Acknowledged(s) \/ CatchUp(s))
  <2>1. /\ toR' = toR /\ toS' = toS
        /\ client'[s].at # "new" /\ client[s].at # "new" /\ client'[s].ack = client[s].ack
        /\ client'[s].at \in {"syncing", "live"} => client[s].ack
    BY <1>1, <1>2, <1>6 DEF Stop, Acknowledged, CatchUp, HandshakeOf, ClientType
  <2> QED BY <1>1, <1>3, <1>6, <2>1 DEF HandshakeOf, Unanswered, Asked
<1>7. CASE t = s /\ Leave(s)
  <2>1. /\ toR'[s] = Append(toR[s], [type |-> "unsubscribe"]) /\ toS' = toS
        /\ client'[s].at = "left" /\ client[s].at # "new" /\ client'[s].ack = client[s].ack
    BY <1>2, <1>7 DEF Leave, ClientType
  <2>2. /\ Asked(s)' => Asked(s)
        /\ \A i \in DOMAIN toR'[s] : toR'[s][i].type = "subscribe" => i = 1
    BY <1>1, <1>2, <2>1, LeavingKeepsAsked DEF HandshakeOf
  <2> QED BY <1>1, <1>3, <1>7, <2>1, <2>2 DEF HandshakeOf, Unanswered
<1>8. CASE t = s /\ Receive(s)
  <2>1. toS[s] # <<>> /\ toS'[s] = Tail(toS[s])
    BY <1>2, <1>8 DEF Receive
  <2>2. /\ client'[s].ack = (client[s].ack \/ Head(toS[s]).type = "subscribeAck")
        /\ client'[s].at \in {client[s].at, "left"}
        /\ client'[s].at # "left" => toR' = toR
        /\ toR'[s] = toR[s] \/ toR'[s] = Append(toR[s], [type |-> "unsubscribe"])
    BY <1>2, <1>8 DEF Receive, ClientType
  <2>3. /\ Asked(s)' => Asked(s)
        /\ \A i \in DOMAIN toR'[s] : toR'[s][i].type = "subscribe" => i = 1
    <3>1. CASE toR'[s] = toR[s]
      BY <1>1, <3>1 DEF HandshakeOf, Asked
    <3>2. CASE toR'[s] # toR[s]
      BY <1>1, <1>2, <2>2, <3>2, LeavingKeepsAsked DEF HandshakeOf
    <3> QED BY <3>1, <3>2
  <2>4. Unanswered(s)' => Unanswered(s)
    BY <1>3, <2>2, <2>3 DEF Unanswered
  <2>5. Unanswered(s) =>
          Head(toS[s]).type # "subscribeAck"
          /\ \A i \in DOMAIN toS'[s] : toS'[s][i].type # "subscribeAck"
    BY <1>1, <1>2, <2>1, Taken DEF HandshakeOf
  <2>6. client'[s].at \in {"syncing", "live"} => client'[s].ack
    BY <1>1, <2>2 DEF HandshakeOf
  <2>7. client'[s].at = "new" => toR'[s] = <<>> /\ ~listing'[s].on
    BY <1>1, <1>3, <2>2 DEF HandshakeOf
  <2>8. listing'[s].on => ~Asked(s)'
    BY <1>1, <1>3, <2>3 DEF HandshakeOf
  <2>9. Unanswered(s)' => /\ ~subs'[s].on /\ ~client'[s].ack /\ loop'.at # s
                          /\ \A i \in DOMAIN toS'[s] : toS'[s][i].type # "subscribeAck"
                          /\ \A o \in Op : pushes'[s][o] = 0
    BY <1>1, <1>3, <2>2, <2>4, <2>5 DEF HandshakeOf
  <2> QED BY <1>8, <2>3, <2>6, <2>7, <2>8, <2>9 DEF HandshakeOf
<1> QED BY <1>4, <1>5, <1>6, <1>7, <1>8

(* Every step keeps the handshake. *)
LEMMA NextHandshake ==
  ASSUME Assumptions, TypeOK, Handshake, [Next]_vars PROVE Handshake'
<1>1. CASE UNCHANGED vars
  BY <1>1 DEF vars, Handshake, HandshakeOf, Unanswered, Asked
<1> QED BY <1>1, LoopHandshake, HandlerHandshake, SubscriberHandshake DEF Next

-----------------------------------------------------------------------------
(* Every step keeps the invariant: what is stored, and the loop.           *)

(* Nothing is noted, listed or recorded that the store does not hold. *)
LEMMA NextStored ==
  ASSUME Assumptions, TypeOK, Stored, [Next]_vars PROVE Stored'
<1>1. CASE UNCHANGED vars
  BY <1>1 DEF vars, Stored
<1>2. CASE Write
  BY <1>2 DEF Write, Stored
<1>3. CASE NotifyLocalUpdate
  BY <1>3 DEF NotifyLocalUpdate, Notified, Stored, TypeOK, PushType
<1>4. CASE PushRound
  <2>1. /\ loop'.todo = {} \/ loop' = loop
        /\ loop'.delta \subseteq push.ops \/ loop' = loop
        /\ push'.ops \subseteq push.ops
    <3>1. push \in PushType
      BY DEF TypeOK
    <3>2. push' \in {[push EXCEPT !.scheduled = FALSE, !.full = FALSE, !.ops = {}],
                     [push EXCEPT !.running = FALSE]}
      BY <1>4 DEF PushRound
    <3>3. push'.ops \subseteq push.ops
      BY <3>1, <3>2 DEF PushType
    <3>4. \/ loop' = loop
          \/ loop' = [at |-> "round", visited |-> {}, todo |-> {}, full |-> push.full,
                      delta |-> IF push.full THEN {} ELSE push.ops]
      BY <1>4 DEF PushRound
    <3> QED BY <3>3, <3>4
  <2> QED BY <1>4, <2>1 DEF PushRound, Stored, Assumptions
<1>5. CASE RoundEnds
  BY <1>5 DEF RoundEnds, NoLoop, Stored
<1>6. ASSUME NEW s \in Sub, PushTo(s) PROVE Stored'
  <2>1. PICK refs :
           /\ refs = (IF UsesDelta(s) THEN loop.delta ELSE store \cap Matches[s])
           /\ loop' = [loop EXCEPT !.visited = @ \cup {s}, !.todo = refs \ subs[s].refs,
                                   !.at = IF refs \ subs[s].refs = {} THEN "round" ELSE s]
    BY <1>6 DEF PushTo
  <2>2. loop'.delta = loop.delta /\ loop'.todo = refs \ subs[s].refs /\ loop'.at \in {"round", s}
    BY <2>1 DEF TypeOK, LoopType
  <2>3. refs \subseteq store
    BY <2>1 DEF Stored
  <2>4. refs \subseteq Matches[s]
    BY <2>1 DEF UsesDelta, Assumptions, TypeOK, LoopType
  <2>5. UNCHANGED <<store, unnotified, listing, subs, push, listed>>
    BY <1>6 DEF PushTo
  <2> QED BY <2>2, <2>3, <2>4, <2>5 DEF Stored, Assumptions
<1>7. ASSUME NEW s \in Sub, PushChunk(s) PROVE Stored'
  <2>1. PICK chunk \in Chunks(loop.todo) :
           /\ subs' = IF subs[s].on THEN Recorded(s, chunk) ELSE subs
           /\ loop' = [loop EXCEPT !.todo = @ \ chunk,
                                   !.at = IF chunk = loop.todo THEN "round" ELSE s]
    BY <1>7 DEF PushChunk
  <2>2. chunk \subseteq store
    BY ChunkIsPart DEF Stored
  <2>3. /\ loop'.delta = loop.delta /\ loop'.todo = loop.todo \ chunk
        /\ loop'.at \in {"round", s} /\ loop.at = s
    BY <1>7, <2>1 DEF TypeOK, LoopType, PushChunk
  <2>4. \A t \in Sub : subs'[t].refs \subseteq subs[t].refs \cup chunk
    BY <2>1 DEF TypeOK, SubscriptionType, Recorded
  <2>5. UNCHANGED <<store, unnotified, listing, push, listed>>
    BY <1>7 DEF PushChunk
  <2> QED BY <2>2, <2>3, <2>4, <2>5 DEF Stored, Assumptions
<1>8. ASSUME NEW s \in Sub, PushFails(s) PROVE Stored'
  BY <1>8 DEF PushFails, Stored, TypeOK, LoopType, None, Assumptions
<1>9. ASSUME NEW s \in Sub, OnSubscribe(s) PROVE Stored'
  <2>1. UNCHANGED <<store, unnotified, subs, push, loop>>
    BY <1>9 DEF OnSubscribe
  <2>2. ASSUME NEW t \in Sub
        PROVE  /\ listing'[t].refs \subseteq store
               /\ listing'[t].on /\ t \notin Immediately => listing'[t].refs \subseteq listed'[t]
    <3>1. \/ /\ listing' = [listing EXCEPT ![s] = [refs |-> store \cap Matches[s], on |-> TRUE]]
             /\ listed' = [listed EXCEPT ![s] = IF s \in Immediately THEN {} ELSE store]
          \/ UNCHANGED <<listing, listed>>
      BY <1>9 DEF OnSubscribe
    <3>2. DOMAIN listing = Sub /\ DOMAIN listed = Sub
      BY DEF TypeOK
    <3> QED BY <3>1, <3>2 DEF Stored
  <2> QED BY <2>1, <2>2 DEF Stored
<1>10. ASSUME NEW s \in Sub, Register(s) PROVE Stored'
  <2>1. push'.ops = push.ops \/ push'.ops = push.ops \cup {}
    BY <1>10 DEF Register, RegistrationNotifies, Notified
  <2> QED BY <1>10, <2>1 DEF Register, Stored, TypeOK, None
<1>11. ASSUME NEW s \in Sub, OnUnsubscribe(s) PROVE Stored'
  BY <1>11 DEF OnUnsubscribe, Stored, TypeOK, None
<1>12. ASSUME NEW s \in Sub,
              Subscribe(s) \/ Stop(s) \/ Acknowledged(s) \/ CatchUp(s) \/ Leave(s) \/ Receive(s)
       PROVE  Stored'
  BY <1>12 DEF Subscribe, Stop, Acknowledged, CatchUp, Leave, Receive, Stored
<1> QED
  BY <1>1, <1>2, <1>3, <1>4, <1>5, <1>6, <1>7, <1>8, <1>9, <1>10, <1>11, <1>12 DEF Next

(* notifyLocalUpdate starts the loop, and the loop ends only when nothing is scheduled. *)
LEMMA NextLoopRuns ==
  ASSUME Assumptions, TypeOK, LoopRuns, [Next]_vars PROVE LoopRuns'
<1>1. ASSUME UNCHANGED <<push, loop>> PROVE LoopRuns'
  BY <1>1 DEF LoopRuns
<1>2. CASE NotifyLocalUpdate
  BY <1>2 DEF NotifyLocalUpdate, Notified, LoopRuns
<1>3. CASE PushRound
  BY <1>3 DEF PushRound, LoopRuns, TypeOK, PushType
<1>4. CASE RoundEnds
  BY <1>4 DEF RoundEnds, LoopRuns, NoLoop
<1>5. ASSUME NEW s \in Sub, PushTo(s) \/ PushChunk(s) \/ PushFails(s) PROVE LoopRuns'
  BY <1>5 DEF PushTo, PushChunk, PushFails, LoopRuns, Assumptions
<1>6. ASSUME NEW s \in Sub, Register(s) PROVE LoopRuns'
  BY <1>6 DEF Register, RegistrationNotifies, Notified, LoopRuns
<1> QED
  BY <1>1, <1>2, <1>3, <1>4, <1>5, <1>6 DEF Next, vars, Write, OnSubscribe, OnUnsubscribe,
     Subscribe, Stop, Acknowledged, CatchUp, Leave, Receive

-----------------------------------------------------------------------------
(* Every step keeps the invariant: what is recorded as sent is delivered.  *)

(* A subscription that keeps what is recorded, or ends, and whose subscriber loses nothing. *)
LEMMA DeliveredFrame ==
  ASSUME NEW t \in Sub, DeliveredTo(t),
         subs'[t].on => subs[t].on /\ subs'[t].refs = subs[t].refs,
         client'[t].at = "live" /\ t \in Immediately => client[t].at = "live",
         Received(t) \subseteq Received(t)'
  PROVE  DeliveredTo(t)'
BY DEF DeliveredTo, Visible

(* The messages on their way are those of the queue. *)
LEMMA InFlightIs == \A s : InFlight(s) = OpsIn(toS[s]) /\ InFlight(s)' = OpsIn(toS'[s])
BY DEF InFlight, OpsIn

(* A batch is on its way, with all that the filter lets pass, when it is recorded. *)
LEMMA ChunkDelivered ==
  ASSUME TypeOK, Delivered, NEW s \in Sub, PushChunk(s) PROVE Delivered'
<1> SUFFICES ASSUME NEW t \in Sub PROVE DeliveredTo(t)'
  BY DEF Delivered
<1>1. PICK chunk \in Chunks(loop.todo) :
         /\ subs' = IF subs[s].on THEN Recorded(s, chunk) ELSE subs
         /\ toS' = IF chunk \cap Sendable = {} THEN toS
                   ELSE [toS EXCEPT ![s] = Append(@, [type |-> "opsBatch", ops |-> chunk \cap Sendable])]
  BY DEF PushChunk
<1>2. /\ toS \in [Sub -> Seq(Reply)] /\ subs \in [Sub -> SubscriptionType]
      /\ UNCHANGED <<client, got, listed>>
  BY DEF TypeOK, PushChunk
<1>3. CASE t # s
  <2>1. toS'[t] = toS[t] /\ subs'[t] = subs[t]
    BY <1>1, <1>2, <1>3 DEF Recorded
  <2>2. Received(t)' = Received(t)
    BY <1>2, <2>1, InFlightIs DEF Received
  <2> QED BY <1>2, <2>1, <2>2, DeliveredFrame DEF Delivered
<1>4. CASE t = s
  <2>1. chunk \cap Sendable \subseteq Op
    BY ChunkIsPart DEF TypeOK, LoopType
  <2>2. OpsIn(toS'[s]) = OpsIn(toS[s]) \cup (chunk \cap Sendable)
    <3>1. CASE chunk \cap Sendable = {}
      BY <1>1, <3>1
    <3>2. CASE chunk \cap Sendable # {}
      <4>1. [type |-> "opsBatch", ops |-> chunk \cap Sendable] \in Reply
        BY <2>1 DEF Reply
      <4>2. toS[s] \in Seq(Reply)
            /\ toS'[s] = Append(toS[s], [type |-> "opsBatch", ops |-> chunk \cap Sendable])
        BY <1>1, <1>2, <3>2
      <4> QED BY <4>1, <4>2, SentOps
    <3> QED BY <3>1, <3>2
  <2>3. subs'[s].on = subs[s].on /\ (subs[s].on => subs'[s].refs = subs[s].refs \cup chunk)
    BY <1>1, <1>2 DEF Recorded, SubscriptionType
  <2>4. Received(s)' = Received(s) \cup (chunk \cap Sendable)
    BY <1>2, <2>2, InFlightIs DEF Received
  <2>5. DeliveredTo(s)
    BY DEF Delivered
  <2> QED BY <1>2, <1>4, <2>3, <2>4, <2>5 DEF DeliveredTo, Visible
<1> QED BY <1>3, <1>4

(* Registration: what was listed is recorded, before anybody relies on it. *)
LEMMA HandlerDelivered ==
  ASSUME TypeOK, Handshake, Stored, Delivered, NEW s \in Sub,
         OnSubscribe(s) \/ Register(s) \/ OnUnsubscribe(s)
  PROVE  Delivered'
<1> SUFFICES ASSUME NEW t \in Sub PROVE DeliveredTo(t)'
  BY DEF Delivered
<1>1. /\ toS \in [Sub -> Seq(Reply)] /\ subs \in [Sub -> SubscriptionType]
      /\ listed \in [Sub -> SUBSET Op] /\ UNCHANGED <<client, got>>
  BY DEF TypeOK, OnSubscribe, Register, OnUnsubscribe
<1>2. DeliveredTo(t) /\ HandshakeOf(s)
  BY DEF Delivered, Handshake
<1>3. CASE t # s
  <2>1. toS'[t] = toS[t] /\ subs'[t] = subs[t] /\ listed'[t] = listed[t]
    BY <1>1, <1>3 DEF OnSubscribe, Register, OnUnsubscribe
  <2>2. Received(t)' = Received(t)
    BY <1>1, <2>1, InFlightIs DEF Received
  <2> QED BY <1>1, <1>2, <2>1, <2>2, DeliveredFrame
<1>4. CASE t = s /\ OnSubscribe(s)
  <2>1. ~subs'[s].on
    BY <1>2, <1>4 DEF OnSubscribe, HandshakeOf, Unanswered, Asked
  <2> QED BY <1>4, <2>1 DEF DeliveredTo
<1>5. CASE t = s /\ Register(s)
  <2>1. client[s].at # "live"
    BY <1>2, <1>5 DEF Register, HandshakeOf, Unanswered
  <2>2. subs'[s] = listing[s] /\ listing[s].on /\ listed' = listed
    BY <1>1, <1>5 DEF Register
  <2>3. s \notin Immediately => subs'[s].refs \subseteq listed'[s]
    BY <2>2 DEF Stored
  <2> QED BY <1>1, <1>5, <2>1, <2>3 DEF DeliveredTo, Received
<1>6. CASE t = s /\ OnUnsubscribe(s)
  BY <1>1, <1>6 DEF OnUnsubscribe, None, DeliveredTo
<1> QED BY <1>3, <1>4, <1>5, <1>6

(* The subscriber: a catch-up brings what was listed, a receipt only moves operations. *)
LEMMA SubscriberDelivered ==
  ASSUME TypeOK, Stored, Delivered, NEW s \in Sub,
         Subscribe(s) \/ Stop(s) \/ Acknowledged(s) \/ CatchUp(s) \/ Leave(s) \/ Receive(s)
  PROVE  Delivered'
<1> SUFFICES ASSUME NEW t \in Sub PROVE DeliveredTo(t)'
  BY DEF Delivered
<1>1. /\ toS \in [Sub -> Seq(Reply)] /\ got \in [Sub -> SUBSET Op] /\ client \in [Sub -> ClientType]
      /\ UNCHANGED <<subs, listed>>
  BY DEF TypeOK, Subscribe, Stop, Acknowledged, CatchUp, Leave, Receive
<1>2. DeliveredTo(t)
  BY DEF Delivered
<1>3. CASE t # s
  <2>1. toS'[t] = toS[t] /\ got'[t] = got[t] /\ client'[t] = client[t]
    BY <1>1, <1>3 DEF Subscribe, Stop, Acknowledged, CatchUp, Leave, Receive
  <2>2. Received(t)' = Received(t)
    BY <1>1, <2>1, InFlightIs DEF Received
  <2> QED BY <1>1, <1>2, <2>1, <2>2, DeliveredFrame
<1>4. CASE t = s /\ (Subscribe(s) \/ Stop(s) \/ Acknowledged(s) \/ Leave(s))
  <2>1. toS' = toS /\ got' = got
    BY <1>4 DEF Subscribe, Stop, Acknowledged, Leave
  <2>2. client'[s].at = "live" /\ s \in Immediately => client[s].at = "live"
    BY <1>1, <1>4 DEF Subscribe, Stop, Acknowledged, Leave, ClientType
  <2>3. Received(s)' = Received(s)
    BY <1>1, <2>1, InFlightIs DEF Received
  <2> QED BY <1>1, <1>2, <1>4, <2>2, <2>3, DeliveredFrame
<1>5. CASE t = s /\ CatchUp(s)
  <2>1. got'[s] = got[s] \cup (store \cap Visible(s))
    BY <1>1, <1>5 DEF CatchUp
  <2>2. subs'[s].refs \subseteq store
    BY <1>1 DEF Stored
  <2> QED BY <1>5, <2>1, <2>2 DEF DeliveredTo, Received, Visible
<1>6. CASE t = s /\ Receive(s)
  <2>1. /\ toS[s] # <<>> /\ toS'[s] = Tail(toS[s]) /\ got'[s] = got[s] \cup Head(toS[s]).ops
        /\ client'[s].at \in {client[s].at, "left"}
    BY <1>1, <1>6 DEF Receive, ClientType
  <2>2. OpsIn(toS[s]) \subseteq Head(toS[s]).ops \cup OpsIn(toS'[s])
    BY <1>1, <2>1, ReceivedOps
  <2>3. Received(s) \subseteq Received(s)'
    BY <1>1, <2>1, <2>2, InFlightIs DEF Received
  <2> QED BY <1>1, <1>2, <1>6, <2>1, <2>3, DeliveredFrame
<1> QED BY <1>3, <1>4, <1>5, <1>6

(* Every step keeps it that what is recorded as sent is delivered. *)
LEMMA NextDelivered ==
  ASSUME Assumptions, TypeOK, Handshake, Stored, Delivered, [Next]_vars PROVE Delivered'
<1>1. ASSUME UNCHANGED <<client, toS, got, listed>>,
             \A t \in Sub : subs'[t].on => subs[t].on /\ subs'[t].refs = subs[t].refs
      PROVE  Delivered'
  <2> SUFFICES ASSUME NEW t \in Sub PROVE DeliveredTo(t)'
    BY DEF Delivered
  <2>1. Received(t)' = Received(t)
    BY <1>1, InFlightIs DEF Received
  <2> QED BY <1>1, <2>1, DeliveredFrame DEF Delivered
<1>2. ASSUME NEW s \in Sub, PushFails(s) PROVE Delivered'
  <2>1. \A t \in Sub : subs'[t].on => subs[t].on /\ subs'[t].refs = subs[t].refs
    BY <1>2 DEF PushFails, None, TypeOK
  <2> QED BY <1>1, <1>2, <2>1 DEF PushFails
<1>3. CASE UNCHANGED <<subs, client, toS, got, listed>>
  BY <1>1, <1>3
<1> QED
  BY <1>2, <1>3, ChunkDelivered, HandlerDelivered, SubscriberDelivered
  DEF Next, vars, Write, NotifyLocalUpdate, PushRound, RoundEnds, PushTo

-----------------------------------------------------------------------------
(* Every step keeps the invariant: nothing is forgotten.                   *)

(* A notification, or a registration, only adds to what later rounds will push. *)
LEMMA NotifiedPushes ==
  ASSUME NEW R, NEW ops, push' = Notified(R, ops), loop' = loop, NEW s, NEW o
  PROVE  /\ WillPush(s, o) => WillPush(s, o)'
         /\ R # {} /\ (ops = {} \/ o \in ops) => WillPush(s, o)'
BY DEF Notified, WillPush

(* The loop turns what was noted into a round, and leaves no subscription out of it. *)
LEMMA RoundCovers ==
  ASSUME TypeOK, Covered, PushRound \/ RoundEnds, Assumptions PROVE Covered'
<1> SUFFICES ASSUME NEW s \in Sub, subs[s].on, NEW o \in store \cap Matches[s],
                    o \notin subs[s].refs, o \notin unnotified
             PROVE  WillPush(s, o)'
  BY DEF Covered, PushRound, RoundEnds
<1>1. WillPush(s, o) /\ s # "idle" /\ s # "round"
  BY DEF Covered, Assumptions
<1>2. CASE PushRound
  <2>1. loop.at = "idle"
    BY <1>2 DEF PushRound
  <2>2. push.scheduled /\ (push.full \/ o \in push.ops)
    BY <1>1, <2>1 DEF WillPush
  <2>3. loop' = [at |-> "round", visited |-> {}, todo |-> {}, full |-> push.full,
                 delta |-> IF push.full THEN {} ELSE push.ops]
    BY <1>2, <2>2 DEF PushRound
  <2>4. loop'.at = "round" /\ loop'.visited = {} /\ (loop'.full \/ o \in loop'.delta)
    BY <2>2, <2>3
  <2> QED BY <2>4 DEF WillPush
<1>3. CASE RoundEnds
  <2>1. loop.at = "round" /\ s \in loop.visited /\ push' = push
    BY <1>3 DEF RoundEnds, Registered
  <2> QED BY <1>1, <2>1 DEF WillPush
<1> QED BY <1>2, <1>3

(* The turn of a subscription: all of the round is recorded already, or is to be pushed. *)
LEMMA TurnCovers ==
  ASSUME TypeOK, Covered, Assumptions, NEW t \in Sub, PushTo(t) PROVE Covered'
<1> SUFFICES ASSUME NEW s \in Sub, subs[s].on, NEW o \in store \cap Matches[s],
                    o \notin subs[s].refs, o \notin unnotified
             PROVE  WillPush(s, o)'
  BY DEF Covered, PushTo
<1>1. WillPush(s, o) /\ s # "round" /\ s # "idle" /\ loop.at = "round" /\ push' = push
  BY DEF Covered, Assumptions, PushTo
<1>2. PICK refs :
         /\ refs = (IF UsesDelta(t) THEN loop.delta ELSE store \cap Matches[t])
         /\ loop' = [loop EXCEPT !.visited = @ \cup {t}, !.todo = refs \ subs[t].refs,
                                 !.at = IF refs \ subs[t].refs = {} THEN "round" ELSE t]
  BY DEF PushTo
<1>3. /\ loop'.visited = loop.visited \cup {t} /\ loop'.todo = refs \ subs[t].refs
      /\ loop'.at = (IF refs \ subs[t].refs = {} THEN "round" ELSE t)
      /\ loop'.full = loop.full /\ loop'.delta = loop.delta
  BY <1>2 DEF TypeOK, LoopType
<1>4. CASE push.scheduled /\ (push.full \/ o \in push.ops)
  BY <1>1, <1>4 DEF WillPush
<1>5. CASE s \notin loop.visited /\ (loop.full \/ o \in loop.delta)
  <2>1. CASE s # t
    <3>1. loop'.at # "idle"
      BY <1>3, Assumptions DEF Assumptions
    <3> QED BY <1>3, <1>5, <2>1, <3>1 DEF WillPush
  <2>2. CASE s = t
    <3>1. o \in refs
      BY <1>2, <1>5, <2>2 DEF UsesDelta
    <3> QED BY <1>3, <2>2, <3>1 DEF WillPush
  <2> QED BY <2>1, <2>2
<1> QED BY <1>1, <1>4, <1>5 DEF WillPush

(* A chunk is recorded; what is left of the turn is still to be pushed. *)
LEMMA ChunkCovers ==
  ASSUME TypeOK, Covered, Assumptions, NEW t \in Sub, PushChunk(t) PROVE Covered'
<1>1. PICK chunk \in Chunks(loop.todo) :
         /\ subs' = IF subs[t].on THEN Recorded(t, chunk) ELSE subs
         /\ loop' = [loop EXCEPT !.todo = @ \ chunk,
                                 !.at = IF chunk = loop.todo THEN "round" ELSE t]
  BY DEF PushChunk
<1>2. /\ loop'.todo = loop.todo \ chunk /\ loop'.at = (IF chunk = loop.todo THEN "round" ELSE t)
      /\ loop'.full = loop.full /\ loop'.delta = loop.delta /\ loop'.visited = loop.visited
      /\ loop.at = t /\ UNCHANGED <<push, store, unnotified>>
  BY <1>1 DEF TypeOK, LoopType, PushChunk
<1>3. \A s \in Sub : subs'[s].on = subs[s].on /\ subs[s].refs \subseteq subs'[s].refs
  BY <1>1 DEF Recorded, TypeOK, SubscriptionType
<1>4. subs[t].on => subs'[t].refs = subs[t].refs \cup chunk
  BY <1>1 DEF Recorded, TypeOK, SubscriptionType
<1> SUFFICES ASSUME NEW s \in Sub, subs[s].on, NEW o \in store \cap Matches[s],
                    o \notin subs'[s].refs, o \notin unnotified
             PROVE  WillPush(s, o)'
  BY <1>2, <1>3 DEF Covered
<1>5. WillPush(s, o) /\ s # "idle" /\ s # "round" /\ t # "idle"
  BY <1>3 DEF Covered, Assumptions
<1>6. CASE loop.at = s /\ o \in loop.todo
  <2>1. o \notin chunk /\ s = t
    BY <1>2, <1>4, <1>6
  <2> QED BY <1>2, <1>6, <2>1 DEF WillPush
<1>7. CASE ~(loop.at = s /\ o \in loop.todo)
  BY <1>2, <1>5, <1>7 DEF WillPush
<1> QED BY <1>6, <1>7

(* Every step keeps it that a stored operation is recorded as sent or going to be. *)
LEMMA NextCovered ==
  ASSUME Assumptions, TypeOK, Handshake, Covered, [Next]_vars PROVE Covered'
<1>1. ASSUME UNCHANGED <<store, unnotified, push, loop>>,
             \A s \in Sub : subs'[s].on => subs[s].on /\ subs'[s].refs = subs[s].refs
      PROVE  Covered'
  BY <1>1 DEF Covered, WillPush
<1>2. CASE Write
  BY <1>2 DEF Write, Covered, WillPush
<1>3. CASE NotifyLocalUpdate
  <2>1. PICK n \in unnotified : /\ unnotified' = unnotified \ {n}
                               /\ \/ push' = Notified(Registered, {n})
                                  \/ push' = Notified(Registered, {})
    BY <1>3 DEF NotifyLocalUpdate
  <2>2. UNCHANGED <<store, subs, loop>>
    BY <1>3 DEF NotifyLocalUpdate
  <2> SUFFICES ASSUME NEW s \in Sub, subs[s].on, NEW o \in store \cap Matches[s],
                      o \notin subs[s].refs, o \notin unnotified'
               PROVE  WillPush(s, o)'
    BY <2>2 DEF Covered
  <2>3. Registered # {}
    BY DEF Registered
  <2>4. PICK ops \in {{n}, {}} : push' = Notified(Registered, ops)
    BY <2>1
  <2>5. CASE o = n
    BY <2>2, <2>3, <2>4, <2>5, NotifiedPushes
  <2>6. CASE o # n
    <3>1. WillPush(s, o)
      BY <2>1, <2>6 DEF Covered
    <3> QED BY <2>2, <2>4, <3>1, NotifiedPushes
  <2> QED BY <2>5, <2>6
<1>4. ASSUME NEW s \in Sub, Register(s) PROVE Covered'
  <2>1. push' = Notified(Registered \cup {s}, {}) /\ UNCHANGED <<store, unnotified, loop>>
    BY <1>4 DEF Register, RegistrationNotifies
  <2>2. \A t, o : WillPush(t, o)'
    BY <2>1, NotifiedPushes
  <2> QED BY <2>2 DEF Covered
<1>5. ASSUME NEW s \in Sub, OnUnsubscribe(s) PROVE Covered'
  <2>1. \A t \in Sub : subs'[t].on => subs[t].on /\ subs'[t].refs = subs[t].refs
    BY <1>5 DEF OnUnsubscribe, None, TypeOK
  <2> QED BY <1>1, <1>5, <2>1 DEF OnUnsubscribe
<1>6. ASSUME NEW s \in Sub, PushFails(s) PROVE Covered'
  <2>1. \A t \in Sub : subs'[t].on => t # s /\ subs[t].on /\ subs'[t].refs = subs[t].refs
    BY <1>6 DEF PushFails, None, TypeOK
  <2>2. /\ loop'.at = "round" /\ loop'.full = loop.full /\ loop'.delta = loop.delta
        /\ loop'.visited = loop.visited /\ loop.at = s /\ UNCHANGED <<push, store, unnotified>>
    BY <1>6 DEF PushFails, TypeOK, LoopType
  <2> QED BY <2>1, <2>2 DEF Covered, WillPush, Assumptions
<1>7. CASE UNCHANGED <<store, unnotified, push, loop, subs>>
  BY <1>1, <1>7
<1> QED
  BY <1>2, <1>3, <1>4, <1>5, <1>6, <1>7, RoundCovers, TurnCovers, ChunkCovers
  DEF Next, vars, OnSubscribe, Subscribe, Stop, Acknowledged, CatchUp, Leave, Receive

-----------------------------------------------------------------------------
(* Every step keeps the invariant: no operation is pushed twice.           *)

(* A chunk is pushed to a subscription that has not had it. *)
LEMMA ChunkOnce ==
  ASSUME TypeOK, Stored, PushedOnce, PushedOnceAndInScope, NEW t \in Sub, PushChunk(t), Assumptions
  PROVE  PushedOnce' /\ PushedOnceAndInScope'
<1>1. PICK chunk \in Chunks(loop.todo) :
         /\ subs' = IF subs[t].on THEN Recorded(t, chunk) ELSE subs
         /\ pushes' = [pushes EXCEPT ![t] = [o \in Op |->
                          IF o \in chunk \cap Sendable THEN @[o] + 1 ELSE @[o]]]
         /\ loop' = [loop EXCEPT !.todo = @ \ chunk,
                                 !.at = IF chunk = loop.todo THEN "round" ELSE t]
  BY DEF PushChunk
<1>2. loop.at = t /\ loop'.todo = loop.todo \ chunk /\ loop'.at \in {"round", t}
  BY <1>1 DEF TypeOK, LoopType, PushChunk
<1>3. chunk \subseteq loop.todo /\ chunk \subseteq Matches[t]
  BY <1>2, ChunkIsPart DEF Stored
<1>4. /\ subs'[t].on = subs[t].on /\ (subs[t].on => subs'[t].refs = subs[t].refs \cup chunk)
      /\ \A s \in Sub \ {t} : subs'[s] = subs[s] /\ pushes'[s] = pushes[s]
  BY <1>1 DEF Recorded, TypeOK, SubscriptionType
<1>5. ASSUME NEW o \in Op
      PROVE  pushes'[t][o] = IF o \in chunk \cap Sendable THEN pushes[t][o] + 1 ELSE pushes[t][o]
  BY <1>1 DEF TypeOK
<1>6. ASSUME NEW s \in Sub, NEW o \in Op, s # t
      PROVE  /\ subs'[s].on /\ pushes'[s][o] > 0 => o \in subs'[s].refs
             /\ loop'.at = s /\ o \in loop'.todo => pushes'[s][o] = 0
             /\ pushes'[s][o] <= 1 /\ (pushes'[s][o] > 0 => o \in Visible(s))
  BY <1>2, <1>4, <1>6 DEF PushedOnce, PushedOnceAndInScope, Assumptions
<1>7. ASSUME NEW o \in Op
      PROVE  /\ subs'[t].on /\ pushes'[t][o] > 0 => o \in subs'[t].refs
             /\ loop'.at = t /\ o \in loop'.todo => pushes'[t][o] = 0
             /\ pushes'[t][o] <= 1 /\ (pushes'[t][o] > 0 => o \in Visible(t))
  <2>1. CASE o \in chunk \cap Sendable
    <3>1. pushes'[t][o] = 1
      BY <1>2, <1>3, <1>5, <2>1 DEF PushedOnce
    <3>2. o \notin loop'.todo /\ o \in Visible(t)
      BY <1>2, <1>3, <2>1 DEF Visible
    <3>3. subs'[t].on => o \in subs'[t].refs
      BY <1>4, <2>1
    <3> QED BY <3>1, <3>2, <3>3
  <2>2. CASE o \notin chunk \cap Sendable
    <3>1. pushes'[t][o] = pushes[t][o]
      BY <1>5, <2>2
    <3>2. subs'[t].on /\ pushes[t][o] > 0 => o \in subs'[t].refs
      BY <1>4 DEF PushedOnce
    <3>3. loop'.at = t /\ o \in loop'.todo => pushes[t][o] = 0
      BY <1>2 DEF PushedOnce
    <3> QED BY <3>1, <3>2, <3>3 DEF PushedOnceAndInScope
  <2> QED BY <2>1, <2>2
<1>8. \A s \in Sub, o \in Op : Visible(s)' = Visible(s)
  BY DEF Visible
<1> QED BY <1>6, <1>7, <1>8 DEF PushedOnce, PushedOnceAndInScope

(* Every step keeps it that no operation is pushed twice, or outside the filter. *)
LEMMA NextPushedOnce ==
  ASSUME Assumptions, TypeOK, Handshake, Stored, PushedOnce, PushedOnceAndInScope, [Next]_vars
  PROVE  PushedOnce' /\ PushedOnceAndInScope'
<1>1. ASSUME UNCHANGED pushes PROVE PushedOnceAndInScope'
  BY <1>1 DEF PushedOnceAndInScope, Visible
<1>2. ASSUME UNCHANGED pushes,
             \A s \in Sub : subs'[s].on => subs[s].on /\ subs'[s].refs = subs[s].refs,
             \A s \in Sub : loop'.at = s => loop' = loop
      PROVE  PushedOnce'
  BY <1>2 DEF PushedOnce
<1>3. ASSUME UNCHANGED <<subs, pushes>>, \A s \in Sub : loop'.at = s => loop' = loop
      PROVE  PushedOnce' /\ PushedOnceAndInScope'
  BY <1>1, <1>2, <1>3
<1>4. CASE PushRound \/ RoundEnds
  BY <1>3, <1>4 DEF PushRound, RoundEnds, NoLoop, Assumptions
<1>5. ASSUME NEW t \in Sub, PushTo(t) PROVE PushedOnce' /\ PushedOnceAndInScope'
  <2>1. PICK refs : loop' = [loop EXCEPT !.visited = @ \cup {t}, !.todo = refs \ subs[t].refs,
                                     !.at = IF refs \ subs[t].refs = {} THEN "round" ELSE t]
    BY <1>5 DEF PushTo
  <2>2. loop'.todo = refs \ subs[t].refs /\ loop'.at \in {"round", t}
    BY <2>1 DEF TypeOK, LoopType
  <2>3. subs[t].on /\ UNCHANGED <<subs, pushes>>
    BY <1>5 DEF PushTo, Registered
  <2>4. ASSUME NEW o \in Op, o \notin subs[t].refs PROVE pushes[t][o] = 0
    <3>1. pushes[t][o] \in Nat
      BY DEF TypeOK
    <3>2. ~(pushes[t][o] > 0)
      BY <2>3, <2>4 DEF PushedOnce
    <3> QED BY <3>1, <3>2
  <2>5. PushedOnce'
    BY <2>2, <2>3, <2>4 DEF PushedOnce, Assumptions
  <2> QED BY <1>1, <2>3, <2>5
<1>6. ASSUME NEW t \in Sub, PushFails(t) \/ OnUnsubscribe(t)
      PROVE  PushedOnce' /\ PushedOnceAndInScope'
  <2>1. \A s \in Sub : subs'[s].on => subs[s].on /\ subs'[s].refs = subs[s].refs
    <3>1. subs' = [subs EXCEPT ![t] = None] /\ DOMAIN subs = Sub
      BY <1>6 DEF PushFails, OnUnsubscribe, TypeOK
    <3> QED BY <3>1 DEF None
  <2>2. UNCHANGED pushes /\ (loop' = loop \/ loop'.at = "round")
    BY <1>6 DEF PushFails, OnUnsubscribe, TypeOK, LoopType
  <2> QED BY <1>1, <1>2, <2>1, <2>2 DEF Assumptions
<1>7. ASSUME NEW t \in Sub, Register(t) PROVE PushedOnce' /\ PushedOnceAndInScope'
  <2>1. /\ UNCHANGED <<loop, pushes>> /\ subs' = [subs EXCEPT ![t] = listing[t]]
        /\ subs \in [Sub -> SubscriptionType]
    BY <1>7 DEF Register, TypeOK
  <2>2. \A o \in Op : pushes[t][o] = 0
    BY <1>7 DEF Register, Handshake, HandshakeOf, Unanswered
  <2>3. PushedOnce'
    BY <2>1, <2>2 DEF PushedOnce
  <2> QED BY <1>1, <2>1, <2>3
<1>8. CASE UNCHANGED <<subs, pushes, loop>>
  BY <1>3, <1>8
<1> QED
  BY <1>4, <1>5, <1>6, <1>7, <1>8, ChunkOnce
  DEF Next, vars, Write, NotifyLocalUpdate, OnSubscribe, Subscribe, Stop, Acknowledged, CatchUp,
      Leave, Receive

-----------------------------------------------------------------------------
(* Theorems.                                                               *)

(* Every step keeps the invariant. *)
LEMMA NextInvariant == ASSUME Assumptions PROVE IInv /\ [Next]_vars => IInv'
BY NextTypes, NextHandshake, NextStored, NextDelivered, NextLoopRuns, NextCovered, NextPushedOnce
   DEF IInv

(* The invariant gives the properties of the subscriptions. *)
LEMMA InvariantSuffices ==
  ASSUME Assumptions, IInv PROVE SentIsDelivered /\ NothingForgotten /\ PushedOnceAndInScope
<1>1. SentIsDelivered
  BY DEF IInv, Delivered, DeliveredTo, Received, SentIsDelivered
<1>2. NothingForgotten
  <2> SUFFICES ASSUME NEW s \in Sub, subs[s].on, client[s].at = "live", unnotified = {},
                      ~push.running
               PROVE  store \cap Visible(s) \subseteq got[s] \cup InFlight(s) \cup listed[s]
    BY DEF NothingForgotten
  <2>1. \A o : ~WillPush(s, o)
    BY DEF IInv, LoopRuns, WillPush, Assumptions
  <2>2. store \cap Matches[s] \subseteq subs[s].refs
    BY <2>1 DEF IInv, Covered
  <2>3. subs[s].refs \cap Visible(s) \subseteq got[s] \cup InFlight(s) \cup listed[s]
    BY <1>1 DEF SentIsDelivered
  <2> QED BY <2>2, <2>3 DEF Visible
<1> QED BY <1>1, <1>2 DEF IInv

(* The inductive invariant holds in every reachable state. *)
THEOREM Invariance == ASSUME Assumptions PROVE Spec => []IInv
<1>1. Init => IInv
  BY InitInvariant
<1>2. IInv /\ [Next]_vars => IInv'
  BY NextInvariant
<1> QED BY <1>1, <1>2, PTL DEF Spec

(* pushSubscription records as sent only what a live subscriber has, or will receive: no *)
(* reference in sentOpRefs ever hides an operation.                                      *)
THEOREM SentOpsAreDelivered == ASSUME Assumptions PROVE Spec => []SentIsDelivered
<1>1. IInv => SentIsDelivered
  BY InvariantSuffices
<1> QED BY <1>1, Invariance, PTL

(* Between the listing of onSubscribe, its registration, notifyLocalUpdate and the rounds *)
(* of runPushLoop no operation is forgotten.                                              *)
THEOREM NothingIsForgotten == ASSUME Assumptions PROVE Spec => []NothingForgotten
<1>1. IInv => NothingForgotten
  BY InvariantSuffices
<1> QED BY <1>1, Invariance, PTL

(* No operation is pushed twice on a subscription, and none outside its filter. *)
THEOREM PushesAreUnique == ASSUME Assumptions PROVE Spec => []PushedOnceAndInScope
<1>1. IInv => PushedOnceAndInScope
  BY DEF IInv
<1> QED BY <1>1, Invariance, PTL
=============================================================================
