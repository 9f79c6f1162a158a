----------------------------- MODULE SyncSession -----------------------------
(***************************************************************************)
(* One-shot synchronization of two sync peers, packages/sync/protocol/src/ *)
(* sync.ts: SyncPeer.syncOnce on the initiator "i", the Hello, codeword    *)
(* and batch handlers on the responder "r", over an ordered transport.     *)
(*                                                                         *)
(* Steps are the stretches of code between two awaits.  Messages are       *)
(* handled one after the other up to their first await; batches of one     *)
(* filter are then applied one after the other (opsBatchQueues), at any    *)
(* later time.  A filter id is the number of the call of syncOnce.         *)
(***************************************************************************)
EXTENDS Integers, FiniteSets, Sequences, SequencesExt, FiniteSetsExt

CONSTANTS
    Op,             \* operations
    InitialStores,  \* the stores two peers may start with
    FilterIsAll,    \* the filter is { all: true }
    Sendable,       \* per peer the operations its filterOutgoingOps lets pass
    Invalid,        \* per peer the operations its verifyOps throws on
    HelloMayFail,   \* the responder's auth may refuse a Hello or its filter
    Threshold,      \* directSendThreshold of the responder
    BatchSize,      \* maxOpsPerBatch
    PerMessage,     \* codewordsPerMessage
    MaxCodewords,   \* per peer the bound on codewords
    MaxSyncs        \* bound: calls of syncOnce

Assumptions ==
    /\ FilterIsAll \in BOOLEAN /\ HelloMayFail \in BOOLEAN
    /\ Sendable \in [{"i", "r"} -> SUBSET Op]
    /\ Invalid \in [{"i", "r"} -> SUBSET Op]
    /\ InitialStores \subseteq [{"i", "r"} -> SUBSET Op]
    /\ Threshold \in Nat /\ MaxSyncs \in Nat
    /\ BatchSize \in Nat \ {0} /\ PerMessage \in Nat \ {0}
    /\ MaxCodewords \in [{"i", "r"} -> Nat \ {0}]

VARIABLES
    store,      \* per peer the operations its backend holds
    chan,       \* per peer the messages on their way to it
    call,       \* the initiator's session: InitiatorSession and where syncOnce is
    sessions,   \* per filter id the ResponderSession, or NoSession
    awaiting,   \* responderAwaitingUploadAcks
    sending,    \* per filter id what sendOpsBatches of the responder still sends
    queue,      \* per peer and filter id the batches of opsBatchQueues
    promised    \* history: per peer what the call must bring it

vars == <<store, chan, call, sessions, awaiting, sending, queue, promised>>

Peer == {"i", "r"}
Id == 1 .. MaxSyncs
Other(p) == IF p = "i" THEN "r" ELSE "i"
NoSession == [local |-> {}, expected |-> 0, incoming |-> FALSE, open |-> FALSE]

\* A deferred promise is pending, resolved or rejected; the first of the two wins.
Settle(promise, value) == IF promise = "pending" THEN value ELSE promise

\* The fields of an InitiatorSession, with syncOnce at `at`.
NewCall(id, empty) ==
    [id |-> id, at |-> "ack", empty |-> empty, mode |-> "riblt", refs |-> {},
     ack |-> "pending", status |-> "pending", received |-> "pending",
     missing |-> {}, credits |-> 1, next |-> 0, awaitingUploadAck |-> FALSE,
     done |-> FALSE]

Init ==
    /\ store \in InitialStores
    /\ chan = [p \in Peer |-> <<>>]
    /\ call = [NewCall(0, TRUE) EXCEPT !.at = "none"]
    /\ sessions = [id \in Id |-> NoSession]
    /\ awaiting = {}
    /\ sending = [id \in Id |-> [refs |-> {}, active |-> FALSE]]
    /\ queue = [p \in Peer |-> [id \in Id |-> <<>>]]
    /\ promised = [p \in Peer |-> {}]

Batch(id, ops, done) == [type |-> "opsBatch", id |-> id, ops |-> ops, done |-> done]
Status(id, kind, receiverMissing) ==
    [type |-> "ribltStatus", id |-> id, kind |-> kind, missing |-> receiverMissing]
SendTo(p, msgs) == [chan EXCEPT ![p] = @ \o msgs]

\* The initiator's session is in its map until syncOnce ends or an error removes it.
Registered(id) == call.id = id /\ call.at \notin {"none", "ok", "failed"}

\* One pass of the loop of sendOpsBatches: the next chunk, what filterOutgoingOps
\* leaves of it, and the messages for it.  An empty last chunk is a bare done.
Chunks(refs) == kSubset(IF Cardinality(refs) < BatchSize THEN Cardinality(refs)
                        ELSE BatchSize, refs)
ChunkMessages(p, id, chunk, refs) ==
    LET ops == chunk \cap Sendable[p]
        done == chunk = refs
    IN  IF ops # {} \/ done THEN << Batch(id, ops, done) >> ELSE <<>>

-----------------------------------------------------------------------------
(* The initiator: syncOnce. *)

\* The listing, the capabilities and Hello.  Only a peer without operations asks
\* for a direct send.
SyncOnce ==
    /\ call.at \in {"none", "ok", "failed"} /\ call.id < MaxSyncs
    /\ LET id == call.id + 1
           empty == store["i"] = {}
       IN  /\ call' = NewCall(id, empty)
           /\ chan' = SendTo("r", << [type |-> "hello", id |-> id, request |-> empty] >>)
    /\ promised' = [p \in Peer |-> {}]
    /\ UNCHANGED <<store, sessions, awaiting, sending, queue>>

\* After the ack: wait for a direct send, or list again and upload or reconcile.
AfterAck ==
    /\ call.at = "ack" /\ call.ack = "resolved"
    /\ LET refs == store["i"] \cap Sendable["i"]
       IN  IF call.empty /\ call.mode = "direct"
           THEN call' = [call EXCEPT !.at = "receive"]
           ELSE IF call.mode = "empty"
           THEN call' = [call EXCEPT !.at = "upload", !.refs = refs, !.missing = refs,
                                     !.awaitingUploadAck = TRUE]
           ELSE call' = [call EXCEPT !.at = "riblt", !.refs = refs]
    /\ promised' = IF call.mode = "empty"
                   THEN [promised EXCEPT !["r"] = store["i"] \cap Sendable["i"]] ELSE promised
    /\ UNCHANGED <<store, chan, sessions, awaiting, sending, queue>>

HasCredit == call.credits > 0

\* One message of codewords, while there is a credit.
SendCodewords ==
    /\ call.at = "riblt" /\ ~call.done
    /\ call.next < MaxCodewords["i"] /\ HasCredit
    /\ LET n == Min({PerMessage, MaxCodewords["i"] - call.next})
       IN  /\ call' = [call EXCEPT !.credits = @ - 1, !.next = @ + n]
           /\ chan' = SendTo("r", << [type |-> "ribltCodewords", id |-> call.id,
                                      start |-> call.next, n |-> n, refs |-> call.refs] >>)
    /\ UNCHANGED <<store, sessions, awaiting, sending, queue, promised>>

\* The loop has sent its last codeword without a terminal status.
GiveUp ==
    /\ call.at = "riblt" /\ ~call.done /\ call.next >= MaxCodewords["i"]
    /\ call' = [call EXCEPT !.at = "failed"]
    /\ UNCHANGED <<store, chan, sessions, awaiting, sending, queue, promised>>

\* The terminal status: upload what the responder misses.
AfterStatus ==
    /\ call.at = "riblt" /\ call.done /\ call.status = "decoded"
    /\ call' = [call EXCEPT !.at = "upload"]
    /\ UNCHANGED <<store, chan, sessions, awaiting, sending, queue, promised>>

\* sendOpsBatches of the initiator, one chunk; nothing to send is a bare done.
Upload ==
    /\ call.at = "upload"
    /\ \E chunk \in Chunks(call.missing) :
          /\ chan' = SendTo("r", ChunkMessages("i", call.id, chunk, call.missing))
          /\ call' = [call EXCEPT !.missing = @ \ chunk,
                                  !.at = IF chunk = call.missing THEN "receive" ELSE "upload"]
    /\ UNCHANGED <<store, sessions, awaiting, sending, queue, promised>>

\* syncOnce returns, or throws at the await of a rejected promise.
Return ==
    /\ \/ /\ call.at = "receive" /\ call.received = "resolved"
          /\ call' = [call EXCEPT !.at = "ok"]
       \/ /\ \/ call.at = "ack" /\ call.ack = "rejected"
             \/ call.at = "riblt" /\ call.done /\ call.status \in {"rejected", "failed"}
             \/ call.at = "receive" /\ call.received = "rejected"
          /\ call' = [call EXCEPT !.at = "failed"]
    /\ UNCHANGED <<store, chan, sessions, awaiting, sending, queue, promised>>

-----------------------------------------------------------------------------
(* Handlers. *)

Head_(p, type) == chan[p] # <<>> /\ Head(chan[p]).type = type
Reply(p, msgs) == [chan EXCEPT ![p] = Tail(@), ![Other(p)] = @ \o msgs]

\* onHello up to the listing: the auth hook refuses the Hello (an error without a
\* filter), or the filter is rejected.
RefuseHello ==
    /\ Head_("r", "hello") /\ HelloMayFail
    /\ LET id == Head(chan["r"]).id
       IN  chan' \in { Reply("r", << [type |-> "error", id |-> 0] >>),
                       Reply("r", << [type |-> "helloAck", id |-> id, accepted |-> FALSE,
                                      mode |-> "riblt"] >>) }
    /\ UNCHANGED <<store, call, sessions, awaiting, sending, queue, promised>>

\* The listing of the filter; only a scoped one is narrowed to what the peer may see.
LocalRefs == IF FilterIsAll THEN store["r"] ELSE store["r"] \cap Sendable["r"]

\* onHello for an accepted filter: send directly, let the peer upload to an empty
\* receiver, or reconcile.
OnHello ==
    /\ Head_("r", "hello")
    /\ LET m == Head(chan["r"])
           Ack(mode) == Reply("r", << [type |-> "helloAck", id |-> m.id, accepted |-> TRUE,
                                       mode |-> mode] >>)
           direct == Threshold > 0 /\ m.request /\ Cardinality(LocalRefs) <= Threshold
       IN  \/ /\ direct
              /\ chan' = Ack("direct")
              /\ sending' = [sending EXCEPT ![m.id] = [refs |-> LocalRefs, active |-> TRUE]]
              /\ UNCHANGED <<sessions, awaiting>>
           \/ /\ ~direct /\ LocalRefs = {}
              /\ chan' = Ack("empty")
              /\ awaiting' = awaiting \cup {m.id}
              /\ UNCHANGED <<sessions, sending>>
           \/ /\ ~direct /\ LocalRefs # {}
              /\ chan' = Ack("riblt")
              /\ sessions' = [sessions EXCEPT ![m.id] =
                                [local |-> LocalRefs, expected |-> 0,
                                 incoming |-> FALSE, open |-> TRUE]]
              /\ UNCHANGED <<awaiting, sending>>
    /\ promised' = [promised EXCEPT !["i"] = store["r"] \cap Sendable["r"]]
    /\ UNCHANGED <<store, call, queue>>

\* onHelloAck: the accepted filter resolves the ack, a rejected one rejects it.
OnHelloAck ==
    /\ Head_("i", "helloAck")
    /\ LET m == Head(chan["i"])
       IN  call' = IF Registered(m.id)
                   THEN [call EXCEPT !.ack = Settle(@, IF m.accepted THEN "resolved"
                                                       ELSE "rejected"),
                                     !.mode = m.mode]
                   ELSE call
    /\ chan' = Reply("i", <<>>)
    /\ UNCHANGED <<store, sessions, awaiting, sending, queue, promised>>

\* onRibltCodewords.  The decoder (external) may decode once it has as many codewords
\* as the two sets differ in, may need more, or may throw.
OnRibltCodewords ==
    /\ Head_("r", "ribltCodewords")
    /\ LET m == Head(chan["r"])
           s == sessions[m.id]
           expected == Min({s.expected + m.n, MaxCodewords["r"]})
           receiverMissing == m.refs \ s.local
           senderMissing == s.local \ m.refs
           Fail == /\ chan' = Reply("r", << Status(m.id, "failed", {}) >>)
                   /\ sessions' = [sessions EXCEPT ![m.id] = NoSession]
                   /\ UNCHANGED sending
           More == /\ expected < MaxCodewords["r"]
                   /\ chan' = Reply("r", << Status(m.id, "more", {}) >>)
                   /\ sessions' = [sessions EXCEPT ![m.id].expected = expected]
                   /\ UNCHANGED sending
           Decoded ==
              /\ expected >= Cardinality(receiverMissing \cup senderMissing)
              /\ LET bare == senderMissing = {} /\ receiverMissing = {}
                     status == Status(m.id, "decoded", receiverMissing)
                 IN  /\ chan' = Reply("r", IF bare THEN << status, Batch(m.id, {}, TRUE) >>
                                           ELSE << status >>)
                     /\ sending' = [sending EXCEPT ![m.id] =
                                      [refs |-> senderMissing, active |-> senderMissing # {}]]
                     /\ sessions' = [sessions EXCEPT ![m.id] =
                           IF bare THEN NoSession
                           ELSE [s EXCEPT !.expected = expected,
                                          !.incoming = receiverMissing # {}]]
       IN  IF ~s.open
           THEN chan' = Reply("r", <<>>) /\ UNCHANGED <<sessions, sending>>
           ELSE IF m.start # s.expected THEN Fail
           ELSE Fail \/ More \/ Decoded
    /\ UNCHANGED <<store, call, awaiting, queue, promised>>

\* sendOpsBatches of the responder, one chunk.  After the last one the session of a
\* reconciliation is closed unless uploads are still awaited.
SendMissing(id) ==
    /\ sending[id].active
    /\ \E chunk \in Chunks(sending[id].refs) :
          LET last == chunk = sending[id].refs
          IN  /\ chan' = SendTo("i", ChunkMessages("r", id, chunk, sending[id].refs))
              /\ sending' = [sending EXCEPT ![id] = [refs |-> @.refs \ chunk, active |-> ~last]]
              /\ sessions' = IF last /\ ~sessions[id].incoming
                             THEN [sessions EXCEPT ![id] = NoSession] ELSE sessions
    /\ UNCHANGED <<store, call, awaiting, queue, promised>>

\* Fault variant: the status "more" adds no credit.
CreditedNothing(credits) == credits
Credited(credits) == credits + 1

\* onRibltStatus: a credit, or the terminal status of the session.
OnRibltStatus ==
    /\ Head_("i", "ribltStatus")
    /\ LET m == Head(chan["i"])
       IN  /\ call' = IF ~Registered(m.id) \/ call.done THEN call
                      ELSE IF m.kind = "more" THEN [call EXCEPT !.credits = Credited(@)]
                      ELSE [call EXCEPT !.done = TRUE, !.missing = m.missing,
                                        !.status = Settle(@, m.kind),
                                        !.awaitingUploadAck = m.missing # {}]
           /\ promised' = IF Registered(m.id) /\ ~call.done /\ m.kind = "decoded"
                          THEN [promised EXCEPT !["r"] = m.missing] ELSE promised
    /\ chan' = Reply("i", <<>>)
    /\ UNCHANGED <<store, sessions, awaiting, sending, queue>>

Enqueued(p, m) == [queue EXCEPT ![p][m.id] = Append(@, m)]

\* enqueueOpsBatch: batches of one filter are applied in the order of their arrival.
EnqueueOpsBatch(p) ==
    /\ Head_(p, "opsBatch")
    /\ queue' = Enqueued(p, Head(chan[p]))
    /\ chan' = Reply(p, <<>>)
    /\ UNCHANGED <<store, call, sessions, awaiting, sending, promised>>

\* The initiator's session is rejected: onError for one filter or for all of them.
RejectCall ==
    [call EXCEPT !.done = TRUE, !.ack = Settle(@, "rejected"),
                 !.status = Settle(@, "rejected"), !.received = Settle(@, "rejected")]

Closed(id) == [sessions EXCEPT ![id] = NoSession]

\* onOpsBatch at the responder: the acknowledgement of an upload is a bare done.
OnOpsBatchResponder(id) ==
    /\ queue["r"][id] # <<>>
    /\ queue' = [queue EXCEPT !["r"][id] = Tail(@)]
    /\ LET m == Head(queue["r"][id])
           s == sessions[id]
           acknowledge == m.done /\ (IF s.open THEN s.incoming ELSE id \in awaiting)
       IN  IF m.ops \cap Invalid["r"] # {}
           THEN /\ chan' = SendTo("i", << [type |-> "error", id |-> id] >>)
                /\ UNCHANGED <<store, sessions, awaiting>>
           ELSE /\ store' = [store EXCEPT !["r"] = @ \cup m.ops]
                /\ chan' = IF acknowledge THEN SendTo("i", << Batch(id, {}, TRUE) >>) ELSE chan
                /\ awaiting' = IF m.done /\ ~s.open THEN awaiting \ {id} ELSE awaiting
                /\ sessions' = IF m.done /\ s.open
                               THEN Closed(id) ELSE sessions
    /\ UNCHANGED <<call, sending, promised>>

\* Fault variant: any done completes the call.
CompletesCallAtDone(m) == m.done

\* onOpsBatch at the initiator: done completes the call, unless an upload is not
\* acknowledged yet, which a bare done is taken for.
CompletesCall(m) == m.done /\ (~call.awaitingUploadAck \/ m.ops = {})
OnOpsBatchInitiator(id) ==
    /\ queue["i"][id] # <<>>
    /\ queue' = [queue EXCEPT !["i"][id] = Tail(@)]
    /\ LET m == Head(queue["i"][id])
       IN  IF m.ops \cap Invalid["i"] # {}
           THEN /\ call' = IF Registered(id) THEN RejectCall ELSE call
                /\ chan' = SendTo("r", << [type |-> "error", id |-> id] >>)
                /\ UNCHANGED store
           ELSE /\ store' = [store EXCEPT !["i"] = @ \cup m.ops]
                /\ call' = IF Registered(id) /\ CompletesCall(m)
                           THEN [call EXCEPT !.received = Settle(@, "resolved")] ELSE call
                /\ UNCHANGED chan
    /\ UNCHANGED <<sessions, awaiting, sending, promised>>

\* onError: with a filter id (not 0) it rejects that session, without one every
\* session.  The responder has no session of its own to reject.
OnError(p) ==
    /\ Head_(p, "error")
    /\ LET m == Head(chan[p])
       IN  call' = IF p = "i" /\ (Registered(m.id) \/ (m.id = 0 /\ Registered(call.id)))
                   THEN RejectCall ELSE call
    /\ chan' = Reply(p, <<>>)
    /\ UNCHANGED <<store, sessions, awaiting, sending, queue, promised>>

\* Another writer stores an operation in a peer's backend.
LocalWrite(p) ==
    /\ \E o \in Op \ (store["i"] \cup store["r"]) :
          store' = [store EXCEPT ![p] = @ \cup {o}]
    /\ UNCHANGED <<chan, call, sessions, awaiting, sending, queue, promised>>

Protocol ==
    \/ AfterAck \/ SendCodewords \/ GiveUp \/ AfterStatus \/ Upload \/ Return
    \/ RefuseHello \/ OnHello \/ OnHelloAck \/ OnRibltCodewords \/ OnRibltStatus
    \/ \E p \in Peer : EnqueueOpsBatch(p) \/ OnError(p)
    \/ \E id \in Id : SendMissing(id) \/ OnOpsBatchResponder(id) \/ OnOpsBatchInitiator(id)

Next == SyncOnce \/ Protocol \/ \E p \in Peer : LocalWrite(p)

Spec == Init /\ [][Next]_vars
FairSpec == Spec /\ WF_vars(Protocol)

-----------------------------------------------------------------------------
(* Properties. *)

\* Nothing is on its way or being sent or applied.
Quiet ==
    /\ \A p \in Peer : chan[p] = <<>> /\ \A id \in Id : queue[p][id] = <<>>
    /\ \A id \in Id : ~sending[id].active

\* When syncOnce returns, everything it promised to upload is stored by the
\* responder: a refused batch or a batch still queued is never reported as success
\* (the acknowledgement of sync.ts onOpsBatch, "durably handled").
UploadIsDurable == call.at = "ok" => promised["r"] \subseteq store["r"]

\* Once the messages of a successful call have been handled, both sides hold what
\* the call was to exchange, whatever was written meanwhile.
BothSidesComplete ==
    call.at = "ok" /\ Quiet => \A p \in Peer : promised[p] \subseteq store[p]

\* A successful call leaves no session and no awaited acknowledgement behind on the
\* responder (responderSessions, responderAwaitingUploadAcks).
NothingLeftBehind ==
    call.at = "ok" /\ Quiet => ~sessions[call.id].open /\ call.id \notin awaiting

\* docs/sync/v0.md: "`done = true` indicates that the sender has finished sending the
\* current batch stream for that `filter_id`", so a call that returns because of a
\* done has received what the responder sends.
DownloadIsComplete == call.at = "ok" => promised["i"] \subseteq store["i"]

\* Every call of syncOnce returns or throws: no credit, status, done or error is
\* waited for in vain.
SyncOnceSettles ==
    \A id \in Id : call.id = id /\ Registered(id) ~> ~Registered(id)
=============================================================================
