-------------------------- MODULE SyncSubscription --------------------------
(***************************************************************************)
(* Live subscriptions of packages/sync/protocol/src/sync.ts: one responder *)
(* with its push loop, and subscribers that subscribe, catch up with       *)
(* syncOnce and stop.  Steps are the stretches of code between two awaits. *)
(* syncOnce is one step here: module SyncSession shows what it brings.     *)
(***************************************************************************)
EXTENDS Integers, FiniteSets, Sequences, FiniteSetsExt

CONSTANTS
    Op,             \* operations
    Old,            \* the operations stored at the start
    Sub,            \* subscription ids, one per subscriber
    Live,           \* the subscriptions established at the start
    Matches,        \* per subscription the operations its filter selects
    Everything,     \* the subscriptions whose filter is { all: true }
    Sendable,       \* the operations filterOutgoingOps lets pass
    BatchSize,      \* maxOpsPerBatch
    Immediately,    \* the subscribers that catch up with syncOnce first (immediate)
    Interval,       \* intervalMs > 0: live subscribers also call syncOnce
    MayRefuse,      \* authorizeFilter may refuse a subscription
    MayBreak        \* a transport may fail

Assumptions ==
    /\ Old \subseteq Op /\ Sendable \subseteq Op /\ BatchSize \in Nat \ {0}
    /\ Matches \in [Sub -> SUBSET Op] /\ Everything \subseteq Sub
    /\ \A s \in Everything : Matches[s] = Op
    /\ Live \subseteq Sub /\ Immediately \subseteq Sub /\ {"idle", "round"} \cap Sub = {}
    /\ Interval \in BOOLEAN /\ MayRefuse \in BOOLEAN /\ MayBreak \in BOOLEAN

VARIABLES
    store,      \* the operations of the responder's backend
    unnotified, \* stored operations whose writer has not called notifyLocalUpdate yet
    listing,    \* per subscription the listing of an onSubscribe that has not registered
    subs,       \* responderSubscriptions: registered, and sentOpRefs
    push,       \* pushScheduled, pushRunning, pushNeedsFullScan, pendingPushOpsByRefHex
    loop,       \* locals of runPushLoop and pushSubscription
    toR, toS,   \* per subscription the messages to the responder and to the subscriber
    client,     \* per subscription where subscribe() is, and whether it is aborted
    got,        \* per subscription the operations the subscriber holds
    pushes,     \* history: how often each operation was pushed on a subscription
    ended,      \* history: subscriptions whose Unsubscribe has been handled
    listed      \* history: per subscription the operations before it, if not caught up

vars == <<store, unnotified, listing, subs, push, loop, toR, toS, client, got, pushes,
          ended, listed>>

None == [refs |-> {}, on |-> FALSE]
NoLoop == [at |-> "idle", visited |-> {}, delta |-> {}, full |-> FALSE, todo |-> {}]
Registered == {s \in Sub : subs[s].on}
Visible(s) == Matches[s] \cap Sendable

Init ==
    /\ store = Old /\ unnotified = {}
    /\ listing = [s \in Sub |-> None]
    /\ subs = [s \in Sub |-> IF s \in Live THEN [refs |-> Old \cap Matches[s], on |-> TRUE]
                             ELSE None]
    /\ push = [scheduled |-> FALSE, running |-> FALSE, full |-> FALSE, ops |-> {}]
    /\ loop = NoLoop
    /\ toR = [s \in Sub |-> <<>>] /\ toS = [s \in Sub |-> <<>>]
    /\ client = [s \in Sub |-> [at |-> IF s \in Live THEN "live" ELSE "new",
                                ack |-> s \in Live, stop |-> FALSE]]
    /\ got = [s \in Sub |-> IF s \in Live THEN Old \cap Visible(s) ELSE {}]
    /\ pushes = [s \in Sub |-> [o \in Op |-> 0]]
    /\ ended = {}
    /\ listed = [s \in Sub |-> {}]

Chunks(refs) == kSubset(Min({Cardinality(refs), BatchSize}), refs)

-----------------------------------------------------------------------------
(* The responder's writers and its push loop. *)

\* A writer stores an operation in the backend.
Write ==
    /\ \E o \in Op \ store : store' = store \cup {o} /\ unnotified' = unnotified \cup {o}
    /\ UNCHANGED <<listing, subs, push, loop, toR, toS, client, got, pushes, ended, listed>>

\* Fault variant: a notification during a round is dropped.
NotifiedUnlessRunning(registered, ops) ==
    IF registered = {} \/ push.running THEN push
    ELSE [scheduled |-> TRUE, running |-> TRUE, full |-> ops = {}, ops |-> ops]

\* notifyLocalUpdate: nothing without subscriptions; else the exact operations or the
\* need of a full scan are recorded, and the loop is started unless it runs.
Notified(registered, ops) ==
    IF registered = {} THEN push
    ELSE [scheduled |-> TRUE, running |-> TRUE, full |-> push.full \/ ops = {},
          ops |-> push.ops \cup ops]
NotifyLocalUpdate ==
    /\ \E o \in unnotified :
          /\ unnotified' = unnotified \ {o}
          /\ \/ push' = Notified(Registered, {o})
             \/ push' = Notified(Registered, {})
    /\ UNCHANGED <<store, listing, subs, loop, toR, toS, client, got, pushes, ended, listed>>

\* runPushLoop: a round takes what was noted; without anything scheduled it ends.
PushRound ==
    /\ push.running /\ loop.at = "idle"
    /\ IF push.scheduled
       THEN /\ loop' = [at |-> "round", visited |-> {}, todo |-> {}, full |-> push.full,
                        delta |-> IF push.full THEN {} ELSE push.ops]
            /\ push' = [push EXCEPT !.scheduled = FALSE, !.full = FALSE, !.ops = {}]
       ELSE push' = [push EXCEPT !.running = FALSE] /\ UNCHANGED loop
    /\ UNCHANGED <<store, unnotified, listing, subs, toR, toS, client, got, pushes, ended, listed>>

\* Only { all: true } may take the exact operations instead of a scan.
UsesDelta(s) == ~loop.full /\ s \in Everything /\ loop.delta # {}

\* pushSubscription, pushSubscriptionDeltaAll: what this subscriber has not been sent.
PushTo(s) ==
    /\ loop.at = "round" /\ s \in Registered \ loop.visited
    /\ LET refs == IF UsesDelta(s) THEN loop.delta ELSE store \cap Matches[s]
           todo == refs \ subs[s].refs
       IN  loop' = [loop EXCEPT !.visited = @ \cup {s}, !.todo = todo,
                                !.at = IF todo = {} THEN "round" ELSE s]
    /\ UNCHANGED <<store, unnotified, listing, subs, push, toR, toS, client, got, pushes, ended, listed>>

\* Fault variant: all that is to be sent is recorded with the first chunk.
RecordedEarly(s, chunk) == [subs EXCEPT ![s].refs = @ \cup loop.todo]
\* sentOpRefs of the subscription after a chunk, filtered operations included.
Recorded(s, chunk) == [subs EXCEPT ![s].refs = @ \cup chunk]

\* One chunk: filtered, sent and recorded.  The subscription may be gone meanwhile; the
\* loop still sends to its transport.
PushChunk(s) ==
    /\ loop.at = s
    /\ \E chunk \in Chunks(loop.todo) :
          LET ops == chunk \cap Sendable
          IN  /\ subs' = IF subs[s].on THEN Recorded(s, chunk) ELSE subs
              /\ toS' = IF ops = {} THEN toS
                        ELSE [toS EXCEPT ![s] = Append(@, [type |-> "opsBatch", ops |-> ops])]
              /\ pushes' = [pushes EXCEPT ![s] = [o \in Op |->
                               IF o \in ops THEN @[o] + 1 ELSE @[o]]]
              /\ loop' = [loop EXCEPT !.todo = @ \ chunk,
                                      !.at = IF chunk = loop.todo THEN "round" ELSE s]
    /\ UNCHANGED <<store, unnotified, listing, push, toR, client, got, ended, listed>>

\* A send or a listing that throws drops the subscription.
PushFails(s) ==
    /\ MayBreak /\ loop.at = s
    /\ subs' = [subs EXCEPT ![s] = None]
    /\ loop' = [loop EXCEPT !.todo = {}, !.at = "round"]
    /\ UNCHANGED <<store, unnotified, listing, push, toR, toS, client, got, pushes, ended, listed>>

\* Every subscription has had its turn.
RoundEnds ==
    /\ loop.at = "round" /\ Registered \subseteq loop.visited
    /\ loop' = NoLoop
    /\ UNCHANGED <<store, unnotified, listing, subs, push, toR, toS, client, got, pushes, ended, listed>>

-----------------------------------------------------------------------------
(* The responder's handlers. *)

HeadIs(q, type) == q # <<>> /\ Head(q).type = type

\* onSubscribe up to the listing, or a refusal.
OnSubscribe(s) ==
    /\ HeadIs(toR[s], "subscribe")
    /\ toR' = [toR EXCEPT ![s] = Tail(@)]
    /\ \/ /\ listing' = [listing EXCEPT ![s] = [refs |-> store \cap Matches[s], on |-> TRUE]]
          /\ listed' = [listed EXCEPT ![s] = IF s \in Immediately THEN {} ELSE store]
          /\ UNCHANGED toS
       \/ /\ MayRefuse
          /\ toS' = [toS EXCEPT ![s] = Append(@, [type |-> "error", ops |-> {}])]
          /\ UNCHANGED <<listing, listed>>
    /\ UNCHANGED <<store, unnotified, subs, push, loop, client, got, pushes, ended>>

\* Fault variant: the registration does not start a scan.
RegistrationNotifiesNot(s) == push
\* void this.notifyLocalUpdate() at the end of onSubscribe.
RegistrationNotifies(s) == Notified(Registered \cup {s}, {})

\* onSubscribe after the listing: register, acknowledge, scan once.
Register(s) ==
    /\ listing[s].on
    /\ subs' = [subs EXCEPT ![s] = listing[s]]
    /\ listing' = [listing EXCEPT ![s] = None]
    /\ toS' = [toS EXCEPT ![s] = Append(@, [type |-> "subscribeAck", ops |-> {}])]
    /\ push' = RegistrationNotifies(s)
    /\ UNCHANGED <<store, unnotified, loop, toR, client, got, pushes, ended, listed>>

\* onUnsubscribe.
OnUnsubscribe(s) ==
    /\ HeadIs(toR[s], "unsubscribe")
    /\ toR' = [toR EXCEPT ![s] = Tail(@)]
    /\ subs' = [subs EXCEPT ![s] = None]
    /\ ended' = ended \cup {s}
    /\ UNCHANGED <<store, unnotified, listing, push, loop, toS, client, got, pushes, listed>>

-----------------------------------------------------------------------------
(* The subscriber. *)

\* subscribe(): the Subscribe message is sent.
Subscribe(s) ==
    /\ client[s].at = "new"
    /\ client' = [client EXCEPT ![s].at = "sent"]
    /\ toR' = [toR EXCEPT ![s] = Append(@, [type |-> "subscribe"])]
    /\ UNCHANGED <<store, unnotified, listing, subs, push, loop, toS, got, pushes, ended, listed>>

\* stop() aborts.
Stop(s) ==
    /\ client[s].at \in {"sent", "syncing", "live"} /\ ~client[s].stop
    /\ client' = [client EXCEPT ![s].stop = TRUE]
    /\ UNCHANGED <<store, unnotified, listing, subs, push, loop, toR, toS, got, pushes, ended, listed>>

\* The ack without an abort: the catch-up starts, if asked for.
Acknowledged(s) ==
    /\ client[s].at = "sent" /\ client[s].ack /\ ~client[s].stop
    /\ client' = [client EXCEPT ![s].at = IF s \in Immediately THEN "syncing" ELSE "live"]
    /\ UNCHANGED <<store, unnotified, listing, subs, push, loop, toR, toS, got, pushes, ended, listed>>

\* syncOnce, the first one or one of the interval.
CatchUp(s) ==
    /\ client[s].at = "syncing" \/ (Interval /\ client[s].at = "live" /\ ~client[s].stop)
    /\ got' = [got EXCEPT ![s] = @ \cup (store \cap Visible(s))]
    /\ client' = [client EXCEPT ![s].at = "live"]
    /\ UNCHANGED <<store, unnotified, listing, subs, push, loop, toR, toS, pushes, ended, listed>>

\* The end of subscribe(): aborted, or a failed syncOnce; Unsubscribe is sent.
Leave(s) ==
    /\ \/ client[s].at \in {"sent", "live"} /\ client[s].stop
       \/ MayBreak /\ client[s].at = "syncing"
    /\ client' = [client EXCEPT ![s].at = "left"]
    /\ toR' = [toR EXCEPT ![s] = Append(@, [type |-> "unsubscribe"])]
    /\ UNCHANGED <<store, unnotified, listing, subs, push, loop, toS, got, pushes, ended, listed>>

\* onSubscribeAck, onOpsBatch and onError of the subscriber; after an error subscribe()
\* throws and sends Unsubscribe.
Receive(s) ==
    /\ toS[s] # <<>>
    /\ toS' = [toS EXCEPT ![s] = Tail(@)]
    /\ got' = [got EXCEPT ![s] = @ \cup Head(toS[s]).ops]
    /\ LET refused == Head(toS[s]).type = "error" /\ client[s].at # "left"
       IN  /\ client' = [client EXCEPT
                 ![s].ack = @ \/ Head(toS[s]).type = "subscribeAck",
                 ![s].at = IF refused THEN "left" ELSE @]
           /\ toR' = IF refused
                     THEN [toR EXCEPT ![s] = Append(@, [type |-> "unsubscribe"])] ELSE toR
    /\ UNCHANGED <<store, unnotified, listing, subs, push, loop, pushes, ended, listed>>

Steps ==
    \/ NotifyLocalUpdate \/ PushRound \/ RoundEnds
    \/ \E s \in Sub :
         PushTo(s) \/ PushChunk(s) \/ OnSubscribe(s) \/ Register(s) \/ OnUnsubscribe(s)
            \/ Acknowledged(s) \/ Receive(s) \/ Leave(s)
            \/ (client[s].at = "syncing" /\ CatchUp(s))

Next ==
    \/ Write \/ NotifyLocalUpdate \/ PushRound \/ RoundEnds
    \/ \E s \in Sub :
         PushTo(s) \/ PushChunk(s) \/ PushFails(s) \/ OnSubscribe(s) \/ Register(s)
            \/ OnUnsubscribe(s) \/ Subscribe(s) \/ Stop(s) \/ Acknowledged(s)
            \/ CatchUp(s) \/ Leave(s) \/ Receive(s)

Spec == Init /\ [][Next]_vars
FairSpec == Spec /\ WF_vars(Steps)

-----------------------------------------------------------------------------
(* Properties. *)

\* The operations of batches that are on their way to a subscriber.
InFlight(s) == UNION { toS[s][i].ops : i \in DOMAIN toS[s] }

\* sentOpRefs never hides an operation: whatever the responder regards as sent to a
\* live subscriber has arrived, is on its way, may not be sent, or was there before a
\* subscription that does not catch up.
SentIsDelivered ==
    \A s \in Sub : subs[s].on /\ client[s].at = "live" =>
        subs[s].refs \cap Visible(s) \subseteq got[s] \cup InFlight(s) \cup listed[s]

\* No operation is forgotten between listing, registration, notification and push:
\* when the loop rests and writers have notified, a live subscriber lacks nothing.
NothingForgotten ==
    \A s \in Sub :
        subs[s].on /\ client[s].at = "live" /\ unnotified = {} /\ ~push.running =>
            store \cap Visible(s) \subseteq got[s] \cup InFlight(s) \cup listed[s]

\* No operation is pushed twice on one subscription, and none outside its filter.
PushedOnceAndInScope ==
    \A s \in Sub, o \in Op :
        pushes[s][o] <= 1 /\ (pushes[s][o] > 0 => o \in Visible(s))

\* docs/sync/v0.md: "`Unsubscribe(subscription_id)` terminates the subscription."
UnsubscribeTerminates == \A s \in ended : ~subs[s].on

\* A stored operation reaches every live subscriber, unless it stops or the responder
\* has dropped the subscription.
EventuallyPushed ==
    \A s \in Sub, o \in Op :
        (client[s].at = "live" /\ subs[s].on /\ o \in store \cap Visible(s))
            ~> (o \in got[s] \/ client[s].stop \/ ~subs[s].on)
=============================================================================
