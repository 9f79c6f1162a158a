----------------------------- MODULE MCProgress -----------------------------
(***************************************************************************)
(* What must eventually happen in the sync peer: calls of syncOnce settle, *)
(* stored operations reach live subscribers, batches are finished and the  *)
(* users of the stores end.  A behaviour belongs to one part, chosen at    *)
(* the start.  The event loop runs every continuation that is ready and    *)
(* delivers what was sent: the fair steps are those of the protocol, never *)
(* a write, a new call, a stop or a failure.                               *)
(***************************************************************************)
EXTENDS MaterialCalls, FiniteSets, TLC

CONSTANTS Parts,                       \* the parts that are checked
          all, scoped, fa, fb, batch, retry, hello, local

VARIABLES part,
          store, chan, call, sessions, awaiting, sending, queue, promised,
          held, unnotified, listing, subs, push, loop, toR, toS, client, got, pushes,
          ended, listed,
          applied, pending, batches, handler, pass, session, received,
          disk, tx, job, locks, forwarded

exchange == <<store, chan, call, sessions, awaiting, sending, queue, promised>>
pushing == <<held, unnotified, listing, subs, push, loop, toR, toS, client, got, pushes,
             ended, listed>>
waiting == <<applied, pending, batches, handler, pass, session, received>>
material == <<disk, tx, job, locks, forwarded>>

Both(i, r) == [p \in {"i", "r"} |-> IF p = "i" THEN i ELSE r]

\* A scoped filter that hides an operation of the responder, and refused Hellos.
Exchange == INSTANCE SyncSession WITH
    Op <- 1..3,
    InitialStores <- {Both({}, {1}), Both({}, {1, 2}), Both({1, 2}, {}), Both({}, {}),
                      Both({1}, {2, 3}), Both({1, 2}, {2}), Both({1, 2}, {1, 2})},
    FilterIsAll <- FALSE, Sendable <- Both(1..3, {1, 3}), Invalid <- Both({}, {}),
    HelloMayFail <- TRUE, Threshold <- 1, BatchSize <- 1, PerMessage <- 1,
    MaxCodewords <- Both(4, 3), MaxSyncs <- 1

\* A live subscriber and one that catches up first; either may stop or lose its transport.
Pushing == INSTANCE SyncSubscription WITH
    store <- held, Op <- 1..2, Old <- {1}, Sub <- {all, scoped}, Live <- {scoped},
    Matches <- (all :> 1..2 @@ scoped :> 1..2), Everything <- {all}, Sendable <- {2},
    BatchSize <- 1, Immediately <- {all}, Interval <- FALSE, MayRefuse <- TRUE,
    MayBreak <- TRUE

\* Batches of two filters, the second operation in the context of the first.
Waiting == INSTANCE PendingOps WITH
    queue <- batches, Op <- 1..2, Needs <- <<{}, {1}>>, Bad <- {},
    Filter <- {fa, fb}, MaxBatches <- 3, BatchSize <- 2, MaxRounds <- 3,
    MayRefuse <- TRUE, MayCrash <- FALSE, MayServe <- FALSE

Put(k) == [key |-> k, value |-> 1]

\* Three activities that share the SQLite connection.
Material == INSTANCE MaterialStore WITH
    Job <- {batch, retry, hello},
    Program <- (batch :> <<StoreOpAuth(<<Put(1), Put(2)>>), AppendOps(<<Put(1)>>)>>
                @@ retry :> <<AppendOps(<<Put(3)>>), DeletePendingOps(<<2>>)>>
                @@ hello :> <<StoreCapabilities(<<Put(1)>>)>>),
    MaxBulk <- 1, MayFail <- TRUE, MayCrash <- FALSE

ASSUME /\ Exchange!Assumptions /\ Pushing!Assumptions
       /\ Waiting!Assumptions /\ Material!Assumptions

Init ==
    /\ part \in Parts
    /\ Exchange!Init /\ (part = "exchange" \/ store = Both({}, {}))
    /\ Pushing!Init /\ Waiting!Init /\ Material!Init

Next ==
    /\ UNCHANGED part
    /\ \/ part = "exchange" /\ Exchange!Next /\ UNCHANGED <<pushing, waiting, material>>
       \/ part = "pushing" /\ Pushing!Next /\ UNCHANGED <<exchange, waiting, material>>
       \/ part = "waiting" /\ Waiting!Next /\ UNCHANGED <<exchange, pushing, material>>
       \/ part = "material" /\ Material!Next /\ UNCHANGED <<exchange, pushing, waiting>>

Fairness ==
    /\ WF_exchange(part = "exchange" /\ Exchange!Protocol)
    /\ WF_pushing(part = "pushing" /\ Pushing!Steps)
    /\ \A q \in {fa, fb} : WF_waiting(part = "waiting" /\ Waiting!Step(q))
    /\ WF_waiting(part = "waiting" /\ Waiting!PassStep)
    /\ \A j \in {batch, retry, hello} : WF_material(part = "material" /\ Material!Step(j))

Spec == Init /\ [][Next]_<<part, exchange, pushing, waiting, material>> /\ Fairness

-----------------------------------------------------------------------------
(* Properties. *)

\* syncOnce returns or throws: no credit, status, done or error is awaited in vain.
SyncOnceSettles == Exchange!SyncOnceSettles

\* runPushLoop brings a stored operation to every live subscriber it may be shown to.
EventuallyPushed == Pushing!EventuallyPushed

\* enqueueOpsBatch finishes every batch, also one that joins a pass over the pending
\* operations, and the users of the SQLite connection end outside a transaction.
WorkEnds ==
    /\ Waiting!BatchesFinish
    /\ part = "material" ~> Material!AllEnded
=============================================================================
