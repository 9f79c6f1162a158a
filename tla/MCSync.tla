------------------------------- MODULE MCSync -------------------------------
(***************************************************************************)
(* The parts of the sync peer, each in instances for TLC: exchanges        *)
(* (SyncSession), pushes (SyncSubscription), operations that wait for      *)
(* proofs (PendingOps) and the stores of proof material (MaterialStore);   *)
(* and an application that drives it, the playground (PlaygroundLive,      *)
(* PlaygroundPush).  They share no state; a behaviour belongs to one part, *)
(* chosen at the start, and the variables of the others stay as they are.  *)
(* Parts with proof modules are instances of those, so that MCSyncProofs   *)
(* can carry the theorems over to these properties.                        *)
(***************************************************************************)
EXTENDS MaterialCalls, FiniteSets, TLC

CONSTANTS Parts,                        \* the parts that are checked
          all, scoped, fa, fb,          \* subscribers and filters
          batch, retry, hello, local,   \* activities that use the stores
          server, neighbour, parent,    \* the peers of the playground, a live parent
          Edit, EditSetUps              \* local edits, set-ups of the hook that pushes them

VARIABLES part,
          store, chan, call, sessions, awaiting, sending, queue, promised,
          held, unnotified, listing, subs, push, loop, toR, toS, client, got, pushes,
          ended, listed,
          applied, pending, batches, handler, pass, session, received,
          disk, tx, job, locks, forwarded,
          setups, alive, socket, conn, ready, wanted, liveSubs, started, attempts, syncJob, auto,
          epoch, up, online, remote, wantsLive, hints, loops, fate

exchange == <<store, chan, call, sessions, awaiting, sending, queue, promised>>
pushing == <<held, unnotified, listing, subs, push, loop, toR, toS, client, got, pushes,
             ended, listed>>
waiting == <<applied, pending, batches, handler, pass, session, received>>
material == <<disk, tx, job, locks, forwarded>>
live == <<setups, alive, socket, conn, ready, wanted, liveSubs, started, attempts, syncJob, auto>>
edits == <<epoch, up, online, remote, wantsLive, hints, loops, fate>>

-----------------------------------------------------------------------------
(* Exchanges between an initiator "i" and a responder "r". *)

Both(i, r) == [p \in {"i", "r"} |-> IF p = "i" THEN i ELSE r]
Codewords == Both(3, 3)

\* One side empty, both empty, and differences in both directions; refused Hellos,
\* concurrent writers and late messages of a first call.
Exchange == INSTANCE SyncSessionProofs WITH
    Op <- 1..3,
    InitialStores <- {Both({}, {1}), Both({}, {1, 2}), Both({1, 2}, {}), Both({}, {}),
                      Both({1}, {2, 3}), Both({1, 2}, {2}), Both({1, 2}, {1, 2})},
    FilterIsAll <- TRUE, Sendable <- Both(1..3, 1..3), Invalid <- Both({}, {}),
    HelloMayFail <- TRUE, Threshold <- 1, BatchSize <- 1, PerMessage <- 1,
    MaxCodewords <- Codewords, MaxSyncs <- 2

\* The initiator refuses operation 3 and the responder operation 1; a second call
\* follows the failed one.
Refusal == INSTANCE SyncSessionProofs WITH
    Op <- 1..3,
    InitialStores <- {Both({1, 2}, {3}), Both({2}, {}), Both({1, 2}, {})},
    FilterIsAll <- TRUE, Sendable <- Both(1..3, 1..3), Invalid <- Both({3}, {1}),
    HelloMayFail <- FALSE, Threshold <- 1, BatchSize <- 1, PerMessage <- 1,
    MaxCodewords <- Codewords, MaxSyncs <- 2

\* filterOutgoingOps hides operation 2 of the responder.
Hiding == INSTANCE SyncSession WITH
    Op <- 1..3, InitialStores <- {Both({1}, {2, 3}), Both({1, 2}, {3})},
    FilterIsAll <- TRUE, Sendable <- Both(1..3, {1, 3}), Invalid <- Both({}, {}),
    HelloMayFail <- FALSE, Threshold <- 1, BatchSize <- 1, PerMessage <- 1,
    MaxCodewords <- Codewords, MaxSyncs <- 2

-----------------------------------------------------------------------------
(* A subscriber to everything, and an established one whose filter does not *)
(* select operation 3.                                                      *)

Pushing == INSTANCE SyncSubscriptionProofs WITH
    store <- held, Op <- 1..3, Old <- {1}, Sub <- {all, scoped}, Live <- {scoped},
    Matches <- (all :> 1..3 @@ scoped :> 1..2), Everything <- {all}, Sendable <- 1..3,
    BatchSize <- 1, Immediately <- {}, Interval <- FALSE, MayRefuse <- FALSE,
    MayBreak <- FALSE

-----------------------------------------------------------------------------
(* A chain of operations, each the context of the next. *)

Context(o) == IF o = 1 THEN {} ELSE {o - 1}

\* Batches for two filters, with refusals and restarts.
Waiting ==
    [ops |-> 1..3, needs |-> [o \in 1..3 |-> Context(o)], bad |-> {3}, filters |-> {fa, fb},
     batches |-> 3, size |-> 2, rounds |-> 2,
     refuse |-> TRUE, crash |-> TRUE, serve |-> FALSE]

\* Batches for two filters and nothing that goes wrong; sessions that list and fetch.
Serving ==
    [ops |-> 1..2, needs |-> [o \in 1..2 |-> Context(o)], bad |-> {}, filters |-> {fa, fb},
     batches |-> 2, size |-> 1, rounds |-> 3,
     refuse |-> FALSE, crash |-> FALSE, serve |-> TRUE]

Holding(s) == INSTANCE PendingOps WITH
    queue <- batches, Op <- s.ops, Needs <- s.needs, Bad <- s.bad,
    Filter <- s.filters, MaxBatches <- s.batches, BatchSize <- s.size, MaxRounds <- s.rounds,
    MayRefuse <- s.refuse, MayCrash <- s.crash, MayServe <- s.serve

-----------------------------------------------------------------------------
(* A batch that stores signatures, sets one operation aside and appends the *)
(* other; a retry that applies and deletes a pending operation; the         *)
(* capabilities of a Hello; a local operation.                              *)

Put(k, v) == [key |-> k, value |-> v]

Sqlite ==
    batch :> <<StoreOpAuth(<<Put(1, 1), Put(2, 1), Put(1, 2)>>), StorePendingOps(<<Put(2, 1)>>),
               AppendOps(<<Put(1, 1)>>)>>
    @@ retry :> <<StoreOpAuth(<<Put(3, 1)>>), AppendOps(<<Put(3, 1), Put(3, 1)>>),
                  DeletePendingOps(<<3, 2>>)>>
    @@ hello :> <<StoreCapabilities(<<Put(1, 1), Put(2, 1)>>)>>
    @@ local :> <<LocalOp(4)>>

Postgres ==
    batch :> <<PgStoreOpAuth(<<Put(1, 1), Put(2, 1), Put(1, 2)>>),
               PgStorePendingOps(<<Put(2, 1), Put(2, 2)>>), PgAppendOps(<<Put(1, 1)>>)>>
    @@ retry :> <<PgStoreOpAuth(<<Put(3, 1)>>), PgAppendOps(<<Put(3, 1)>>),
                  PgDeletePendingOps(<<3, 2>>)>>
    @@ hello :> <<PgStoreCapabilities(<<Put(1, 1), Put(2, 1), Put(1, 2)>>),
                  PgDeletePendingOps(<<2>>)>>

OnSqlite == INSTANCE MaterialStoreProofs WITH
    Job <- DOMAIN Sqlite, Program <- Sqlite, MaxBulk <- 1, MayFail <- TRUE, MayCrash <- TRUE
OnPostgres == INSTANCE MaterialStoreProofs WITH
    Job <- DOMAIN Postgres, Program <- Postgres, MaxBulk <- 1, MayFail <- TRUE, MayCrash <- TRUE

-----------------------------------------------------------------------------
(* The hooks of the playground: the server with two scopes, the server      *)
(* beside a mesh peer, and the push of local edits.                         *)

Playground(mesh, parents) == INSTANCE PlaygroundLive WITH
    subs <- liveSubs, job <- syncJob, Mesh <- mesh, Remote <- server, Parents <- parents,
    MaxAutoAttempts <- 1, MaxSetUps <- 2
Edits == INSTANCE PlaygroundPush WITH
    setups <- epoch, alive <- up, queue <- hints, Op <- Edit, MaxSetUps <- EditSetUps

-----------------------------------------------------------------------------
ASSUME MCSyncAssumption ==
       /\ Exchange!Assumptions /\ Refusal!Assumptions /\ Hiding!Assumptions
       /\ Pushing!Assumptions /\ Holding(Waiting)!Assumptions /\ Holding(Serving)!Assumptions
       /\ OnSqlite!Assumptions /\ OnSqlite!SignaturesFirst
       /\ OnPostgres!Assumptions /\ OnPostgres!SignaturesFirst
       /\ Playground({}, {parent})!Assumptions /\ Playground({neighbour}, {})!Assumptions

Init ==
    /\ part \in Parts
    /\ CASE part = "exchange" -> Exchange!Init
         [] part = "refusal" -> Refusal!Init
         [] part = "hiding" -> Hiding!Init
         [] OTHER -> Exchange!Init /\ store = Both({}, {})
    /\ Pushing!Init
    /\ IF part = "serving" THEN Holding(Serving)!Init ELSE Holding(Waiting)!Init
    /\ IF part = "postgres" THEN OnPostgres!Init ELSE OnSqlite!Init
    /\ IF part = "mesh" THEN Playground({neighbour}, {})!Init ELSE Playground({}, {parent})!Init
    /\ Edits!Init

Next ==
    /\ UNCHANGED part
    /\ \/ /\ \/ part = "exchange" /\ Exchange!Next
             \/ part = "refusal" /\ Refusal!Next
             \/ part = "hiding" /\ Hiding!Next
          /\ UNCHANGED <<pushing, waiting, material, live, edits>>
       \/ /\ part = "pushing" /\ Pushing!Next
          /\ UNCHANGED <<exchange, waiting, material, live, edits>>
       \/ /\ \/ part = "waiting" /\ Holding(Waiting)!Next
             \/ part = "serving" /\ Holding(Serving)!Next
          /\ UNCHANGED <<exchange, pushing, material, live, edits>>
       \/ /\ \/ part = "sqlite" /\ OnSqlite!Next
             \/ part = "postgres" /\ OnPostgres!Next
          /\ UNCHANGED <<exchange, pushing, waiting, live, edits>>
       \/ /\ \/ part = "server" /\ Playground({}, {parent})!Next
             \/ part = "mesh" /\ Playground({neighbour}, {})!Next
          /\ UNCHANGED <<exchange, pushing, waiting, material, edits>>
       \/ /\ part = "edits" /\ Edits!Next
          /\ UNCHANGED <<exchange, pushing, waiting, material, live>>

Spec == Init /\ [][Next]_<<part, exchange, pushing, waiting, material, live, edits>>

-----------------------------------------------------------------------------
(* Properties. *)

\* A call of syncOnce that returned has its upload stored by the responder, also when
\* batches are refused; once its messages are handled both sides hold what was to be
\* exchanged, and the responder keeps no session and no awaited acknowledgement of it.
SuccessIsComplete ==
    /\ Exchange!UploadIsDurable
    /\ part = "exchange" => Exchange!BothSidesComplete /\ Exchange!NothingLeftBehind

\* The comment at onOpsBatch: an acknowledged upload has been durably handled.
UploadIsDurable == Exchange!UploadIsDurable

\* sentOpRefs of pushSubscription is exact: what it holds has arrived or is on its way,
\* and nothing is pushed twice or outside the filter.
SentIsDelivered ==
    part = "pushing" => Pushing!SentIsDelivered /\ Pushing!PushedOnceAndInScope

\* Between listing, registration, notifyLocalUpdate and runPushLoop nothing is forgotten.
NothingForgotten == part = "pushing" => Pushing!NothingForgotten

\* onOpsBatch and reprocessPendingOps apply nothing before its scope check answers.
AppliedIsAuthorized ==
    /\ part = "waiting" => Holding(Waiting)!AppliedIsAuthorized
    /\ part = "serving" => Holding(Serving)!AppliedIsAuthorized

\* Operations reported by listOpRefs survive retries and restarts, unless denied.
HeldIsKept ==
    [][IF part = "serving" THEN Holding(Serving)!HeldStep ELSE Holding(Waiting)!HeldStep]_waiting

\* The comment at reprocessPendingOps: every applyOps is followed by a retry.
UnlockedWhenQuiet == part = "serving" => Holding(Serving)!UnlockedWhenQuiet

\* A call of the stores is all or nothing on disk, with the last value of each key.
CallsAreAtomic ==
    [][IF part = "postgres" THEN OnPostgres!AtomicStep ELSE OnSqlite!AtomicStep]_material

\* The stores leave no transaction open on the shared connection, and a peer that
\* stores signatures first can forward every operation it holds.
MaterialIsSound ==
    /\ part = "postgres" => OnPostgres!ForwardsWhatItHolds
    /\ part = "sqlite" => OnSqlite!TransactionHasOwner /\ OnSqlite!ForwardsWhatItHolds

\* usePlaygroundSync: no live subscription outlives its connection, scope or entry.
NoOrphanSubscription ==
    /\ part = "server" => Playground({}, {parent})!NoOrphanSubscription
    /\ part = "mesh" => Playground({neighbour}, {})!NoOrphanSubscription

\* usePlaygroundSync: a local edit stays queued for the server until a loop pushes it.
HintsAreNotLost == part = "edits" => Edits!HintsAreNotLost

\* The comment at onOpsBatch again: a returned append is on disk.
ReturnedIsDurable == [][part = "sqlite" => OnSqlite!DurableStep]_material

-----------------------------------------------------------------------------
(* Statements of the documentation and of the tests that do not hold.      *)

\* docs/sync/v0.md: done ends the stream, so a returned call has received everything.
DownloadIsComplete == part = "exchange" => Exchange!DownloadIsComplete

\* docs/sync/v0.md: Unsubscribe terminates the subscription.
UnsubscribeTerminates == part = "pushing" => Pushing!UnsubscribeTerminates

\* What listOpRefs names, getOpsByOpRefs returns.
ListedIsServed == part = "serving" => Holding(Serving)!ListedIsServed
=============================================================================
