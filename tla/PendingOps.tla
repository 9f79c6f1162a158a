----------------------------- MODULE PendingOps -----------------------------
(***************************************************************************)
(* Operations that cannot be authorized yet: SyncPeer.onOpsBatch and       *)
(* reprocessPendingOps of packages/sync/protocol/src/sync.ts over the      *)
(* SQLite backend of packages/sync/material/sqlite/src/backend.ts.         *)
(* Batches of one filter are handled one after the other, batches of       *)
(* different filters interleave at every await.                            *)
(***************************************************************************)
EXTENDS Integers, FiniteSets, Sequences

CONSTANTS
    Op,             \* operations
    Needs,          \* per operation the operations that give its scope check an answer
    Bad,            \* operations out of scope, once the check has an answer
    Filter,         \* filter ids, each with its own queue of batches
    MaxBatches,     \* bound on the batches received
    BatchSize,      \* bound on the operations of a batch
    MaxRounds,      \* maxRounds of reprocessPendingOps
    MayRefuse,      \* verifyOps may refuse a batch (signature, author, expiry)
    MayCrash,       \* the process may stop and start again
    MayServe        \* a session lists the references and fetches the operations

Assumptions ==
    /\ Needs \in [Op -> SUBSET Op] /\ Bad \subseteq Op
    /\ MaxBatches \in Nat /\ BatchSize \in Nat /\ MaxRounds \in Nat \ {0}
    /\ MayRefuse \in BOOLEAN /\ MayCrash \in BOOLEAN /\ MayServe \in BOOLEAN

VARIABLES
    applied,    \* the operations of the CRDT store
    pending,    \* the operations of the pending table
    queue,      \* opsBatchQueues: per filter the batches not yet finished
    handler,    \* per filter where onOpsBatch is, and the operations it sorted
    pass,       \* reprocessPendingRunning and the locals of the pass in flight
    session,    \* a session that listed references and then asks for the operations
    received    \* bound: batches received

vars == <<applied, pending, queue, handler, pass, session, received>>

Idle == [at |-> "idle", allow |-> {}, pend |-> {}]
NoPass == [at |-> "off", todo |-> {}, cur |-> {}, progress |-> FALSE, round |-> 0]
NoSession == [at |-> "none", refs |-> {}]

Init ==
    /\ applied = {} /\ pending = {}
    /\ queue = [f \in Filter |-> <<>>]
    /\ handler = [f \in Filter |-> Idle]
    /\ pass = NoPass /\ session = NoSession
    /\ received = 0

\* The scope check of an operation against the tree of this moment.
Verdict(o) ==
    IF ~(Needs[o] \subseteq applied) THEN "pending_context"
    ELSE IF o \in Bad THEN "deny" ELSE "allow"

-----------------------------------------------------------------------------
(* enqueueOpsBatch and onOpsBatch. *)

Receive(f) ==
    /\ received < MaxBatches
    /\ \E ops \in SUBSET Op :
          /\ Cardinality(ops) \in 1..BatchSize
          /\ queue' = [queue EXCEPT ![f] = Append(@, ops)]
    /\ received' = received + 1
    /\ UNCHANGED <<applied, pending, handler, pass, session>>

\* The batch leaves its queue; a later one may start.
Finished(f) == queue' = [queue EXCEPT ![f] = Tail(@)]

\* Fault variant: an undecided operation is allowed when its batch brings the context.
SortedWithBatch(ops) ==
    [at |-> "store", allow |-> {o \in ops : Needs[o] \subseteq applied \cup ops},
     pend |-> {o \in ops : ~(Needs[o] \subseteq applied \cup ops)}]
\* The dispositions of a batch without a denied operation.
Sorted(ops) ==
    [at |-> "store", allow |-> {o \in ops : Verdict(o) = "allow"},
     pend |-> {o \in ops : Verdict(o) = "pending_context"}]

\* verifyOps: one denied operation refuses the batch.
Verify(f) ==
    /\ queue[f] # <<>> /\ handler[f].at = "idle"
    /\ IF \E o \in Head(queue[f]) : Verdict(o) = "deny"
       THEN Finished(f) /\ UNCHANGED handler
       ELSE handler' = [handler EXCEPT ![f] = Sorted(Head(queue[f]))] /\ UNCHANGED queue
    /\ UNCHANGED <<applied, pending, pass, session, received>>

Refuse(f) ==
    /\ MayRefuse /\ queue[f] # <<>> /\ handler[f].at = "idle"
    /\ Finished(f)
    /\ UNCHANGED <<applied, pending, handler, pass, session, received>>

StorePendingOps(f) ==
    /\ handler[f].at = "store"
    /\ pending' = pending \cup handler[f].pend
    /\ handler' = [handler EXCEPT ![f].at = "apply"]
    /\ UNCHANGED <<applied, queue, pass, session, received>>

ApplyOps(f) ==
    /\ handler[f].at = "apply"
    /\ applied' = applied \cup handler[f].allow
    /\ handler' = [handler EXCEPT ![f].at = "retry"]
    /\ UNCHANGED <<pending, queue, pass, session, received>>

\* reprocessPendingOps: join the pass in flight, or start one.
Reprocess(f) ==
    /\ handler[f].at = "retry"
    /\ handler' = [handler EXCEPT ![f].at = "await"]
    /\ pass' = IF pass.at = "off" THEN [NoPass EXCEPT !.at = "list"] ELSE pass
    /\ UNCHANGED <<applied, pending, queue, session, received>>

-----------------------------------------------------------------------------
(* A pass over the pending table. *)

\* Fault variant: the flag that a pass runs stays set.
EndedRunning(p) == [p EXCEPT !.at = "ended"]
\* The pass is over, with or without the error of too many rounds.
Ended(p) == NoPass

\* The pass settles: every batch that awaits it is finished.
Settle ==
    /\ pass' = Ended(pass)
    /\ LET waiting == {f \in Filter : handler[f].at = "await"}
       IN  /\ handler' = [f \in Filter |-> IF f \in waiting THEN Idle ELSE handler[f]]
           /\ queue' = [f \in Filter |-> IF f \in waiting THEN Tail(queue[f]) ELSE queue[f]]

ListPendingOps ==
    /\ pass.at = "list"
    /\ IF pending = {} THEN Settle
       ELSE pass' = [pass EXCEPT !.at = "scan", !.todo = pending, !.progress = FALSE]
            /\ UNCHANGED <<handler, queue>>
    /\ UNCHANGED <<applied, pending, session, received>>

\* Fault variant: every answer of the check removes the operation, as a denial does.
NextStepDrops(o) == IF Verdict(o) = "pending_context" THEN "scan" ELSE "delete"
\* What a verified pending operation goes through next.
NextStep(o) == CASE Verdict(o) = "pending_context" -> "scan"
                 [] Verdict(o) = "deny" -> "delete"
                 [] OTHER -> "apply"

RetryOne ==
    /\ pass.at = "scan"
    /\ \E o \in pass.todo :
          pass' = [pass EXCEPT !.todo = @ \ {o}, !.cur = {o}, !.at = NextStep(o)]
    /\ UNCHANGED <<applied, pending, queue, handler, session, received>>

ApplyOne ==
    /\ pass.at = "apply"
    /\ applied' = applied \cup pass.cur
    /\ pass' = [pass EXCEPT !.at = "delete"]
    /\ UNCHANGED <<pending, queue, handler, session, received>>

DeletePendingOps ==
    /\ pass.at = "delete"
    /\ pending' = pending \ pass.cur
    /\ pass' = [pass EXCEPT !.progress = TRUE, !.at = "scan"]
    /\ UNCHANGED <<applied, queue, handler, session, received>>

\* A round that made progress is followed by another one.
AnotherRound == pass.progress /\ pass.round + 1 < MaxRounds

RoundEnds ==
    /\ pass.at = "scan" /\ pass.todo = {}
    /\ IF AnotherRound
       THEN pass' = [pass EXCEPT !.at = "list", !.round = @ + 1] /\ UNCHANGED <<handler, queue>>
       ELSE Settle
    /\ UNCHANGED <<applied, pending, session, received>>

-----------------------------------------------------------------------------
(* The backend's listing and lookup, and the process. *)

\* listOpRefs({ all }): stored and pending references.
ListOpRefs == applied \cup pending
List ==
    /\ MayServe /\ session.at = "none"
    /\ session' = [at |-> "listed", refs |-> ListOpRefs]
    /\ UNCHANGED <<applied, pending, queue, handler, pass, received>>

\* getOpsByOpRefs looks in the operation log only, and throws when a reference is missing.
GetOpsByOpRefs(refs) == IF refs \subseteq applied THEN "served" ELSE "failed"
Fetch ==
    /\ session.at = "listed"
    /\ session' = [session EXCEPT !.at = GetOpsByOpRefs(session.refs)]
    /\ UNCHANGED <<applied, pending, queue, handler, pass, received>>

\* The tables survive; queues, handlers and the pass do not.
Crash ==
    /\ MayCrash /\ \E f \in Filter : queue[f] # <<>>
    /\ queue' = [f \in Filter |-> <<>>]
    /\ handler' = [f \in Filter |-> Idle]
    /\ pass' = NoPass /\ session' = NoSession
    /\ UNCHANGED <<applied, pending, received>>

Step(f) == Verify(f) \/ StorePendingOps(f) \/ ApplyOps(f) \/ Reprocess(f)
PassStep == ListPendingOps \/ RetryOne \/ ApplyOne \/ DeletePendingOps \/ RoundEnds

Next ==
    \/ \E f \in Filter : Receive(f) \/ Refuse(f) \/ Step(f)
    \/ PassStep \/ List \/ Fetch \/ Crash

Spec == Init /\ [][Next]_vars

\* The event loop runs every continuation that is ready.
Fairness == /\ \A f \in Filter : WF_vars(Step(f))
            /\ WF_vars(PassStep)
FairSpec == Spec /\ Fairness

-----------------------------------------------------------------------------
(* Properties. *)

\* onOpsBatch and reprocessPendingOps never apply an operation before its scope check
\* answered, whatever arrived or was retried meanwhile, and never one out of scope.
AppliedIsAuthorized == \A o \in applied : Needs[o] \subseteq applied /\ o \notin Bad

\* An operation that listOpRefs reports is not lost: through retries and restarts it is
\* pending or applied, unless its scope check denies it.  Peers do not send it again.
HeldStep == \A o \in applied \cup pending : o \in applied' \cup pending' \/ o \in Bad

\* A pass runs or is on its way while a batch waits for it.
Quiet == pass.at = "off" /\ \A f \in Filter : handler[f].at = "idle"

\* When nothing runs, every pending operation still lacks its context: the comment at
\* reprocessPendingOps says that every applyOps is followed by a retry.
UnlockedWhenQuiet == Quiet => \A o \in pending : Verdict(o) = "pending_context"

\* Every batch is finished, also when its handler joins a pass of another filter.
BatchesFinish == \A f \in Filter : queue[f] # <<>> ~> queue[f] = <<>>

\* What listOpRefs names, getOpsByOpRefs returns.
ListedIsServed == session.at # "failed"
=============================================================================
