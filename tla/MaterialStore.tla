---------------------------- MODULE MaterialStore ----------------------------
(***************************************************************************)
(* The stores of proof material beside the operation log: pending          *)
(* operations, operation signatures and capabilities, in SQLite            *)
(* (packages/sync/material/sqlite, packages/treecrdt-ts/src/sqlite.ts) and *)
(* in Postgres (packages/sync/material/postgres).  Every await is a step.  *)
(* SQLite callers share ONE connection, and with it its transaction;       *)
(* Postgres callers take connections from a pool.                          *)
(***************************************************************************)
EXTENDS MaterialCalls

CONSTANTS
    Job,        \* asynchronous activities that use the stores
    Program,    \* per job the calls it awaits one after the other
    MaxBulk,    \* maxBulkOps of treecrdtAppendOps
    MayFail,    \* a statement may fail
    MayCrash    \* the process may stop

IsSequence(s) == s \in Seq({s[i] : i \in DOMAIN s})

\* Programs of non-empty sequences of calls, all on SQLite or all on Postgres.
Assumptions ==
    /\ MaxBulk \in Nat \ {0} /\ MayFail \in BOOLEAN /\ MayCrash \in BOOLEAN
    /\ \A j \in Job : IsSequence(Program[j]) /\ Len(Program[j]) > 0
    /\ \A j \in Job : \A c \in DOMAIN Program[j] : IsSequence(Program[j][c].given)
    /\ \/ \A j \in Job : \A c \in DOMAIN Program[j] : IsSqliteCall(Program[j][c])
       \/ \A j \in Job : \A c \in DOMAIN Program[j] : IsPgCall(Program[j][c])

KeysOf(call) == {call.rows[i].key : i \in DOMAIN call.rows}
Keys == UNION {UNION {KeysOf(Program[j][c]) : c \in DOMAIN Program[j]} : j \in Job}
Rows == Table \X Keys
\* The operations this peer issued: it signs them itself.
LocalKeys == {k \in Keys : \E j \in Job : \E c \in DOMAIN Program[j] : Program[j][c] = LocalOp(k)}
\* verifyOps before applyOps: who appends an operation has stored its signature in an earlier call.
SignaturesFirst ==
    \A j \in Job : \A c \in DOMAIN Program[j] : \A i \in DOMAIN Program[j][c].rows :
        LET e == Program[j][c].rows[i]
        IN  e.row[1] = "op" /\ e.key \notin LocalKeys =>
              \E d \in 1..(c - 1) : \E m \in DOMAIN Program[j][d].rows :
                  Program[j][d].rows[m].row = Row("auth", e.key)

VARIABLES
    disk,       \* the committed value of every row
    tx,         \* the transaction of the shared SQLite connection
    job,        \* per job its call, its place in it and its outcome
    locks,      \* Postgres: the job whose open transaction holds a row
    forwarded   \* the last answer of a peer that forwards what it stored

vars == <<disk, tx, job, locks, forwarded>>

NoTx == [open |-> FALSE, by |-> {}, view |-> <<>>]
Start == [call |-> 1, at |-> "start", i |-> 1, out |-> "run"]

Init ==
    /\ disk = [r \in Rows |-> None]
    /\ tx = NoTx
    /\ job = [j \in Job |-> Start]
    /\ locks = [r \in Rows |-> {}]
    /\ forwarded = "none"

Call(j) == Program[j][job[j].call]
AtCall(j, kind, at) == job[j].out = "run" /\ Call(j).kind = kind /\ job[j].at = at

LastOf(S) == CHOOSE i \in S : \A j \in S : j <= i
\* The rows of a database after entries are written in order.
Written(db, entries) ==
    [r \in DOMAIN db |-> LET at == {i \in DOMAIN entries : entries[i].row = r}
                         IN  IF at = {} THEN db[r] ELSE entries[LastOf(at)].value]

\* A statement on the shared connection: inside whatever transaction is open.
Execute(entries) ==
    IF tx.open THEN tx' = [tx EXCEPT !.view = Written(@, entries)] /\ UNCHANGED disk
    ELSE disk' = Written(disk, entries) /\ UNCHANGED tx

\* The job after its call returned, or threw.
Returned(j) == IF job[j].call = Len(Program[j])
               THEN [job EXCEPT ![j].out = "ok"]
               ELSE [job EXCEPT ![j] = [Start EXCEPT !.call = job[j].call + 1]]
\* Fault variant: the error of a call is swallowed.
ThrewUnnoticed(j) == Returned(j)
Threw(j) == [job EXCEPT ![j].out = "failed"]

-----------------------------------------------------------------------------
(* SQLite. *)

\* BEGIN, outside the try block: inside another transaction it throws.
Begin(j) ==
    /\ AtCall(j, "transaction", "start") \/ AtCall(j, "append", "fallback")
    /\ IF tx.open THEN job' = Threw(j) /\ UNCHANGED tx
       ELSE tx' = [open |-> TRUE, by |-> {j}, view |-> disk] /\ job' = [job EXCEPT ![j].at = "rows"]
    /\ UNCHANGED <<disk, locks, forwarded>>

Statement(j) ==
    /\ job[j].out = "run" /\ Call(j).kind \in {"transaction", "append"} /\ job[j].at = "rows"
    /\ job[j].i <= Len(Call(j).rows)
    /\ Execute(<<Call(j).rows[job[j].i]>>)
    /\ job' = [job EXCEPT ![j].i = @ + 1]
    /\ UNCHANGED <<locks, forwarded>>

\* The connection after COMMIT or ROLLBACK.
Closed == NoTx

Commit(j) ==
    /\ job[j].out = "run" /\ Call(j).kind \in {"transaction", "append"} /\ job[j].at = "rows"
    /\ job[j].i > Len(Call(j).rows)
    /\ disk' = tx.view /\ tx' = Closed
    /\ job' = Returned(j)
    /\ UNCHANGED <<locks, forwarded>>

Rollback(j) ==
    /\ MayFail /\ job[j].out = "run" /\ Call(j).kind \in {"transaction", "append"}
    /\ job[j].at = "rows"
    /\ tx' = Closed
    /\ job' = Threw(j)
    /\ UNCHANGED <<disk, locks, forwarded>>

\* The bulk statement of a chunk; the savepoint of the extension makes it atomic.
Chunk(j) ==
    /\ AtCall(j, "append", "start") \/ AtCall(j, "local", "start")
    /\ LET last == IF job[j].i + MaxBulk - 1 < Len(Call(j).rows)
                   THEN job[j].i + MaxBulk - 1 ELSE Len(Call(j).rows)
       IN  /\ Execute(SubSeq(Call(j).rows, job[j].i, last))
           /\ job' = IF last = Len(Call(j).rows) THEN Returned(j)
                     ELSE [job EXCEPT ![j].i = last + 1]
    /\ UNCHANGED <<locks, forwarded>>

\* A failed chunk sends an append to the fallback; a local operation has none.
ChunkFails(j) ==
    /\ MayFail /\ (AtCall(j, "append", "start") \/ AtCall(j, "local", "start"))
    /\ job' = IF Call(j).kind = "append" THEN [job EXCEPT ![j].at = "fallback"] ELSE Threw(j)
    /\ UNCHANGED <<disk, tx, locks, forwarded>>

-----------------------------------------------------------------------------
(* Postgres. *)

Unlocked(j, rows) == \A i \in DOMAIN rows : locks[rows[i].row] \subseteq {j}

PgStatement(j) ==
    /\ AtCall(j, "statement", "start")
    /\ Unlocked(j, Call(j).rows)
    /\ disk' = Written(disk, Call(j).rows)
    /\ job' = Returned(j)
    /\ UNCHANGED <<tx, locks, forwarded>>

\* A row of a transaction on a client of the pool: locked until the end.
PgDeleteRow(j) ==
    /\ AtCall(j, "pooled", "start")
    /\ job[j].i <= Len(Call(j).rows)
    /\ LET e == Call(j).rows[job[j].i]
       IN  Unlocked(j, <<e>>) /\ locks' = [locks EXCEPT ![e.row] = {j}]
    /\ job' = [job EXCEPT ![j].i = @ + 1]
    /\ UNCHANGED <<disk, tx, forwarded>>

Released(j) == [r \in Rows |-> locks[r] \ {j}]
PgCommit(j) ==
    /\ AtCall(j, "pooled", "start")
    /\ job[j].i > Len(Call(j).rows)
    /\ disk' = Written(disk, Call(j).rows)
    /\ locks' = Released(j)
    /\ job' = Returned(j)
    /\ UNCHANGED <<tx, forwarded>>

\* A failed statement; a deadlock of two transactions ends like this as well.
PgFails(j) ==
    /\ MayFail /\ job[j].out = "run" /\ Call(j).kind \in {"statement", "pooled"}
    /\ locks' = Released(j)
    /\ job' = Threw(j)
    /\ UNCHANGED <<disk, tx, forwarded>>

-----------------------------------------------------------------------------
(* Serving what is stored, and the process. *)

View == IF tx.open THEN tx.view ELSE disk

\* getOpAuthByOpRefs: the stored signature of each key, or none.
GetOpAuthByOpRefs(keys) == [k \in keys |-> View[Row("auth", k)]]
\* signOps of the replay-only peer: an operation without its signature cannot be sent.
Forward ==
    /\ LET ops == {k \in Keys \ LocalKeys : View[Row("op", k)] # None}
       IN  forwarded' = IF \E k \in ops : GetOpAuthByOpRefs(ops)[k] = None
                        THEN "missing" ELSE "sent"
    /\ UNCHANGED <<disk, tx, job, locks>>

\* The open transaction and what was running are gone; the committed rows remain.
Crash ==
    /\ MayCrash /\ \E j \in Job : job[j].out = "run"
    /\ tx' = NoTx /\ locks' = [r \in Rows |-> {}]
    /\ job' = [j \in Job |-> IF job[j].out = "run" THEN [job[j] EXCEPT !.out = "lost"] ELSE job[j]]
    /\ UNCHANGED <<disk, forwarded>>

Step(j) == \/ Begin(j) \/ Statement(j) \/ Commit(j) \/ Chunk(j)
           \/ PgStatement(j) \/ PgDeleteRow(j) \/ PgCommit(j)

Next ==
    \/ \E j \in Job : Step(j) \/ Rollback(j) \/ ChunkFails(j) \/ PgFails(j)
    \/ Forward \/ Crash

Spec == Init /\ [][Next]_vars
\* The event loop runs every continuation that is ready; a blocked statement waits.
FairSpec == Spec /\ \A j \in Job : WF_vars(Step(j))

-----------------------------------------------------------------------------
(* Properties. *)

\* A transaction of the shared connection belongs to a call that is still inside it: no
\* error path of the stores leaves it open for the next caller.
TransactionHasOwner ==
    tx.open => \E j \in Job : tx.by = {j} /\ job[j].out = "run" /\ job[j].at = "rows"

\* What a row gets from a call: the last value the caller gave for its key.
Given(call, k) == call.given[LastOf({i \in DOMAIN call.given : call.given[i].key = k})].value

\* A store or delete call that returns has its rows on disk then, all of them, each with
\* the last value given for its key; a call that throws has changed nothing on disk.
AtomicStep ==
    \A j \in Job : job'[j] # job[j] /\ Call(j).kind \in {"transaction", "statement", "pooled"} =>
        IF job'[j].call > job[j].call \/ job'[j].out = "ok"
        THEN disk' = [r \in Rows |->
                 IF \E i \in DOMAIN Call(j).rows : Call(j).rows[i].row = r
                 THEN Given(Call(j), r[2]) ELSE disk'[r]]
             /\ \A r \in Rows : disk'[r] # disk[r] /\ r[1] # "op" =>
                   \E i \in DOMAIN Call(j).rows : Call(j).rows[i].row = r
        ELSE disk' = disk

\* A peer that stores signatures before operations can forward every operation it holds,
\* after any failure and any restart.
ForwardsWhatItHolds == forwarded # "missing"

\* "Done means every prior batch has been durably handled": when an append returns, its
\* operations are on disk.
DurableStep ==
    \A j \in Job : (Call(j).kind \in {"append", "local"} \/ Call(j).given[1].row[1] = "op")
        /\ (job'[j].call > job[j].call \/ (job[j].out = "run" /\ job'[j].out = "ok"))
        => \A i \in DOMAIN Call(j).given : disk'[Call(j).given[i].row] # None

\* No activity runs, and the shared connection is outside a transaction.
AllEnded == ~tx.open /\ \A j \in Job : job[j].out # "run"
=============================================================================
