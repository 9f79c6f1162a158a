------------------------------ MODULE WaClient ------------------------------
(***************************************************************************)
(* The browser client of packages/treecrdt-wa-sqlite/src: client.ts on the *)
(* main thread, and the SQLite database either behind the RPC of worker.ts *)
(* or on the main thread itself.  Requests and replies of the worker are   *)
(* queues; its handlers interleave at every await.  The data of a call is  *)
(* its identity: an append writes the operation of its own number.         *)
(***************************************************************************)
EXTENDS Naturals, FiniteSets, Sequences, SequencesExt

CONSTANTS
    MaxCalls,       \* bound on the RPC calls of a client, its init and close included
    MayFail         \* SQLite, the file system and the worker may fail

Assumptions == MaxCalls \in Nat /\ MayFail \in BOOLEAN

VARIABLES
    client,     \* stage, mode, storage, closed, terminalError, closePromise
    calls,      \* the calls so far: [method, st], st one of waiting, ok, error
    requests,   \* ids posted to the worker
    running,    \* handlers in flight: [id, clears], clears = drop found an OPFS file name
    replies,    \* [id, ok] posted back
    db,         \* of the side that holds the database: "none", "open", "closing"
    stored,     \* the storage the database was opened with
    disk,       \* operations in the OPFS file
    memory,     \* operations in the in-memory database
    dropped     \* history: a drop has begun to remove the file

vars == <<client, calls, requests, running, replies, db, stored, disk, memory, dropped>>
side == <<db, stored, disk, memory, dropped>>

Init ==
    /\ client = [stage |-> "none", mode |-> "none", storage |-> "none", require |-> FALSE,
                 closed |-> FALSE, terminal |-> FALSE, closing |-> FALSE]
    /\ calls = <<>> /\ requests = <<>> /\ running = {} /\ replies = <<>>
    /\ db = "none" /\ stored = "memory"
    /\ disk = {} /\ memory = {} /\ dropped = FALSE

Ids == DOMAIN calls
Waiting == {i \in Ids : calls[i].st = "waiting"}
Settled(i, ok) == [calls EXCEPT ![i].st = IF ok THEN "ok" ELSE "error"]
\* Every call of the pending map is rejected.
AllRejected(cs) == [i \in DOMAIN cs |-> IF cs[i].st = "waiting" THEN [cs[i] EXCEPT !.st = "error"] ELSE cs[i]]

\* Fault variant: the calls in flight are forgotten, not rejected.
ForgottenCalls(cs) == cs
\* cleanup: the pending calls are rejected and the worker is terminated.
Cleanup(cs) == AllRejected(cs)

\* call(): refused once the client is closed or the worker has failed; in direct mode the
\* handler starts at once.
Called(m) ==
    LET i == Len(calls) + 1
        refused == client.closed \/ client.terminal
    IN
    /\ i <= MaxCalls
    /\ calls' = Append(calls, [method |-> m, st |-> IF refused THEN "error" ELSE "waiting"])
    /\ requests' = IF refused THEN requests ELSE Append(requests, i)
    /\ UNCHANGED <<running, replies>>

-----------------------------------------------------------------------------
(* createTreecrdtClient. *)

\* The storage asked for, preferWorker (TRUE unless given) and what the browser supports decide the mode.
Create(want, prefer, support) ==
    LET opfs == want = "opfs" \/ (want = "auto" /\ support)
        worker == opfs /\ prefer
    IN
    /\ client.stage = "none"
    /\ IF opfs /\ ~worker /\ ~support
       THEN client' = [client EXCEPT !.stage = "failed"] /\ UNCHANGED <<calls, requests, running, replies>>
       ELSE /\ client' = [client EXCEPT !.stage = "init", !.mode = IF worker THEN "worker" ELSE "direct",
                                        !.storage = IF opfs THEN "opfs" ELSE "memory",
                                        !.require = want = "opfs"]
            /\ Called("init")
    /\ UNCHANGED side

\* openTreecrdtDb: OPFS, or memory when OPFS fails and is not required.
Opened(i, storage) ==
    /\ db' = "open" /\ stored' = storage
    /\ UNCHANGED <<disk, memory, dropped>>

-----------------------------------------------------------------------------
(* Calls of the user. *)

Use(m) ==
    /\ client.stage = "open"
    /\ Called(m)
    /\ UNCHANGED <<client, side>>

\* closeImpl and dropImpl: nothing is left to do for a closed client, and the worker that has
\* failed is only terminated.
Teardown(m, c) ==
    /\ IF c.closed
       THEN client' = c /\ UNCHANGED <<calls, requests, running, replies>>
       ELSE IF c.terminal
       THEN /\ client' = [c EXCEPT !.closed = TRUE]
            /\ calls' = Cleanup(calls) /\ requests' = <<>> /\ running' = {} /\ replies' = <<>>
       ELSE client' = c /\ Called(m)
    /\ UNCHANGED side

\* close of the client: at most one attempt is made.
Close ==
    /\ client.stage = "open" /\ ~client.closing
    /\ Teardown("close", [client EXCEPT !.closing = TRUE])

Drop ==
    /\ client.stage = "open" /\ ~client.closed
    /\ Teardown("drop", client)

-----------------------------------------------------------------------------
(* The handlers. *)

\* The database executes the statement of a handler.
Executes == db = "open"

\* The worker forgets the file when it closes it, the direct client knows its own.
FileStorage == IF client.mode = "direct" THEN client.storage ELSE stored

\* A handler starts: the database must be open; close and drop begin to close it.
Begin ==
    /\ requests # <<>>
    /\ LET i == Head(requests)
           m == calls[i].method
       IN /\ requests' = Tail(requests)
          /\ IF m \in {"append", "read"} /\ db = "none"
             THEN replies' = Append(replies, [id |-> i, ok |-> FALSE]) /\ UNCHANGED <<running, db>>
             ELSE /\ running' = running \cup
                       {[id |-> i, clears |-> m = "drop" /\ FileStorage = "opfs",
                         first |-> m \in {"close", "drop"} /\ db = "open"]}
                  /\ db' = IF m \in {"close", "drop"} /\ db = "open" THEN "closing" ELSE db
                  /\ UNCHANGED replies
    /\ UNCHANGED <<client, calls, stored, disk, memory, dropped>>

Replied(h, ok) ==
    /\ running' = running \ {h}
    /\ replies' = Append(replies, [id |-> h.id, ok |-> ok])
    /\ UNCHANGED <<client, calls, requests>>

\* init: the database is opened, in memory if OPFS fails.
FinishInit(h) ==
    /\ calls[h.id].method = "init" /\ h \in running
    /\ \/ Opened(h.id, client.storage) /\ Replied(h, TRUE)
       \/ MayFail /\ client.storage = "opfs" /\ ~(client.mode = "direct" /\ client.require)
          /\ Opened(h.id, "memory") /\ Replied(h, TRUE)
       \/ MayFail /\ Replied(h, FALSE) /\ UNCHANGED side

FinishUse(h) ==
    /\ calls[h.id].method \in {"append", "read"} /\ h \in running
    /\ \/ /\ Executes
          /\ IF calls[h.id].method = "append" /\ db = "open"
             THEN IF stored = "opfs" THEN disk' = disk \cup {h.id} /\ UNCHANGED memory
                                     ELSE memory' = memory \cup {h.id} /\ UNCHANGED disk
             ELSE UNCHANGED <<disk, memory>>
          /\ Replied(h, TRUE)
          /\ UNCHANGED <<db, stored, dropped>>
       \/ (MayFail \/ db # "open") /\ Replied(h, FALSE) /\ UNCHANGED side

\* closeDbAndReset, and for drop clearOpfsStorage with the name known when it started.
\* Closing a database that another handler closes meanwhile may fail.
FinishClose(h) ==
    /\ calls[h.id].method \in {"close", "drop"} /\ h \in running
    /\ \/ /\ db' = "none" /\ memory' = {} /\ stored' = "memory"
          /\ \/ /\ disk' = IF h.clears THEN {} ELSE disk
                /\ Replied(h, TRUE)
             \/ MayFail /\ h.clears /\ disk' = disk /\ Replied(h, FALSE)
          /\ dropped' = (dropped \/ h.clears)
       \/ /\ MayFail \/ ~h.first
          /\ db' = IF h.first /\ db = "closing" THEN "open" ELSE db
          /\ Replied(h, FALSE)
          /\ UNCHANGED <<stored, disk, memory, dropped>>

-----------------------------------------------------------------------------
(* Back on the main thread. *)

\* A reply settles its call; one to a call that was rejected meanwhile is ignored.  The reply to
\* close or drop closes the client; one to an init that fell back to memory although OPFS was
\* required does too, after a last close call whose result is ignored.
Deliver ==
    /\ replies # <<>>
    /\ LET r == Head(replies)
           m == calls[r.id].method
           known == calls[r.id].st = "waiting"
           cs == IF known THEN Settled(r.id, r.ok) ELSE calls
           ends == known /\ r.ok /\ m \in {"close", "drop"}
           starts == known /\ m = "init"
           degraded == starts /\ r.ok /\ client.require /\ stored # "opfs"
       IN /\ IF (ends /\ client.mode = "worker") \/ degraded
             THEN /\ calls' = Cleanup(cs)
                  /\ requests' = <<>> /\ running' = {} /\ replies' = <<>>
             ELSE calls' = cs /\ replies' = Tail(replies) /\ UNCHANGED <<requests, running>>
          /\ client' =
               CASE ends -> [client EXCEPT !.closed = TRUE]
                 [] degraded -> [client EXCEPT !.stage = "failed", !.closed = TRUE]
                 [] starts /\ ~degraded -> [client EXCEPT !.stage = IF r.ok THEN "open" ELSE "failed",
                                                          !.storage = stored]
                 [] OTHER -> client
    /\ UNCHANGED side

\* The error event of the worker, which may still run what it has.
WorkerError ==
    /\ MayFail /\ client.mode = "worker" /\ client.stage \in {"init", "open"}
    /\ ~client.closed /\ ~client.terminal
    /\ client' = [client EXCEPT !.terminal = TRUE,
                                !.stage = IF @ = "init" THEN "failed" ELSE @]
    /\ calls' = AllRejected(calls)
    /\ UNCHANGED <<requests, running, replies, side>>

Next ==
    \/ \E want \in {"memory", "opfs", "auto"}, prefer, support \in BOOLEAN :
          Create(want, prefer, support)
    \/ \E m \in {"append", "read"} : Use(m)
    \/ Close \/ Drop \/ Begin \/ Deliver \/ WorkerError
    \/ \E h \in running : FinishInit(h) \/ FinishUse(h) \/ FinishClose(h)

Spec == Init /\ [][Next]_vars

-----------------------------------------------------------------------------
(* No call hangs: a call without an answer is posted, handled or answered, *)
(* and closing the client or losing its worker has settled every call.     *)
EveryCallSettles ==
    /\ \A i \in Waiting :
          i \in Range(requests) \/ (\E h \in running : h.id = i) \/ (\E j \in DOMAIN replies : replies[j].id = i)
    /\ client.mode = "worker" /\ (client.closed \/ client.terminal) => Waiting = {}

(* An append whose promise was fulfilled is in the OPFS file, however the  *)
(* client was closed or its worker was lost, until drop removes the file;  *)
(* a client that says it is in memory has no such promise to keep.         *)
AcknowledgedIsStored ==
    \A i \in Ids : calls[i] = [method |-> "append", st |-> "ok"] =>
      dropped \/ (IF client.storage = "opfs" THEN i \in disk ELSE db # "open" \/ i \in memory)
=============================================================================
