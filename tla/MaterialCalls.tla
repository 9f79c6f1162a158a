---------------------------- MODULE MaterialCalls ----------------------------
(***************************************************************************)
(* The calls of the stores of proof material and of the operation log, as  *)
(* the statements they issue: rows are the ones written, given is what the *)
(* caller passed.  The kind says how the statements are grouped.           *)
(***************************************************************************)
EXTENDS Integers, Sequences

\* A row of a table: the table and the key.
Table == {"op", "auth", "pending", "capability"}
Row(table, key) == <<table, key>>
None == 0

-----------------------------------------------------------------------------
(* The calls.  An entry gives a key and the value stored for it. *)

Entries(table, entries) ==
    [i \in DOMAIN entries |-> [row |-> Row(table, entries[i].key), key |-> entries[i].key,
                               value |-> entries[i].value]]
Removals(table, keys) ==
    [i \in DOMAIN keys |-> [row |-> Row(table, keys[i]), key |-> keys[i], value |-> None]]

StorePendingOps(entries) == [kind |-> "transaction", rows |-> Entries("pending", entries),
                             given |-> Entries("pending", entries)]
DeletePendingOps(keys) == [kind |-> "transaction", rows |-> Removals("pending", keys),
                           given |-> Removals("pending", keys)]
StoreOpAuth(entries) == [kind |-> "transaction", rows |-> Entries("auth", entries),
                         given |-> Entries("auth", entries)]
StoreCapabilities(entries) == [kind |-> "transaction", rows |-> Entries("capability", entries),
                               given |-> Entries("capability", entries)]
AppendOps(entries) == [kind |-> "append", rows |-> Entries("op", entries), given |-> Entries("op", entries)]
LocalOp(key) == [AppendOps(<<[key |-> key, value |-> 1]>>) EXCEPT !.kind = "local"]

\* Fault variant: the first entry of a key is kept.
DedupeEarliestByKey(entries) ==
    [i \in {k \in DOMAIN entries : \A j \in DOMAIN entries :
                                   entries[j].key = entries[k].key => j >= k} |-> entries[i]]
\* One entry per key, the last one (a statement may not update a row twice).
DedupeLatestByKey(entries) ==
    [i \in {k \in DOMAIN entries : \A j \in DOMAIN entries :
                                   entries[j].key = entries[k].key => j <= k} |-> entries[i]]
PgStoreOpAuth(entries) ==
    [kind |-> "statement", rows |-> Entries("auth", DedupeLatestByKey(entries)),
     given |-> Entries("auth", entries)]
PgStoreCapabilities(entries) ==
    [kind |-> "statement", rows |-> Entries("capability", DedupeLatestByKey(entries)),
     given |-> Entries("capability", entries)]
PgStorePendingOps(entries) ==
    [kind |-> "statement", rows |-> Entries("pending", DedupeLatestByKey(entries)),
     given |-> Entries("pending", entries)]
PgDeletePendingOps(keys) == [kind |-> "pooled", rows |-> Removals("pending", keys),
                           given |-> Removals("pending", keys)]
PgAppendOps(entries) == [kind |-> "statement", rows |-> Entries("op", entries), given |-> Entries("op", entries)]

-----------------------------------------------------------------------------
(* Calls are what these operators make of entries and keys: of all sorts of *)
(* entries in SQLite, or in Postgres.  What is stored is never empty.       *)

Passed(call) == [i \in DOMAIN call.given |->
                   [key |-> call.given[i].key, value |-> call.given[i].value]]
KeysPassed(call) == [i \in DOMAIN call.given |-> call.given[i].key]
Storing(call) == \A i \in DOMAIN call.given : call.given[i].value # None

IsSqliteCall(call) ==
    LET es == Passed(call)
        keys == KeysPassed(call)
    IN \/ call = DeletePendingOps(keys)
       \/ Storing(call) /\ \/ call \in {StorePendingOps(es), StoreOpAuth(es),
                                       StoreCapabilities(es), AppendOps(es)}
                           \/ \E i \in DOMAIN keys : call = LocalOp(keys[i])
IsPgCall(call) ==
    LET es == Passed(call)
        keys == KeysPassed(call)
    IN \/ call = PgDeletePendingOps(keys)
       \/ Storing(call) /\ call \in {PgStorePendingOps(es), PgStoreOpAuth(es),
                                    PgStoreCapabilities(es), PgAppendOps(es)}
=============================================================================
