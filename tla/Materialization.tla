--------------------------- MODULE Materialization ---------------------------
(***************************************************************************)
(* How the SQLite extension and the Postgres store keep their materialized *)
(* tables beside the operation log of a document: appended operations are  *)
(* applied to the tables when they follow the materialized head, and       *)
(* otherwise the document is marked dirty and rebuilt before the next      *)
(* read; local calls change the tables directly.  The tables are those of  *)
(* the core (nodes and payloads), a cached tombstone flag per node, and    *)
(* the index from parents to operations that children(parent) sync uses.   *)
(*                                                                         *)
(* A call is one transaction, and one step, except that a local call on    *)
(* Postgres looks at the dirty flag before it takes the document's lock.   *)
(* Calls that return an error roll back and are left out.                  *)
(***************************************************************************)
EXTENDS TreeOps, SequencesExt

CONSTANTS
  Backing,    \* "sqlite" or "postgres"
  Writer,     \* replicas whose local calls use this database
  Remote,     \* operations of other replicas, which may be appended
  Intent,     \* local calls: [kind, node, parent, payload]
  MaxLocal,   \* bound: local operations
  Overlap,    \* whether transactions of several connections overlap
  MayFail     \* whether a statement on the tables of SQLite may fail

VARIABLES
  log,        \* table ops
  tables,     \* [tree, flags, index]: nodes and payloads, tombstone, oprefs_children
  meta,       \* tree_meta: [dirty, head, seq]
  begun       \* Postgres: writers that saw a clean document and hold no lock yet

vars == <<log, tables, meta, begun>>

Assumptions ==
  /\ Backing \in {"sqlite", "postgres"}
  /\ Writer \subseteq Replica /\ MaxLocal \in Nat
  /\ Overlap \in BOOLEAN /\ MayFail \in BOOLEAN
  /\ MayFail => Backing = "sqlite"

-----------------------------------------------------------------------------
(* Tombstone flags and the index.                                          *)

\* affected_parents: the parent the node had and the one the operation names
AffectedParents(t, op) ==
  {Parent(t, op.node), IF op.kind \in {"insert", "move"} THEN op.parent ELSE None} \ {None}

\* Rows of the index; TRASH has none.
Under(parents, id) == {<<p, id>> : p \in parents \ {TRASH}}

HiddenNodes(t) == {n \in Node : IsTombstoned(t, n)}

\* refresh_tombstones_upward: the flags on the way up from the given nodes
RefreshUpward(t, flags, starts) ==
  LET reached == UNION {Chain(t, n) : n \in starts \cap Node}
      checked == {n \in reached : t.deleted_at[n] # {}}
  IN (flags \ checked) \cup (HiddenNodes(t) \cap checked)

\* The node's payload, whoever wrote it, is found under its new parent too.
PayloadUnder(before, after, op) ==
  IF /\ op.kind \in {"insert", "move"} /\ op.parent # TRASH
     /\ Parent(before, op.node) # op.parent /\ after.writer[op.node] # None
  THEN {<<op.parent, Id(after.writer[op.node])>>}
  ELSE {}

\* apply_remote_with_materialization, on an operation that is new and in order
ApplyWithMaterialization(tb, op) ==
  LET t == ApplyForward(tb.tree, op)
      parents == AffectedParents(tb.tree, op)
  IN [tree  |-> t,
      flags |-> RefreshUpward(t, tb.flags, parents \cup {op.node}),
      index |-> tb.index \cup Under(parents, Id(op)) \cup PayloadUnder(tb.tree, t, op)]

\* apply_incremental_ops_with_delta: the batch, sorted
ApplyIncremental(tb, ops) ==
  FoldLeft(ApplyWithMaterialization, tb, SetToSortSeq(ops, Precedes))

\* replay_from_storage_with_materialization
Rebuilt(S) ==
  LET t == Replay[S]
      earlier(op) == Replay[{o \in S : Precedes(o, op)}]
      placed == {n \in Node : Parent(t, n) # None /\ t.writer[n] # None}
  IN [tree  |-> t,
      flags |-> HiddenNodes(t),
      index |-> UNION {Under(AffectedParents(earlier(op), op), Id(op)) : op \in S}
                \cup UNION {Under({Parent(t, n)}, Id(t.writer[n])) : n \in placed}]

CleanAt(head, seq) == [dirty |-> FALSE, head |-> head, seq |-> seq]
RebuiltMeta(S) == CleanAt(IF S = {} THEN None ELSE LastOf(S), Cardinality(S))

-----------------------------------------------------------------------------
Init ==
  /\ log = {} /\ begun = {}
  /\ tables = Rebuilt({}) /\ meta = RebuiltMeta({})

\* No call of another connection is between its check and its lock.
Alone == Overlap \/ begun = {}

\* apply_incremental_ops refuses a batch that starts before the head.
BeforeHead(ops) == meta.head # None /\ \E op \in ops : Precedes(op, meta.head)

\* The tables when a statement fails while the batch is applied: some of the
\* operations, in order, have been.
HalfWay(ops) ==
  {ApplyIncremental(tables, S) : S \in {S \in SUBSET ops :
      \A a \in S, b \in ops \ S : Precedes(a, b)}}

\* append_ops: the log keeps the new operations whatever happens to the tables
\* (try_incremental_materialization).
AppendOps ==
  \E ops \in SUBSET Remote :
    LET new == {op \in ops : Id(op) \notin Ids(log)}
    IN /\ Alone /\ new # {}
       /\ log' = log \cup new
       /\ \/ /\ meta.dirty \/ BeforeHead(new)
             /\ meta' = [meta EXCEPT !.dirty = TRUE]
             /\ UNCHANGED tables
          \/ /\ ~meta.dirty /\ ~BeforeHead(new)
             /\ tables' = ApplyIncremental(tables, new)
             /\ meta' = CleanAt(LastOf(new), meta.seq + Cardinality(new))
          \/ /\ MayFail /\ ~meta.dirty /\ ~BeforeHead(new)
             /\ tables' \in HalfWay(new)
             /\ meta' = [meta EXCEPT !.dirty = TRUE]
       /\ UNCHANGED begun

\* ensure_materialized, before every read; the flag of a dirty document is
\* checked again under the lock, a clean one is read as it is.
EnsureMaterialized ==
  /\ IF meta.dirty
     THEN tables' = Rebuilt(log) /\ meta' = RebuiltMeta(log)
     ELSE UNCHANGED <<tables, meta>>
  /\ UNCHANGED <<log, begun>>

-----------------------------------------------------------------------------
(* Local calls.                                                            *)

\* with_stores on the log: the next counter and lamport; local_delete records
\* what the tables show of the subtree.
Minted(w, i, t) ==
  [replica |-> w,
   counter |-> 1 + Max({0} \cup {o.counter : o \in {x \in log : x.replica = w}}),
   lamport |-> 1 + Max({0} \cup {o.lamport : o \in log}),
   kind |-> i.kind, node |-> i.node, parent |-> i.parent, payload |-> i.payload,
   known |-> IF i.kind = "delete" THEN SubtreeVV(t, i.node) ELSE {}]

\* Fault variant: the plan of a move names only the new parent.
NewParentOnly(t, op) == {op.parent} \ {None}

\* parent_hints of local_insert_, move_, delete_ and payload_with_plan
ParentHints(t, op) ==
  (IF op.kind = "insert" THEN {op.parent} ELSE {op.parent, Parent(t, op.node)}) \ {None}

\* extra_index_records of local_move_with_plan
ExtraRecords(before, after, op) ==
  IF op.kind = "move" THEN PayloadUnder(before, after, op) ELSE {}

\* commit_local
Committed(tb, op) ==
  LET t == ApplyForward(tb.tree, op)
  IN [tb EXCEPT !.tree = t,
                !.flags = RefreshUpward(t, @, AffectedParents(tb.tree, op) \cup {op.node})]

\* finalize_local_with_plan
Finalized(before, tb, op) ==
  LET hints == ParentHints(before, op)
  IN [tb EXCEPT !.flags = RefreshUpward(tb.tree, @, hints \cup {op.node}),
                !.index = @ \cup Under(hints, Id(op)) \cup ExtraRecords(before, tb.tree, op)]

\* The transaction from the lock on: the tables are tb and head_seq is seq.
\* Clients insert nodes that do not exist yet.
RunLocal(w, i, tb, seq) ==
  LET op == Minted(w, i, tb.tree)
      committed == Committed(tb, op)
  IN /\ Cardinality({o \in log : o.replica \in Writer}) < MaxLocal
     /\ i.kind = "insert" => \A o \in log : o.node # i.node
     /\ log' = log \cup {op}
     /\ \/ /\ tables' = Finalized(tb.tree, committed, op)
           /\ meta' = CleanAt(op, seq + 1)
        \/ /\ MayFail
           /\ tables' = committed
           /\ meta' = [meta EXCEPT !.dirty = TRUE]

\* A local call whose first check, and rebuild if need be, is under the lock:
\* always on SQLite, on a dirty document on Postgres.
LocalCall(w, i) ==
  /\ Alone /\ (Backing = "sqlite" \/ meta.dirty)
  /\ IF meta.dirty THEN RunLocal(w, i, Rebuilt(log), Cardinality(log))
     ELSE RunLocal(w, i, tables, meta.seq)
  /\ w \notin begun /\ UNCHANGED begun

\* begin_local_core_op on Postgres: ensure_materialized_in_tx reads a clean
\* flag and takes no lock.
BeginLocal(w) ==
  /\ Backing = "postgres" /\ w \notin begun /\ Alone /\ ~meta.dirty
  /\ begun' = begun \cup {w}
  /\ UNCHANGED <<log, tables, meta>>

\* The rest, under the lock of load_tree_meta_for_update, whose dirty flag is
\* not looked at again.
FinishLocal(w, i) ==
  /\ w \in begun
  /\ RunLocal(w, i, tables, meta.seq)
  /\ begun' = begun \ {w}

\* The call fails (no such sibling, no key) and its transaction rolls back.
RollBackLocal(w) ==
  /\ w \in begun
  /\ begun' = begun \ {w}
  /\ UNCHANGED <<log, tables, meta>>

Next ==
  \/ AppendOps
  \/ EnsureMaterialized
  \/ \E w \in Writer : BeginLocal(w) \/ RollBackLocal(w)
  \/ \E w \in Writer, i \in Intent : LocalCall(w, i) \/ FinishLocal(w, i)

Spec == Init /\ [][Next]_vars

-----------------------------------------------------------------------------
(***************************************************************************)
(* While a document is not marked dirty, its tables are what a rebuild     *)
(* from its log would give: the tree, the tombstone flags and the head,    *)
(* and every row a rebuild would put in the index; the index may keep more *)
(* rows, all of logged operations.  Reads of a clean document trust this   *)
(* (ensure_materialized returns at once), and so do the incremental path   *)
(* and the counters of local calls, whatever batches, local calls and      *)
(* failures came before.                                                   *)
(***************************************************************************)
TablesMatchLog ==
  ~meta.dirty =>
    LET r == Rebuilt(log)
    IN /\ tables.tree = r.tree /\ tables.flags = r.flags
       /\ r.index \subseteq tables.index
       /\ \A row \in tables.index : row[2] \in Ids(log)
       /\ meta = RebuiltMeta(log)
=============================================================================
