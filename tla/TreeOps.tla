------------------------------ MODULE TreeOps ------------------------------
(***************************************************************************)
(* The operations of the tree CRDT and what applying them does to the      *)
(* materialized tree (treecrdt-core: ops.rs, tree.rs, traits.rs).          *)
(*                                                                         *)
(* Data kept and data abstracted:                                          *)
(*  - A version vector is the set of operation ids it contains.  That the  *)
(*    frontier-and-ranges representation of version_vector.rs behaves like *)
(*    this set is the subject of module VersionVector.                     *)
(*  - An order key is opaque: attach copies it from the operation, so a    *)
(*    node's entry keeps the operation that placed it; the sibling order   *)
(*    is the order of (key of that operation, node id).  Key allocation is *)
(*    the subject of module OrderKey.                                      *)
(*  - A payload entry (bytes, last writer) is the operation that wrote it. *)
(*  - children(p) of the node store are the nodes whose parent is p.       *)
(***************************************************************************)
EXTENDS Integers, FiniteSets

CONSTANTS
  Replica,   \* replica ids; a replica id is compared by its bytes, here a number
  Node,      \* node ids other than ROOT and TRASH
  ROOT,      \* NodeId::ROOT
  TRASH,     \* NodeId::TRASH
  Payload,   \* application payloads
  None       \* Rust's None

ASSUME ReplicaAssumption == Replica \subseteq Nat
ASSUME NodeAssumption ==
  /\ ROOT \notin Node /\ TRASH \notin Node /\ None \notin Node
  /\ ROOT # TRASH /\ ROOT # None /\ TRASH # None

Place == Node \cup {ROOT, TRASH}
OperationId == Replica \X Nat
Kind == {"insert", "move", "delete", "tombstone", "payload"}

Operation ==
  {op \in [replica : Replica, counter : Nat, lamport : Nat, kind : Kind,
           node    : Node,
           parent  : Place \cup {None},      \* insert: parent, move: new_parent
           payload : Payload \cup {None},    \* insert, payload
           known   : SUBSET OperationId] :   \* delete: known_state
     /\ op.kind \in {"insert", "move"} => op.parent # None
     /\ op.payload # None => op.kind \in {"insert", "payload"}}

ASSUME NoneIsNoOperation == None \notin Operation

Id(op) == <<op.replica, op.counter>>
Ids(S) == {Id(op) : op \in S}

\* cmp_op_key / cmp_ops: (lamport, replica, counter), lexicographically
Precedes(a, b) ==
  \/ a.lamport < b.lamport
  \/ a.lamport = b.lamport /\ a.replica < b.replica
  \/ a.lamport = b.lamport /\ a.replica = b.replica /\ a.counter < b.counter

-----------------------------------------------------------------------------
(* The materialized tree: node store and payload store.                    *)

Tree ==
  [exists      : SUBSET Place,
   place       : [Node -> Operation \cup {None}],   \* who set parent and order_key
   last_change : [Place -> SUBSET OperationId],
   deleted_at  : [Node -> SUBSET OperationId],      \* {} is None
   writer      : [Node -> Operation \cup {None}]]   \* who set the payload

\* NodeStore::reset and PayloadStore::reset: only the root
EmptyTree ==
  [exists      |-> {ROOT},
   place       |-> [n \in Node |-> None],
   last_change |-> [p \in Place |-> {}],
   deleted_at  |-> [n \in Node |-> {}],
   writer      |-> [n \in Node |-> None]]

Parent(t, n) == IF t.place[n] = None THEN None ELSE t.place[n].parent

ChildrenOf(t, p) == {n \in Node : Parent(t, n) = p}

\* The set is closed under taking the parent, as long as that is a plain node.
UpClosed(t, S) == \A n \in S : Parent(t, n) \in Node => Parent(t, n) \in S

\* The nodes a walk from n along the parents visits, n included.
Chain(t, n) ==
  {a \in Node : \A S \in SUBSET Node : n \in S /\ UpClosed(t, S) => a \in S}

\* Fault variant: looks one level up only.
IntroducesCycleOneLevel(t, node, potential_parent) ==
  potential_parent \in Node /\ Parent(t, potential_parent) = node

IntroducesCycle(t, node, potential_parent) ==
  potential_parent \in Node /\ node \in Chain(t, potential_parent)

\* has_cycle_from finds no cycle: no set of nodes holds all their parents.
IsAcyclic(t) ==
  \A S \in SUBSET Node : S # {} => \E n \in S : Parent(t, n) \notin S

Subtree(t, n) == {d \in Node : n \in Chain(t, d)}

\* NodeStore::subtree_version_vector
SubtreeVV(t, n) == UNION {t.last_change[d] : d \in Subtree(t, n)}

\* Fault variant: looks at the node only, not at its subtree.
IsTombstonedAlone(t, n) ==
  t.deleted_at[n] # {} /\ t.last_change[n] \subseteq t.deleted_at[n]

IsTombstoned(t, n) ==
  t.deleted_at[n] # {} /\ SubtreeVV(t, n) \subseteq t.deleted_at[n]

\* TreeCrdt::children, without the order
VisibleChildren(t, p) == {n \in ChildrenOf(t, p) : ~IsTombstoned(t, n)}

-----------------------------------------------------------------------------
(* apply_forward.                                                          *)

EnsureNode(t, P) == [t EXCEPT !.exists = @ \cup P]

\* Fault variant: drops what the other nodes had.
UpdateLastChangeOnly(t, op, P) ==
  [t EXCEPT !.last_change = [p \in P |-> @[p] \cup {Id(op)} \cup op.known]]

\* update_last_change on each node of P
UpdateLastChange(t, op, P) ==
  [t EXCEPT !.last_change =
     [p \in Place |-> IF p \in P THEN @[p] \cup {Id(op)} \cup op.known ELSE @[p]]]

\* detach followed by attach
Attach(t, op) == [t EXCEPT !.place[op.node] = op]

ApplyInsert(t, op) ==
  IF op.parent = op.node \/ IntroducesCycle(t, op.node, op.parent)
  THEN t
  ELSE UpdateLastChange(Attach(EnsureNode(t, {op.parent}), op), op,
                        {op.node, op.parent})

ApplyMove(t, op) ==
  LET s == EnsureNode(t, {op.parent})
  IN IF op.parent # TRASH
        /\ (IntroducesCycle(s, op.node, op.parent) \/ op.node = op.parent)
     THEN s
     ELSE UpdateLastChange(Attach(s, op), op,
            {op.node} \cup ({Parent(s, op.node), op.parent} \ {None, TRASH}))

ApplyDelete(t, op) ==
  [t EXCEPT !.deleted_at[op.node] = @ \cup {Id(op)} \cup op.known]

\* last writer wins, by operation key
ApplyPayload(t, op) ==
  IF t.writer[op.node] # None /\ ~Precedes(t.writer[op.node], op)
  THEN t
  ELSE UpdateLastChange([t EXCEPT !.writer[op.node] = op], op, {op.node})

ApplyForward(tree, op) ==
  LET t == EnsureNode(tree, {op.node})
  IN CASE op.kind = "insert" ->
            LET s == ApplyInsert(t, op)
            IN IF op.payload # None THEN ApplyPayload(s, op) ELSE s
       [] op.kind = "move" -> ApplyMove(t, op)
       [] op.kind \in {"delete", "tombstone"} -> ApplyDelete(t, op)
       [] op.kind = "payload" -> ApplyPayload(t, op)

-----------------------------------------------------------------------------
(* scan_since(0) visits the stored operations in the order of Precedes.    *)

OperationSet == {S \in SUBSET Operation : IsFiniteSet(S)}

\* load_since(0) keeps the operations with a lamport greater than 0.
LoadSinceZero(S) == {op \in S : op.lamport > 0}

\* The operation the scan of S visits last.
LastOf(S) == CHOOSE op \in S : \A other \in S : ~Precedes(op, other)

\* The tree after the stores are reset and every operation of S is applied.
Replay[S \in OperationSet] ==
  IF S = {} THEN EmptyTree
  ELSE ApplyForward(Replay[S \ {LastOf(S)}], LastOf(S))
=============================================================================
