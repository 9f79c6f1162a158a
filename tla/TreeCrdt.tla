------------------------------ MODULE TreeCrdt ------------------------------
(***************************************************************************)
(* Replicas of the core TreeCrdt object (treecrdt-core/src/tree.rs) over a *)
(* persistent operation storage.  Each replica mints local operations and  *)
(* receives the operations of the others through apply_remote, in any      *)
(* order, any number of times, or not at all; it may stop at any moment    *)
(* and be opened again from its storage.                                   *)
(***************************************************************************)
EXTENDS TreeOps, FiniteSetsExt

CONSTANTS
  Stored,      \* the operations every replica's storage holds when opened first
  Intent,      \* the local calls clients make: [kind, node, parent, after, payload]
  MaxOps,      \* bound: operations in the system
  MaxCounter   \* bound: operation counter of a replica

VARIABLES
  storage,         \* operation log of each replica
  clock,           \* LamportClock::counter
  counter,         \* TreeCrdt::counter, the last operation counter handed out
  tree,            \* TreeCrdt::nodes and TreeCrdt::payloads
  version_vector,  \* TreeCrdt::version_vector
  head,            \* TreeCrdt::head, the last operation applied in order
  op_count         \* TreeCrdt::op_count

vars == <<storage, clock, counter, tree, version_vector, head, op_count>>

IntentType ==
  {i \in [kind : {"insert", "move", "delete", "payload"}, node : Node,
          parent : Place \cup {None}, after : Node \cup {None},
          payload : Payload \cup {None}] :
     /\ i.kind \in {"insert", "move"} => i.parent # None
     /\ i.payload # None => i.kind \in {"insert", "payload"}}

ASSUME StoredAssumption ==
  /\ Stored \in OperationSet
  /\ \A op \in Stored : op.lamport > 0 /\ op.counter > 0
  /\ \A a, b \in Stored : Id(a) = Id(b) => a = b
  /\ \A d \in Stored : \A id \in d.known : \E op \in Stored : Id(op) = id /\ Precedes(op, d)
ASSUME IntentAssumption == Intent \subseteq IntentType
ASSUME BoundAssumption == MaxOps \in Nat /\ MaxCounter \in Nat

AllOps == UNION {storage[r] : r \in Replica}

\* Storage::latest_counter and Storage::latest_lamport
LatestCounter(S, r) == Max({0} \cup {op.counter : op \in {o \in S : o.replica = r}})
LatestLamport(S) == Max({0} \cup {op.lamport : op \in S})

\* VersionVector::get: the largest counter seen of replica r
Get(vv, r) == Max({0} \cup {id[2] : id \in {i \in vv : i[1] = r}})

HeadOf(S) == IF S = {} THEN None ELSE LastOf(S)

\* LamportClock::observe
ClockOnly(r, lamport) == clock[r]   \* fault variant
Observed(r, lamport) == Max({clock[r], lamport})

\* Fault variant: breaks no ties.
IsInOrderByLamport(r, op) == head[r] = None \/ head[r].lamport <= op.lamport

IsInOrder(r, op) == head[r] = None \/ Precedes(head[r], op)

-----------------------------------------------------------------------------
\* Fault variants: no replay; a counter that starts again.
OpenedWithoutReplay(S, r) ==
  [clock |-> LatestLamport(S), counter |-> LatestCounter(S, r),
   tree |-> EmptyTree, vv |-> {}, head |-> None, count |-> 0]
OpenedFromZero(S, r) ==
  LET ops == LoadSinceZero(S)
  IN [clock |-> LatestLamport(S), counter |-> 0, tree |-> Replay[ops],
      vv |-> Ids(ops), head |-> HeadOf(ops), count |-> Cardinality(ops)]

(* TreeCrdt::new on the storage S, then replay_from_storage.               *)
Opened(S, r) ==
  LET ops == LoadSinceZero(S)
  IN [clock   |-> LatestLamport(S),
      counter |-> Max({LatestCounter(S, r), Get(Ids(ops), r)}),
      tree    |-> Replay[ops],
      vv      |-> Ids(ops),
      head    |-> HeadOf(ops),
      count   |-> Cardinality(ops)]

Init ==
  /\ storage = [r \in Replica |-> Stored]
  /\ clock = [r \in Replica |-> Opened(Stored, r).clock]
  /\ counter = [r \in Replica |-> Opened(Stored, r).counter]
  /\ tree = [r \in Replica |-> Opened(Stored, r).tree]
  /\ version_vector = [r \in Replica |-> Opened(Stored, r).vv]
  /\ head = [r \in Replica |-> Opened(Stored, r).head]
  /\ op_count = [r \in Replica |-> Opened(Stored, r).count]

\* The process of r stops; r is opened again on what its storage holds.
Restart(r) ==
  LET o == Opened(storage[r], r)
  IN /\ clock' = [clock EXCEPT ![r] = o.clock]
     /\ counter' = [counter EXCEPT ![r] = o.counter]
     /\ tree' = [tree EXCEPT ![r] = o.tree]
     /\ version_vector' = [version_vector EXCEPT ![r] = o.vv]
     /\ head' = [head EXCEPT ![r] = o.head]
     /\ op_count' = [op_count EXCEPT ![r] = o.count]
     /\ UNCHANGED storage

-----------------------------------------------------------------------------
(* Local operations.                                                       *)

\* The operation minted by r for call i: next_counter and clock.tick.
Minted(r, i, known) ==
  [replica |-> r, counter |-> counter[r] + 1, lamport |-> clock[r] + 1,
   kind |-> i.kind, node |-> i.node, parent |-> i.parent,
   payload |-> i.payload, known |-> known]

CanMint(r) == counter[r] < MaxCounter /\ Cardinality(AllOps) < MaxOps

\* commit_local, after next_counter and clock.tick
CommitLocal(r, op) ==
  /\ counter' = [counter EXCEPT ![r] = op.counter]
  /\ clock' = [clock EXCEPT ![r] = op.lamport]
  /\ version_vector' = [version_vector EXCEPT ![r] = @ \cup {Id(op)}]
  /\ IF Id(op) \in Ids(storage[r])
     THEN UNCHANGED <<storage, tree, head, op_count>>
     ELSE /\ storage' = [storage EXCEPT ![r] = @ \cup {op}]
          /\ tree' = [tree EXCEPT ![r] = ApplyForward(@, op)]
          /\ head' = [head EXCEPT ![r] = op]
          /\ op_count' = [op_count EXCEPT ![r] = @ + 1]

Siblings(r, i) == VisibleChildren(tree[r], i.parent) \ {i.node}

\* The sibling to place after, if one is given, must be a visible child
\* (allocate_child_key_after); TRASH takes any.
CanPlace(r, i) == i.parent = TRASH \/ i.after = None \/ i.after \in Siblings(r, i)

\* There is no such child, or allocate_between finds no key between it and
\* the next one (AllocationFails of module OrderKey).
PlacementMayFail(r, i) ==
  \/ ~CanPlace(r, i)
  \/ i.parent # TRASH /\ i.after # None /\ Siblings(r, i) \ {i.after} # {}

LocalInsertAfter(r, i) ==
  /\ i.kind = "insert" /\ CanMint(r) /\ CanPlace(r, i)
  /\ CommitLocal(r, Minted(r, i, {}))

LocalMoveAfter(r, i) ==
  /\ i.kind = "move" /\ CanMint(r) /\ CanPlace(r, i)
  /\ CommitLocal(r, Minted(r, i, {}))

\* local_insert_after or local_move_after returns an error from the key
\* allocation: the counter and the clock have advanced, nothing else has.
LocalPlacementFails(r, i) ==
  /\ i.kind \in {"insert", "move"} /\ counter[r] < MaxCounter
  /\ PlacementMayFail(r, i)
  /\ counter' = [counter EXCEPT ![r] = @ + 1]
  /\ clock' = [clock EXCEPT ![r] = @ + 1]
  /\ UNCHANGED <<storage, tree, version_vector, head, op_count>>

\* Fault variant: the delete does not record what it knows.
LocalDeleteBlind(r, i) ==
  /\ i.kind = "delete" /\ CanMint(r)
  /\ CommitLocal(r, Minted(r, i, {}))

LocalDelete(r, i) ==
  /\ i.kind = "delete" /\ CanMint(r)
  /\ CommitLocal(r, Minted(r, i, SubtreeVV(tree[r], i.node)))

LocalSetPayload(r, i) ==
  /\ i.kind = "payload" /\ i.payload # None /\ CanMint(r)
  /\ CommitLocal(r, Minted(r, i, {}))

LocalClearPayload(r, i) ==
  /\ i.kind = "payload" /\ i.payload = None /\ CanMint(r)
  /\ CommitLocal(r, Minted(r, i, {}))

-----------------------------------------------------------------------------
(* Remote operations: op is any operation some replica has stored.         *)

\* apply_remote; apply_remote_with_delta also raises the counter for an
\* operation of the replica itself.
ApplyRemoteWith(r, op, raised) ==
  LET log == storage[r] \cup {op}
      seen == LoadSinceZero(log)
      observed == Observed(r, op.lamport)
  IN IF Id(op) \in Ids(storage[r])
     THEN /\ clock' = [clock EXCEPT ![r] = observed]
          /\ counter' = [counter EXCEPT ![r] = raised]
          /\ version_vector' = [version_vector EXCEPT ![r] = @ \cup {Id(op)}]
          /\ UNCHANGED <<storage, tree, head, op_count>>
     ELSE /\ storage' = [storage EXCEPT ![r] = log]
          /\ IF IsInOrder(r, op)
             THEN /\ clock' = [clock EXCEPT ![r] = observed]
                  /\ counter' = [counter EXCEPT ![r] = raised]
                  /\ version_vector' = [version_vector EXCEPT ![r] = @ \cup {Id(op)}]
                  /\ tree' = [tree EXCEPT ![r] = ApplyForward(@, op)]
                  /\ head' = [head EXCEPT ![r] = op]
                  /\ op_count' = [op_count EXCEPT ![r] = @ + 1]
             ELSE \* replay_from_storage
                  /\ clock' = [clock EXCEPT ![r] = Max({observed, LatestLamport(seen)})]
                  /\ counter' = [counter EXCEPT ![r] = Max({raised, Get(Ids(seen), r)})]
                  /\ version_vector' = [version_vector EXCEPT ![r] = Ids(seen)]
                  /\ tree' = [tree EXCEPT ![r] = Replay[seen]]
                  /\ head' = [head EXCEPT ![r] = HeadOf(seen)]
                  /\ op_count' = [op_count EXCEPT ![r] = Cardinality(seen)]

ApplyRemote(r, op) == ApplyRemoteWith(r, op, counter[r])

ApplyRemoteWithDelta(r, op) ==
  ApplyRemoteWith(r, op,
    IF op.replica = r THEN Max({counter[r], op.counter}) ELSE counter[r])

Local(r, i) ==
  \/ LocalInsertAfter(r, i)
  \/ LocalMoveAfter(r, i)
  \/ LocalPlacementFails(r, i)
  \/ LocalDelete(r, i)
  \/ LocalSetPayload(r, i)
  \/ LocalClearPayload(r, i)

Next ==
  \E r \in Replica :
    \/ Restart(r)
    \/ \E i \in Intent : Local(r, i)
    \/ \E op \in AllOps : ApplyRemote(r, op) \/ ApplyRemoteWithDelta(r, op)

Spec == Init /\ [][Next]_vars

-----------------------------------------------------------------------------
(* Properties.                                                             *)

(* Type correctness of a replica's state. *)
TypeOK ==
  /\ storage \in [Replica -> OperationSet]
  /\ clock \in [Replica -> Nat]
  /\ counter \in [Replica -> Nat]
  /\ tree \in [Replica -> Tree]
  /\ version_vector \in [Replica -> SUBSET OperationId]
  /\ head \in [Replica -> Operation \cup {None}]
  /\ op_count \in [Replica -> Nat]

(* Convergence: the tree a replica shows is the one its set of operations  *)
(* determines, whatever the order in which local calls, apply_remote and   *)
(* restarts built it up.  Replicas with the same operations show the same  *)
(* tree: apply_forward on an in-order operation agrees with the replay.    *)
TreeIsReplay == \A r \in Replica : tree[r] = Replay[storage[r]]

(* What is_in_order and the counters rely on: the head is the last stored  *)
(* operation, the clock is not behind any stored operation, the counter is *)
(* not behind any operation of the replica, and the version vector and the *)
(* operation count describe the storage.                                   *)
BookkeepingMatchesStorage ==
  \A r \in Replica :
    /\ head[r] = HeadOf(storage[r])
    /\ version_vector[r] = Ids(storage[r])
    /\ op_count[r] = Cardinality(storage[r])
    /\ \A op \in storage[r] :
         op.lamport <= clock[r] /\ (op.replica = r => op.counter <= counter[r])

IdsAreUnique == \A a, b \in AllOps : Id(a) = Id(b) => a = b

(* Operation ids are never reused, across restarts included: no id is that *)
(* of two operations, and the next one a replica hands out is new.         *)
(* Storage::apply, which silently drops an operation whose id it has,      *)
(* never drops a different one.                                            *)
IdsAreNeverReused ==
  /\ IdsAreUnique
  /\ \A op \in AllOps : op.counter <= counter[op.replica]

(* validate_invariants / has_cycle_from: no walk along the parents returns *)
(* to its start, whatever moves were made concurrently.                    *)
Acyclic == \A r \in Replica : IsAcyclic(tree[r])

(* A delete's known_state names only operations that precede the delete:   *)
(* the deleting replica had them, and every replay applies them first.     *)
KnowledgeIsCausal ==
  \A d \in AllOps : \A id \in d.known :
    \A op \in AllOps : Id(op) = id => Precedes(op, d)

(* The operations of S that made what is now in n's subtree of t.          *)
InEffect(S, t, n) ==
  {op \in S : /\ op.node \in Subtree(t, n)
              /\ \/ op.kind = "payload" \/ op.payload # None
                 \/ op = t.place[op.node]}

(* Defensive deletion: a node is hidden only if every change in its        *)
(* subtree was known to a replica that deleted it; a change made           *)
(* concurrently with the delete, or later, keeps the node visible.  What a *)
(* delete knows precedes it, so every replay applies it first.             *)
DeletionIsDefensive ==
  /\ KnowledgeIsCausal
  /\ \A r \in Replica : \A n \in Node :
       IsTombstoned(tree[r], n) =>
         \A op \in InEffect(storage[r], tree[r], n) :
           \E d \in storage[r] :
             d.kind \in {"delete", "tombstone"} /\ d.node = n /\ Id(op) \in d.known

(* The effect a client sees of its own call, on the tree t before and u    *)
(* after it.                                                               *)
TookEffect(t, u, op) ==
  CASE op.kind = "delete" -> IsTombstoned(u, op.node)
    [] op.kind = "payload" ->
         /\ u.writer[op.node] = op
         /\ \A a \in Chain(u, op.node) : ~IsTombstoned(u, a)
    [] op.kind \in {"insert", "move"} ->
         \/ op.parent = op.node
         \/ IntroducesCycle(t, op.node, op.parent)
         \/ /\ u.place[op.node] = op
            /\ \A a \in Chain(u, op.node) : ~IsTombstoned(u, a)

(* A local call takes effect at once on the replica that makes it, however *)
(* far other replicas' clocks are ahead and whatever was deleted: the      *)
(* target and its ancestors are visible after an insert, move or payload,  *)
(* the target is hidden after a delete.                                    *)
LocalCallsTakeEffect ==
  [][\A r \in Replica : \A op \in storage'[r] \ AllOps :
        TookEffect(tree[r], tree'[r], op)]_vars

(* The replicas implement the abstract log, for the tree that resetting the *)
(* stores and replaying the set of operations gives.                        *)
ReplayOf(S) == Replay[S]
Abstract == INSTANCE TreeLog WITH
              log <- storage, shown <- tree, IdOf <- Id, TreeOf <- ReplayOf
ImplementsTreeLog == Abstract!Spec

(* Every operation stored by a replica is eventually offered to each other *)
(* replica (the sync layer retries); local calls are never obliged.        *)
Fairness ==
  \A r \in Replica :
    WF_vars(\E op \in AllOps : op \notin storage[r] /\ ApplyRemote(r, op))

FairSpec == Spec /\ Fairness

(* Replicas that exchange operations end up with the same storage and the  *)
(* same tree, and stay there once clients stop editing.                    *)
EventuallyConsistent ==
  <>[](\A r, s \in Replica : storage[r] = storage[s] /\ tree[r] = tree[s])
=============================================================================
