---------------------------- MODULE SiblingOrder ----------------------------
(***************************************************************************)
(* The children of one parent on one replica: the node store's sorted list *)
(* (MemoryNodeStore::attach and detach), kept by local placements, which   *)
(* allocate a key next to a visible sibling (allocate_child_key_after),    *)
(* and by the operations of other replicas, which bring the key they       *)
(* allocated among the siblings they knew.                                 *)
(***************************************************************************)
EXTENDS OrderKey, FiniteSetsExt, SequencesExt

CONSTANTS
  Node,     \* node ids, compared by their bytes, here numbers
  None,     \* Rust's None
  MaxLen    \* bound: digits in a key

ASSUME NodeAssumption == Node \subseteq Nat /\ None \notin Node
ASSUME MaxLenAssumption == MaxLen \in Nat

VARIABLES
  children,   \* NodeState::children of the parent
  order_key,  \* NodeState::order_key of each node; <<>> when not a child
  hidden      \* the children that is_tombstoned hides

vars == <<children, order_key, hidden>>

Init ==
  /\ children = <<>>
  /\ order_key = [n \in Node |-> <<>>]
  /\ hidden = {}

\* A child occurs once in the list.
Detached(seq, n) == RemoveFirst(seq, n)

\* The position of a child; before all for no child.
Place(seq, c) == IF c = None THEN 0 ELSE SelectInSeq(seq, LAMBDA d : d = c)

\* Fault variant: equal keys stay in the order they arrive.
SortsAfterByKey(c, n, k) == Less(k, order_key[c])

\* Child c sorts after key k of node n.
SortsAfter(c, n, k) == Less(k, order_key[c]) \/ (order_key[c] = k /\ c > n)

\* The first position whose child sorts after (k, n), or the end.
Position(seq, n, k) ==
  Min({i \in 1 .. Len(seq) + 1 : i = Len(seq) + 1 \/ SortsAfter(seq[i], n, k)})

\* detach and attach n with key k; the operation makes n visible.
Attach(n, k) ==
  LET rest == Detached(children, n)
  IN /\ children' = InsertAt(rest, Position(rest, n, k), n)
     /\ order_key' = [order_key EXCEPT ![n] = k]
     /\ hidden' = hidden \ {n}

\* TreeCrdt::children without n
VisibleSiblings(n) == ToSet(children) \ ({n} \cup hidden)

\* The keys next to the place after sibling `after`, or before all.
LeftKey(after) == IF after = None THEN <<>> ELSE order_key[after]
\* Fault variant: always appends at the end of the list.
NoRightKey(n, after) == <<>>

RightKey(n, after) ==
  LET later == {i \in Place(children, after) + 1 .. Len(children) :
                  children[i] \in VisibleSiblings(n)}
  IN IF later = {} THEN <<>> ELSE order_key[children[Min(later)]]

\* local_insert_after, local_move_after: allocate_child_key_after, then attach
PlaceAfter(n, after) ==
  /\ after \in VisibleSiblings(n) \cup {None}
  /\ \E k \in Allocated(LeftKey(after), RightKey(n, after)) :
       Len(k) <= MaxLen /\ Attach(n, k)

\* An operation of another replica, which saw some of these siblings.
PlaceRemote(n) ==
  \E left, right \in {order_key[c] : c \in ToSet(children) \ {n}} \cup {<<>>} :
    /\ right = <<>> \/ ~Less(right, left)
    /\ \E k \in Allocated(left, right) : Len(k) <= MaxLen /\ Attach(n, k)

\* The node is moved to another parent.
MoveAway(n) ==
  /\ n \in ToSet(children)
  /\ children' = Detached(children, n)
  /\ order_key' = [order_key EXCEPT ![n] = <<>>]
  /\ hidden' = hidden \ {n}

\* A delete hides the node, which stays in the list; a change shows it again.
Hide(n) ==
  /\ n \in ToSet(children) \ hidden
  /\ hidden' = hidden \cup {n}
  /\ UNCHANGED <<children, order_key>>
Show(n) ==
  /\ n \in hidden
  /\ hidden' = hidden \ {n}
  /\ UNCHANGED <<children, order_key>>

Next ==
  \E n \in Node :
    \/ \E after \in Node \cup {None} : PlaceAfter(n, after)
    \/ PlaceRemote(n)
    \/ MoveAway(n)
    \/ Hide(n)
    \/ Show(n)

Spec == Init /\ [][Next]_vars

-----------------------------------------------------------------------------
(* Properties.                                                             *)

(* Every key a sequence of placements can allocate is well formed: no      *)
(* digit reaches u16::MAX, where ld + 1 would overflow, and no key ends in *)
(* 0, below which allocate_between would leave the interval.               *)
KeysAreWellFormed == \A i \in 1 .. Len(children) : WellFormed(order_key[children[i]])

(* attach's scan for the first larger sibling keeps the list sorted by     *)
(* (key, node id), so replicas that attach in different orders agree on    *)
(* the order of the children.                                              *)
ChildrenAreSorted ==
  \A i, j \in 1 .. Len(children) :
    i < j =>
      LET a == children[i] b == children[j]
      IN Less(order_key[a], order_key[b]) \/ (order_key[a] = order_key[b] /\ a < b)

(* A local placement after a sibling puts the node directly after it among *)
(* the visible children, unless that sibling and the next have equal keys. *)
GoesDirectlyAfter(n, after) ==
  LeftKey(after) # RightKey(n, after) \/ VisibleSiblings(n) = {} =>
    /\ n \in ToSet(children') \ hidden'
    /\ ToSet(children') \ ({n} \cup hidden') = VisibleSiblings(n)
    /\ Place(children', after) < Place(children', n)
    /\ \A c \in VisibleSiblings(n) :
         Place(children', c) <= Place(children', after) \/ Place(children', n) < Place(children', c)
    /\ \A c, d \in VisibleSiblings(n) :
         Place(children, c) < Place(children, d) => Place(children', c) < Place(children', d)
PlacementIsDirectlyAfter ==
  [][\A n \in Node : \A after \in Node \cup {None} :
        PlaceAfter(n, after) => GoesDirectlyAfter(n, after)]_vars

(* "Allocate a stable ordering key strictly between left and right": there *)
(* is a key to allocate between any two neighbours in order.               *)
NeighboursHaveRoom ==
  \A n \in Node : \A after \in VisibleSiblings(n) :
    LET left == LeftKey(after) right == RightKey(n, after)
    IN right # <<>> /\ Less(left, right) => ~AllocationFails(left, right)
=============================================================================
