---------------------------- MODULE KnowledgeSets ----------------------------
(***************************************************************************)
(* What a version vector promises: it is a set of operation ids.           *)
(***************************************************************************)
EXTENDS Naturals

CONSTANTS
  Vector,     \* the version vectors in play
  Replica,    \* replica ids
  MaxSeen     \* bound: the largest counter of each replica

VARIABLE known   \* the ids each vector contains

Init == known = [x \in Vector |-> {}]

Next ==
  \E x \in Vector :
    \/ known' = [known EXCEPT ![x] = {}]
    \/ \E r \in Replica : \E c \in 1 .. MaxSeen[r] :
         known' = [known EXCEPT ![x] = @ \cup {<<r, c>>}]
    \/ \E y \in Vector : known' = [known EXCEPT ![x] = @ \cup known[y]]

Spec == Init /\ [][Next]_known
=============================================================================
