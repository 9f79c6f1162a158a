------------------------------ MODULE TreeLog ------------------------------
(***************************************************************************)
(* What the tree CRDT promises, without clocks, heads or incremental       *)
(* application: a replica holds a growing set of operations and shows the  *)
(* tree that this set, and nothing else, determines.                       *)
(***************************************************************************)
CONSTANTS
  Replica,      \* replica ids
  Stored,       \* the operations every replica starts with
  IdOf(_),      \* the id of an operation
  TreeOf(_)     \* the tree a set of operations determines

VARIABLES
  log,    \* the operations of each replica
  shown   \* the tree each replica shows

Init ==
  /\ log = [r \in Replica |-> Stored]
  /\ shown = [r \in Replica |-> TreeOf(Stored)]

\* r learns op: it minted it under an id no replica has, or another has it.
Learn(r, op) ==
  /\ \/ op.replica = r /\ \A s \in Replica : \A o \in log[s] : IdOf(o) # IdOf(op)
     \/ \E s \in Replica : op \in log[s]
  /\ log' = [log EXCEPT ![r] = @ \cup {op}]
  /\ shown' = [shown EXCEPT ![r] = TreeOf(log'[r])]

Next == \E r \in Replica : \E op \in log'[r] : Learn(r, op)

Spec == Init /\ [][Next]_<<log, shown>>
=============================================================================
