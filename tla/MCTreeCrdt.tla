----------------------------- MODULE MCTreeCrdt -----------------------------
(***************************************************************************)
(* Instances of TreeCrdt for TLC: what the storages hold at first and the  *)
(* local calls the clients make.                                           *)
(***************************************************************************)
EXTENDS TreeCrdt, TLC

CONSTANTS n1, n2, n3

CallAfter(k, n, p, a, v) ==
  [kind |-> k, node |-> n, parent |-> p, after |-> a, payload |-> v]
Call(k, n, p, v) == CallAfter(k, n, p, None, v)

\* Every call on two nodes.
AllCalls ==
  {Call("insert", n, p, v) : n \in {n1, n2}, p \in Place \ {n3}, v \in {None, "x"}}
  \cup {Call("move", n, p, None) : n \in {n1, n2}, p \in Place \ {n3}}
  \cup {CallAfter("insert", n2, ROOT, n1, None)}
  \cup {Call("delete", n, None, None) : n \in {n1, n2}}
  \cup {Call("payload", n, None, v) : n \in {n1, n2}, v \in {None, "x"}}

Inserted(r, c, l, n, p, v) ==
  [replica |-> r, counter |-> c, lamport |-> l, kind |-> "insert", node |-> n,
   parent |-> p, payload |-> v, known |-> {}]

OneNode == {Inserted(1, 1, 1, n1, ROOT, None)}

\* A parent, its child and a sibling: two concurrent moves would close a cycle,
\* and deletes race with edits inside the subtree and with the moves.
Family == {Inserted(1, 1, 1, n1, ROOT, "x"), Inserted(2, 1, 2, n3, ROOT, None),
           Inserted(1, 3, 3, n2, n1, None)}
FamilyCalls ==
  {Call("move", n1, n3, None), Call("move", n3, n2, None), Call("move", n2, ROOT, None),
   Call("delete", n1, None, None), Call("delete", n2, None, None),
   Call("payload", n2, None, "x")}

\* A call of every kind, few enough to check liveness; the insert fails on a replica
\* that has deleted n1.
SyncCalls ==
  {Call("delete", n1, None, None), Call("payload", n2, None, "x"),
   Call("payload", n1, None, None), Call("move", n2, n1, None),
   CallAfter("insert", n2, ROOT, n1, None)}
=============================================================================
