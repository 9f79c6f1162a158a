--------------------------- MODULE TreeCrdtProofs ---------------------------
(***************************************************************************)
(* Proofs about TreeOps and TreeCrdt, for every set of replicas, nodes,    *)
(* payloads, initial storage and local calls.                              *)
(*                                                                         *)
(* First facts about the operators of TreeOps: the order of operations,    *)
(* the last operation of a finite set, the equations of Replay, and what   *)
(* applying an operation preserves.  Induction over finite sets is done    *)
(* with a minimal counterexample: strict inclusion of finite sets is well  *)
(* founded.  Then the replicas: the inductive invariant and what follows.  *)
(***************************************************************************)
EXTENDS TreeCrdt, FiniteSetTheorems, WellFoundedInduction, TLAPS

-----------------------------------------------------------------------------
(* The operators of TreeOps.                                               *)


(* A non-empty collection of finite sets has a member with no strict       *)
(* subset in the collection.                                               *)
LEMMA MinimalSet ==
  ASSUME NEW U, NEW Bad, Bad \subseteq FiniteSubsetsOf(U), Bad # {}
  PROVE  \E X \in Bad : \A Y \in Bad : Y \subseteq X => Y = X
<1>1. IsWellFoundedOn(StrictSubsetOrdering(U), FiniteSubsetsOf(U))
  BY FS_StrictSubsetOrderingWellFounded
<1>2. PICK X \in Bad : \A Y \in Bad : <<Y, X>> \notin StrictSubsetOrdering(U)
  BY <1>1, WFMin
<1>3. \A Y \in Bad : Y \in SUBSET U
  BY DEF FiniteSubsetsOf
<1> QED BY <1>2, <1>3 DEF StrictSubsetOrdering

(* The sets of operations are the finite sets of operations. *)
LEMMA OperationSets == OperationSet = FiniteSubsetsOf(Operation)
BY DEF OperationSet, FiniteSubsetsOf

(* A set of operations without one of them is a set of operations. *)
LEMMA RemoveOne ==
  ASSUME NEW S \in OperationSet, NEW x
  PROVE  S \ {x} \in OperationSet
BY FS_RemoveElement DEF OperationSet

(* A set of operations with one more is a set of operations. *)
LEMMA AddOne ==
  ASSUME NEW S \in OperationSet, NEW op \in Operation
  PROVE  S \cup {op} \in OperationSet
BY FS_AddElement DEF OperationSet

-----------------------------------------------------------------------------
(* The fields of an operation. *)
LEMMA OperationFields ==
  ASSUME NEW op \in Operation
  PROVE  /\ op.replica \in Replica /\ op.counter \in Nat /\ op.lamport \in Nat
         /\ op.kind \in Kind /\ op.node \in Node
         /\ op.parent \in Place \cup {None}
         /\ op.payload \in Payload \cup {None}
         /\ op.known \in SUBSET OperationId
         /\ op.kind \in {"insert", "move"} => op.parent \in Place
         /\ op.payload # None => op.kind \in {"insert", "payload"}
<1>1. op \in [replica : Replica, counter : Nat, lamport : Nat, kind : Kind,
              node : Node, parent : Place \cup {None},
              payload : Payload \cup {None}, known : SUBSET OperationId]
  BY DEF Operation
<1>2. /\ op.kind \in {"insert", "move"} => op.parent # None
      /\ op.payload # None => op.kind \in {"insert", "payload"}
  BY DEF Operation
<1> QED BY <1>1, <1>2

(* cmp_op_key is a strict order, total up to equal ids. *)
LEMMA PrecedesOrder ==
  /\ \A a \in Operation : ~Precedes(a, a)
  /\ \A a, b, c \in Operation : Precedes(a, b) /\ Precedes(b, c) => Precedes(a, c)
  /\ \A a, b \in Operation : Precedes(a, b) \/ Precedes(b, a) \/ Id(a) = Id(b)
<1>1. \A a \in Operation :
        a.lamport \in Int /\ a.replica \in Int /\ a.counter \in Int
  <2> TAKE a \in Operation
  <2>1. a.replica \in Replica /\ a.counter \in Nat /\ a.lamport \in Nat
    BY OperationFields
  <2>2. a.replica \in Nat
    BY <2>1, ReplicaAssumption
  <2>3. a.lamport \in Int /\ a.counter \in Int
    BY <2>1
  <2> QED BY <2>2, <2>3
<1> QED BY <1>1 DEF Precedes, Id

(* A finite non-empty set of operations has a last operation. *)
LEMMA LastOfExists ==
  ASSUME NEW S \in OperationSet, S # {}
  PROVE  /\ LastOf(S) \in S
         /\ \A other \in S : ~Precedes(LastOf(S), other)
<1> DEFINE HasLast(T) == \E op \in T : \A other \in T : ~Precedes(op, other)
           Bad == {T \in FiniteSubsetsOf(Operation) : T # {} /\ ~HasLast(T)}
<1>1. SUFFICES Bad = {}
  BY OperationSets DEF LastOf
<1>2. SUFFICES ASSUME Bad # {} PROVE FALSE
  OBVIOUS
<1>3. Bad \subseteq FiniteSubsetsOf(Operation)
  OBVIOUS
<1>4. PICK X \in Bad : \A Y \in Bad : Y \subseteq X => Y = X
  <2> HIDE DEF Bad
  <2> QED BY <1>2, <1>3, MinimalSet
<1>5. X \in OperationSet /\ X # {} /\ X \subseteq Operation
  BY OperationSets DEF OperationSet
<1>6. PICK x \in X : TRUE
  BY <1>5
<1>7. CASE X \ {x} = {}
  <2>1. X = {x} BY <1>6, <1>7
  <2> QED BY <2>1, <1>5, PrecedesOrder
<1>8. CASE X \ {x} # {}
  <2>1. X \ {x} \in FiniteSubsetsOf(Operation)
    BY <1>5, RemoveOne, OperationSets
  <2>2. X \ {x} # X
    BY <1>6
  <2>3. HasLast(X \ {x})
    BY <2>1, <2>2, <1>4, <1>8
  <2>4. PICK y \in X \ {x} : \A other \in X \ {x} : ~Precedes(y, other)
    BY <2>3
  <2>5. CASE Precedes(y, x)
    <3>1. \A other \in X : ~Precedes(x, other)
      BY <2>4, <2>5, <1>5, <1>6, PrecedesOrder
    <3> QED BY <3>1, <1>6
  <2>6. CASE ~Precedes(y, x)
    BY <2>4, <2>6
  <2> QED BY <2>5, <2>6
<1> QED BY <1>7, <1>8

(* An operation after all of S is the last of S with it. *)
LEMMA LastOfAdded ==
  ASSUME NEW S \in OperationSet, NEW op \in Operation,
         \A o \in S : Precedes(o, op)
  PROVE  LastOf(S \cup {op}) = op
<1> DEFINE T == S \cup {op}
<1>1. T \in OperationSet /\ T # {}
  BY AddOne
<1>2. LastOf(T) \in T /\ \A other \in T : ~Precedes(LastOf(T), other)
  <2> HIDE DEF T
  <2> QED BY <1>1, LastOfExists
<1> QED BY <1>2

(* Taking the last operation away leaves a strictly smaller set. *)
LEMMA RestShrinks ==
  ASSUME NEW S \in OperationSet, S # {}
  PROVE  /\ S \ {LastOf(S)} \in OperationSet
         /\ S \ {LastOf(S)} \subseteq S
         /\ S \ {LastOf(S)} # S
         /\ LastOf(S) \in Operation
BY RemoveOne, LastOfExists DEF OperationSet

-----------------------------------------------------------------------------
(* The body of Replay, and functions that satisfy it on the subsets of S.  *)
Body(g, S) ==
  IF S = {} THEN EmptyTree ELSE ApplyForward(g[S \ {LastOf(S)}], LastOf(S))

ReplaysUpTo(g, S) == g = [T \in SUBSET S |-> Body(g, T)]

(* Every subset of a set of operations is one. *)
LEMMA SubsetOfOperationSet ==
  ASSUME NEW S \in OperationSet, NEW T \in SUBSET S
  PROVE  T \in OperationSet
BY FS_Subset DEF OperationSet

(* Such functions agree where both are defined. *)
LEMMA ReplaysAgree ==
  ASSUME NEW S \in OperationSet, NEW R \in OperationSet, NEW g, NEW h,
         ReplaysUpTo(g, S), ReplaysUpTo(h, R)
  PROVE  \A T \in (SUBSET S) \cap (SUBSET R) : g[T] = h[T]
<1> DEFINE Bad == {T \in (SUBSET S) \cap (SUBSET R) : g[T] # h[T]}
<1>1. SUFFICES ASSUME Bad # {} PROVE FALSE
  OBVIOUS
<1>2. Bad \subseteq FiniteSubsetsOf(Operation)
  BY SubsetOfOperationSet, OperationSets
<1>3. PICK X \in Bad : \A Y \in Bad : Y \subseteq X => Y = X
  <2> HIDE DEF Bad
  <2> QED BY <1>1, <1>2, MinimalSet
<1>4. X \in OperationSet
  BY <1>2, OperationSets
<1>5. g[X] = Body(g, X) /\ h[X] = Body(h, X)
  BY DEF ReplaysUpTo
<1>6. CASE X = {}
  BY <1>5, <1>6 DEF Body
<1>7. CASE X # {}
  <2> DEFINE Y == X \ {LastOf(X)}
  <2>1. Y \subseteq X /\ Y # X
    BY <1>4, <1>7, RestShrinks
  <2>2. Y \notin Bad
    BY <2>1, <1>3
  <2>3. g[Y] = h[Y]
    BY <2>1, <2>2
  <2> QED BY <2>3, <1>5, <1>7 DEF Body
<1> QED BY <1>6, <1>7

(* There is such a function for every set of operations. *)
LEMMA ReplaysExist ==
  \A S \in OperationSet : \E g : ReplaysUpTo(g, S)
<1> DEFINE Bad == {S \in FiniteSubsetsOf(Operation) : ~\E g : ReplaysUpTo(g, S)}
<1>1. SUFFICES ASSUME Bad # {} PROVE FALSE
  BY OperationSets
<1>2. Bad \subseteq FiniteSubsetsOf(Operation)
  OBVIOUS
<1>3. PICK X \in Bad : \A Y \in Bad : Y \subseteq X => Y = X
  <2> HIDE DEF Bad
  <2> QED BY <1>1, <1>2, MinimalSet
<1>4. X \in OperationSet
  BY <1>2, OperationSets
<1> DEFINE Of(Y) == CHOOSE g : ReplaysUpTo(g, Y)
           At == [Y \in SUBSET X |-> Of(Y)[Y]]
           G == [T \in SUBSET X |-> Body(At, T)]
<1>5. ASSUME NEW Y \in SUBSET X, Y # X
      PROVE  ReplaysUpTo(Of(Y), Y)
  <2>1. Y \in FiniteSubsetsOf(Operation)
    BY <1>4, SubsetOfOperationSet, OperationSets
  <2>2. \E g : ReplaysUpTo(g, Y)
    BY <2>1, <1>3, <1>5
  <2> QED BY <2>2
<1>6. ASSUME NEW Y \in SUBSET X, Y # X
      PROVE  At[Y] = Body(At, Y)
  <2>1. Y \in OperationSet
    BY <1>4, SubsetOfOperationSet
  <2>2. ReplaysUpTo(Of(Y), Y)
    BY <1>5, <1>6
  <2>3. Of(Y)[Y] = Body(Of(Y), Y)
    <3> HIDE DEF Of
    <3> QED BY <2>2 DEF ReplaysUpTo
  <2>4. At[Y] = Of(Y)[Y]
    OBVIOUS
  <2>5. CASE Y = {}
    BY <2>3, <2>4, <2>5 DEF Body
  <2>6. CASE Y # {}
    <3> DEFINE Z == Y \ {LastOf(Y)}
    <3>1. Z \in OperationSet /\ Z \subseteq Y /\ Z # Y
      BY <2>1, <2>6, RestShrinks
    <3>2. Z \in SUBSET X /\ Z # X
      BY <3>1, <1>6
    <3>3. ReplaysUpTo(Of(Z), Z)
      BY <3>2, <1>5
    <3>4. Of(Y)[Z] = Of(Z)[Z]
      <4> HIDE DEF Of, Z
      <4> QED BY <2>1, <2>2, <3>1, <3>3, ReplaysAgree
    <3>5. At[Z] = Of(Z)[Z]
      BY <3>2
    <3> HIDE DEF Of, At
    <3> QED BY <2>3, <2>4, <3>4, <3>5, <2>6 DEF Body
  <2> QED BY <2>5, <2>6
<1>7. \A T \in SUBSET X : Body(At, T) = Body(G, T)
  <2> TAKE T \in SUBSET X
  <2>1. T \in OperationSet
    BY <1>4, SubsetOfOperationSet
  <2>2. CASE T = {}
    BY <2>2 DEF Body
  <2>3. CASE T # {}
    <3> DEFINE Z == T \ {LastOf(T)}
    <3>1. Z \in SUBSET X /\ Z # X
      BY <2>1, <2>3, RestShrinks
    <3>2. At[Z] = Body(At, Z)
      <4> HIDE DEF At, Z
      <4> QED BY <3>1, <1>6
    <3>3. G[Z] = Body(At, Z)
      <4> HIDE DEF At, Z
      <4> QED BY <3>1
    <3> HIDE DEF At, G
    <3> QED BY <3>2, <3>3, <2>3 DEF Body
  <2> QED BY <2>2, <2>3
<1>8. ReplaysUpTo(G, X)
  <2> HIDE DEF At
  <2> QED BY <1>7 DEF ReplaysUpTo
<1> QED BY <1>8, <1>3

(* The recursive definition of Replay is well founded: Replay satisfies    *)
(* its own equation on every finite set of operations.                     *)
THEOREM ReplayEquation ==
  \A S \in OperationSet : Replay[S] = Body(Replay, S)
<1> DEFINE Of(Y) == CHOOSE g : ReplaysUpTo(g, Y)
           F == [Y \in OperationSet |-> Of(Y)[Y]]
<1>1. ASSUME NEW Y \in OperationSet
      PROVE  ReplaysUpTo(Of(Y), Y)
  BY ReplaysExist
<1>2. ASSUME NEW Y \in OperationSet
      PROVE  F[Y] = Body(F, Y)
  <2>1. ReplaysUpTo(Of(Y), Y)
    BY <1>1
  <2>2. Of(Y)[Y] = Body(Of(Y), Y)
    <3> HIDE DEF Of
    <3> QED BY <2>1 DEF ReplaysUpTo
  <2>3. F[Y] = Of(Y)[Y]
    OBVIOUS
  <2>4. CASE Y = {}
    BY <2>2, <2>3, <2>4 DEF Body
  <2>5. CASE Y # {}
    <3> DEFINE Z == Y \ {LastOf(Y)}
    <3>1. Z \in OperationSet /\ Z \subseteq Y
      BY <2>5, RestShrinks
    <3>2. Of(Y)[Z] = Of(Z)[Z]
      <4>1. ReplaysUpTo(Of(Z), Z)
        BY <3>1, <1>1
      <4> HIDE DEF Of, Z
      <4> QED BY <2>1, <3>1, <4>1, ReplaysAgree
    <3>3. F[Z] = Of(Z)[Z]
      BY <3>1
    <3> HIDE DEF Of, F
    <3> QED BY <2>2, <2>3, <3>2, <3>3, <2>5 DEF Body
  <2> QED BY <2>4, <2>5
<1>3. F = [S \in OperationSet |-> Body(F, S)]
  <2> HIDE DEF Of
  <2>1. F = [S \in OperationSet |-> F[S]]
    OBVIOUS
  <2> HIDE DEF F
  <2> QED BY <1>2, <2>1
<1>4. \E g : g = [S \in OperationSet |-> Body(g, S)]
  <2> HIDE DEF F
  <2> QED BY <1>3
<1>5. Replay = [S \in OperationSet |-> Body(Replay, S)]
  BY <1>4 DEF Replay, Body
<1> QED BY <1>5

(* Replaying one more operation, later than all others, is applying it.    *)
LEMMA ReplayAppend ==
  ASSUME NEW S \in OperationSet, NEW op \in Operation,
         \A o \in S : Precedes(o, op)
  PROVE  Replay[S \cup {op}] = ApplyForward(Replay[S], op)
<1>1. LastOf(S \cup {op}) = op
  BY LastOfAdded
<1>2. op \notin S
  BY PrecedesOrder
<1>3. (S \cup {op}) \ {op} = S
  BY <1>2
<1>4. S \cup {op} \in OperationSet /\ S \cup {op} # {}
  BY AddOne
<1> QED BY <1>1, <1>3, <1>4, ReplayEquation DEF Body

-----------------------------------------------------------------------------
(* The fields of a tree, and trees built field by field. *)
LEMMA TreeFields ==
  ASSUME NEW t \in Tree
  PROVE  /\ t = [exists |-> t.exists, place |-> t.place,
                 last_change |-> t.last_change, deleted_at |-> t.deleted_at,
                 writer |-> t.writer]
         /\ t.exists \in SUBSET Place
         /\ t.place \in [Node -> Operation \cup {None}]
         /\ t.last_change \in [Place -> SUBSET OperationId]
         /\ t.deleted_at \in [Node -> SUBSET OperationId]
         /\ t.writer \in [Node -> Operation \cup {None}]
BY DEF Tree

(* The reset stores hold a tree. *)
LEMMA EmptyTreeType == EmptyTree \in Tree
BY DEF EmptyTree, Tree, Place

(* The id of an operation is an operation id. *)
LEMMA IdType ==
  ASSUME NEW op \in Operation
  PROVE  Id(op) \in OperationId /\ {Id(op)} \cup op.known \subseteq OperationId
BY OperationFields DEF Id, OperationId

(* The parent of a node is a place or None. *)
LEMMA ParentType ==
  ASSUME NEW t \in Tree, NEW n \in Node
  PROVE  Parent(t, n) \in Place \cup {None}
BY TreeFields, OperationFields DEF Parent

(* ensure_node keeps the stores a tree and moves no node. *)
LEMMA EnsureNodeType ==
  ASSUME NEW t \in Tree, NEW P \in SUBSET Place
  PROVE  /\ EnsureNode(t, P) \in Tree
         /\ EnsureNode(t, P).place = t.place
BY TreeFields DEF EnsureNode, Tree

(* update_last_change keeps the stores a tree and moves no node. *)
LEMMA UpdateLastChangeType ==
  ASSUME NEW t \in Tree, NEW op \in Operation, NEW P
  PROVE  /\ UpdateLastChange(t, op, P) \in Tree
         /\ UpdateLastChange(t, op, P).place = t.place
<1> DEFINE lc == [p \in Place |-> IF p \in P THEN t.last_change[p] \cup {Id(op)} \cup op.known
                                 ELSE t.last_change[p]]
<1>1. \A p \in Place : t.last_change[p] \subseteq OperationId
  BY TreeFields
<1>2. lc \in [Place -> SUBSET OperationId]
  BY <1>1, IdType
<1>3. UpdateLastChange(t, op, P) = [t EXCEPT !.last_change = lc]
  BY DEF UpdateLastChange
<1> HIDE DEF lc
<1> QED BY <1>2, <1>3, TreeFields DEF Tree

(* attach keeps the stores a tree; it moves the node of the operation. *)
LEMMA AttachType ==
  ASSUME NEW t \in Tree, NEW op \in Operation
  PROVE  /\ Attach(t, op) \in Tree
         /\ Attach(t, op).place = [t.place EXCEPT ![op.node] = op]
<1>1. op.node \in Node
  BY OperationFields
<1> QED BY <1>1, TreeFields DEF Attach, Tree

(* apply_payload keeps the stores a tree and moves no node. *)
LEMMA ApplyPayloadType ==
  ASSUME NEW t \in Tree, NEW op \in Operation
  PROVE  /\ ApplyPayload(t, op) \in Tree
         /\ ApplyPayload(t, op).place = t.place
<1> DEFINE w == [t EXCEPT !.writer[op.node] = op]
<1>1. op.node \in Node
  BY OperationFields
<1>2. w \in Tree /\ w.place = t.place
  BY <1>1, TreeFields DEF Tree
<1>3. ApplyPayload(t, op) \in {t, UpdateLastChange(w, op, {op.node})}
  BY DEF ApplyPayload
<1> HIDE DEF w
<1> QED BY <1>2, <1>3, UpdateLastChangeType

(* apply_delete keeps the stores a tree and moves no node. *)
LEMMA ApplyDeleteType ==
  ASSUME NEW t \in Tree, NEW op \in Operation
  PROVE  /\ ApplyDelete(t, op) \in Tree
         /\ ApplyDelete(t, op).place = t.place
<1>1. op.node \in Node
  BY OperationFields
<1>2. t.deleted_at[op.node] \cup {Id(op)} \cup op.known \in SUBSET OperationId
  BY <1>1, IdType, TreeFields
<1> QED BY <1>1, <1>2, TreeFields DEF ApplyDelete, Tree

(* Inserting or moving op.node either leaves every placement as it is, or  *)
(* places op.node by op where that closes no cycle.                        *)
Placed(t, u, op) ==
  \/ u.place = t.place
  \/ /\ u.place = [t.place EXCEPT ![op.node] = op]
     /\ op.parent # op.node
     /\ ~IntroducesCycle(t, op.node, op.parent)

(* Chains depend on the placements only. *)
LEMMA SamePlaceSameShape ==
  ASSUME NEW t, NEW u, u.place = t.place
  PROVE  /\ \A n, p : IntroducesCycle(u, n, p) = IntroducesCycle(t, n, p)
         /\ \A n : Parent(u, n) = Parent(t, n)
         /\ IsAcyclic(u) = IsAcyclic(t)
<1>1. \A n : Parent(u, n) = Parent(t, n)
  BY DEF Parent
<1>2. \A S : UpClosed(u, S) = UpClosed(t, S)
  BY <1>1 DEF UpClosed
<1>3. \A p : Chain(u, p) = Chain(t, p)
  BY <1>2 DEF Chain
<1> QED BY <1>1, <1>3 DEF IntroducesCycle, IsAcyclic

(* apply_insert keeps the stores a tree; it moves no node or places its own. *)
LEMMA ApplyInsertType ==
  ASSUME NEW t \in Tree, NEW op \in Operation, op.kind = "insert"
  PROVE  ApplyInsert(t, op) \in Tree /\ Placed(t, ApplyInsert(t, op), op)
<1>1. op.parent \in Place
  BY OperationFields
<1> DEFINE s == EnsureNode(t, {op.parent})
<1>2. s \in Tree /\ s.place = t.place
  BY <1>1, EnsureNodeType
<1> HIDE DEF s
<1>3. Attach(s, op) \in Tree /\ Attach(s, op).place = [t.place EXCEPT ![op.node] = op]
  BY <1>2, AttachType
<1> DEFINE u == UpdateLastChange(Attach(s, op), op, {op.node, op.parent})
<1>4. u \in Tree /\ u.place = [t.place EXCEPT ![op.node] = op]
  BY <1>3, UpdateLastChangeType
<1>5. CASE op.parent = op.node \/ IntroducesCycle(t, op.node, op.parent)
  BY <1>5 DEF ApplyInsert, Placed
<1>6. CASE ~(op.parent = op.node \/ IntroducesCycle(t, op.node, op.parent))
  <2>1. ApplyInsert(t, op) = u
    BY <1>6 DEF ApplyInsert, s
  <2> HIDE DEF u
  <2> QED BY <2>1, <1>4, <1>6 DEF Placed
<1> QED BY <1>5, <1>6

(* apply_move keeps the stores a tree; it moves no node or places its own. *)
LEMMA ApplyMoveType ==
  ASSUME NEW t \in Tree, NEW op \in Operation, op.kind = "move"
  PROVE  ApplyMove(t, op) \in Tree /\ Placed(t, ApplyMove(t, op), op)
<1>1. op.parent \in Place /\ op.node \in Node
  BY OperationFields
<1> DEFINE s == EnsureNode(t, {op.parent})
           C == op.parent # TRASH
                  /\ (IntroducesCycle(s, op.node, op.parent) \/ op.node = op.parent)
           u == UpdateLastChange(Attach(s, op), op,
                  {op.node} \cup ({Parent(s, op.node), op.parent} \ {None, TRASH}))
<1>2. s \in Tree /\ s.place = t.place
  BY <1>1, EnsureNodeType
<1>3. ApplyMove(t, op) = IF C THEN s ELSE u
  BY DEF ApplyMove
<1> HIDE DEF s
<1>4. Attach(s, op) \in Tree /\ Attach(s, op).place = [t.place EXCEPT ![op.node] = op]
  BY <1>2, AttachType
<1>5. u \in Tree /\ u.place = [t.place EXCEPT ![op.node] = op]
  BY <1>4, UpdateLastChangeType
<1>6. ~C => op.parent # op.node /\ ~IntroducesCycle(t, op.node, op.parent)
  BY <1>1, <1>2, SamePlaceSameShape, NodeAssumption DEF IntroducesCycle
<1> HIDE DEF C, u
<1> QED BY <1>2, <1>3, <1>5, <1>6 DEF Placed

(* apply_forward takes trees to trees; it places at most the operation's   *)
(* own node, and only where that closes no cycle.                          *)
THEOREM ApplyForwardType ==
  ASSUME NEW t \in Tree, NEW op \in Operation
  PROVE  ApplyForward(t, op) \in Tree /\ Placed(t, ApplyForward(t, op), op)
<1> DEFINE e == EnsureNode(t, {op.node})
<1>1. op.node \in Place /\ op.kind \in Kind
  BY OperationFields DEF Place
<1>2. e \in Tree /\ e.place = t.place
  BY <1>1, EnsureNodeType
<1>3. \A u : Placed(e, u, op) => Placed(t, u, op)
  BY <1>2, SamePlaceSameShape DEF Placed
<1>4. CASE op.kind = "insert"
  <2> DEFINE s == ApplyInsert(e, op)
  <2>1. s \in Tree /\ Placed(t, s, op)
    BY <1>2, <1>3, <1>4, ApplyInsertType
  <2>2. ApplyForward(t, op) = IF op.payload # None THEN ApplyPayload(s, op) ELSE s
    BY <1>4 DEF ApplyForward
  <2> HIDE DEF s
  <2>3. ApplyPayload(s, op) \in Tree /\ Placed(t, ApplyPayload(s, op), op)
    BY <2>1, ApplyPayloadType DEF Placed
  <2> QED BY <2>1, <2>2, <2>3
<1>5. CASE op.kind = "move"
  <2>1. ApplyForward(t, op) = ApplyMove(e, op)
    BY <1>5 DEF ApplyForward
  <2> HIDE DEF e
  <2> QED BY <2>1, <1>2, <1>3, <1>5, ApplyMoveType
<1>6. CASE op.kind \in {"delete", "tombstone"}
  <2>1. ApplyForward(t, op) = ApplyDelete(e, op)
    BY <1>6 DEF ApplyForward
  <2> HIDE DEF e
  <2> QED BY <2>1, <1>2, ApplyDeleteType DEF Placed
<1>7. CASE op.kind = "payload"
  <2>1. ApplyForward(t, op) = ApplyPayload(e, op)
    BY <1>7 DEF ApplyForward
  <2> HIDE DEF e
  <2> QED BY <2>1, <1>2, ApplyPayloadType DEF Placed
<1> QED BY <1>1, <1>4, <1>5, <1>6, <1>7 DEF Kind

(* The cycle check is enough: placing a node where introduces_cycle is     *)
(* false keeps the parents free of cycles.                                 *)
LEMMA PlacingKeepsAcyclic ==
  ASSUME NEW t \in Tree, NEW u \in Tree, NEW op \in Operation,
         Placed(t, u, op), IsAcyclic(t)
  PROVE  IsAcyclic(u)
<1>1. CASE u.place = t.place
  BY <1>1, SamePlaceSameShape
<1>2. CASE /\ u.place = [t.place EXCEPT ![op.node] = op]
           /\ op.parent # op.node
           /\ ~IntroducesCycle(t, op.node, op.parent)
  <2>1. op.node \in Node
    BY OperationFields
  <2>2. \A n \in Node : n # op.node => Parent(u, n) = Parent(t, n)
    BY <1>2, <2>1, TreeFields DEF Parent
  <2>3. Parent(u, op.node) = op.parent
    <3>1. u.place[op.node] = op
      BY <1>2, <2>1, TreeFields
    <3>2. op # None
      BY NoneIsNoOperation
    <3> QED BY <3>1, <3>2 DEF Parent
  <2>4. SUFFICES ASSUME NEW S \in SUBSET Node, S # {},
                        \A n \in S : Parent(u, n) \in S
                 PROVE  FALSE
    BY DEF IsAcyclic
  <2>5. CASE op.node \notin S
    BY <2>2, <2>4, <2>5 DEF IsAcyclic
  <2>6. CASE op.node \in S
    <3>1. op.parent \in S /\ op.parent \in Node
      BY <2>3, <2>4, <2>6
    <3>2. PICK U \in SUBSET Node : op.parent \in U /\ UpClosed(t, U) /\ op.node \notin U
      BY <1>2, <2>1, <3>1 DEF IntroducesCycle, Chain
    <3>3. \A n \in S \cap U : Parent(t, n) \in S \cap U
      BY <2>2, <2>4, <3>2 DEF UpClosed
    <3>4. S \cap U \in SUBSET Node /\ S \cap U # {}
      BY <3>1, <3>2
    <3> QED BY <3>3, <3>4 DEF IsAcyclic
  <2> QED BY <2>5, <2>6
<1> QED BY <1>1, <1>2 DEF Placed

(* The reset stores have no cycle. *)
LEMMA EmptyTreeAcyclic == IsAcyclic(EmptyTree)
BY NodeAssumption DEF IsAcyclic, EmptyTree, Parent

(* Replaying any finite set of operations gives a tree without cycles. *)
THEOREM ReplayIsTree ==
  ASSUME NEW S \in OperationSet
  PROVE  Replay[S] \in Tree /\ IsAcyclic(Replay[S])
<1> DEFINE Good(T) == Replay[T] \in Tree /\ IsAcyclic(Replay[T])
           Bad == {T \in FiniteSubsetsOf(Operation) : ~Good(T)}
<1>1. SUFFICES ASSUME Bad # {} PROVE FALSE
  BY OperationSets
<1>2. Bad \subseteq FiniteSubsetsOf(Operation)
  OBVIOUS
<1>3. PICK X \in Bad : \A Y \in Bad : Y \subseteq X => Y = X
  <2> HIDE DEF Bad
  <2> QED BY <1>1, <1>2, MinimalSet
<1>4. X \in OperationSet /\ Replay[X] = Body(Replay, X)
  BY <1>2, OperationSets, ReplayEquation
<1>5. CASE X = {}
  BY <1>4, <1>5, EmptyTreeType, EmptyTreeAcyclic DEF Body
<1>6. CASE X # {}
  <2> DEFINE Y == X \ {LastOf(X)}
  <2>1. Y \in FiniteSubsetsOf(Operation) /\ Y \subseteq X /\ Y # X
        /\ LastOf(X) \in Operation
    BY <1>4, <1>6, RestShrinks, OperationSets
  <2>2. Good(Y)
    BY <2>1, <1>3
  <2>3. Replay[X] = ApplyForward(Replay[Y], LastOf(X))
    BY <1>4, <1>6 DEF Body
  <2> HIDE DEF Y
  <2>4. Good(X)
    BY <2>1, <2>2, <2>3, ApplyForwardType, PlacingKeepsAcyclic
  <2> QED BY <2>4
<1> QED BY <1>5, <1>6

-----------------------------------------------------------------------------
(* What applying op to t, giving u, adds to the bookkeeping of the nodes:   *)
(* the ids of op and of what it knows, a deletion of its own node, and its  *)
(* node placed or written by op itself.                                     *)
Grows(t, u, op) ==
  /\ \A p \in Place : /\ t.last_change[p] \subseteq u.last_change[p]
                      /\ u.last_change[p] \subseteq t.last_change[p] \cup {Id(op)} \cup op.known
  /\ \A n \in Node : \/ u.deleted_at[n] = t.deleted_at[n]
                     \/ /\ op.kind \in {"delete", "tombstone"} /\ n = op.node
                        /\ u.deleted_at[n] = t.deleted_at[n] \cup {Id(op)} \cup op.known
  /\ \A n \in Node : \/ u.place[n] = t.place[n]
                     \/ /\ op.kind \in {"insert", "move"} /\ n = op.node
                        /\ u.place[n] = op /\ Id(op) \in u.last_change[n]
  /\ \A n \in Node : u.writer[n] = t.writer[n] \/ (n = op.node /\ u.writer[n] = op)

(* The steps of one operation add up. *)
LEMMA GrowsTwice ==
  ASSUME NEW t, NEW u, NEW v, NEW op, op.node \in Place,
         op.kind \notin {"delete", "tombstone"}, Grows(t, u, op), Grows(u, v, op)
  PROVE  Grows(t, v, op)
<1>1. \A p \in Place : /\ t.last_change[p] \subseteq v.last_change[p]
                       /\ v.last_change[p] \subseteq t.last_change[p] \cup {Id(op)} \cup op.known
  BY DEF Grows
<1>2. \A n \in Node : v.deleted_at[n] = t.deleted_at[n]
  BY DEF Grows
<1>3. \A n \in Node : \/ v.place[n] = t.place[n]
                      \/ /\ op.kind \in {"insert", "move"} /\ n = op.node
                         /\ v.place[n] = op /\ Id(op) \in v.last_change[n]
  BY DEF Grows, Place
<1>4. \A n \in Node : v.writer[n] = t.writer[n] \/ (n = op.node /\ v.writer[n] = op)
  BY DEF Grows
<1> QED BY <1>1, <1>2, <1>3, <1>4 DEF Grows

(* ensure_node touches no bookkeeping. *)
LEMMA EnsureNodeGrows ==
  ASSUME NEW t \in Tree, NEW P, NEW op
  PROVE  /\ Grows(t, EnsureNode(t, P), op)
         /\ EnsureNode(t, P).last_change = t.last_change
         /\ EnsureNode(t, P).deleted_at = t.deleted_at
         /\ EnsureNode(t, P).writer = t.writer
         /\ EnsureNode(t, P).place = t.place
BY TreeFields DEF EnsureNode, Grows

(* update_last_change adds the operation, and what it knows, to the nodes given. *)
LEMMA UpdateLastChangeAdds ==
  ASSUME NEW t \in Tree, NEW op \in Operation, NEW P,
         NEW u, u = UpdateLastChange(t, op, P)
  PROVE  /\ u.place = t.place /\ u.deleted_at = t.deleted_at /\ u.writer = t.writer
         /\ \A p \in Place : u.last_change[p] =
              IF p \in P THEN t.last_change[p] \cup {Id(op)} \cup op.known
                         ELSE t.last_change[p]
BY TreeFields DEF UpdateLastChange

(* Placing the node of op and updating the last change of it and of others. *)
LEMMA PlacingGrows ==
  ASSUME NEW t \in Tree, NEW op \in Operation, op.kind \in {"insert", "move"},
         NEW P, op.node \in P
  PROVE  /\ Grows(t, UpdateLastChange(Attach(t, op), op, P), op)
         /\ Id(op) \in UpdateLastChange(Attach(t, op), op, P).last_change[op.node]
         /\ UpdateLastChange(Attach(t, op), op, P).place[op.node] = op
<1> DEFINE a == Attach(t, op)
           u == UpdateLastChange(a, op, P)
<1>1. op.node \in Node /\ op.node \in Place
  BY OperationFields DEF Place
<1>2. a \in Tree /\ a.place = [t.place EXCEPT ![op.node] = op]
  BY AttachType
<1>3. a.last_change = t.last_change /\ a.deleted_at = t.deleted_at /\ a.writer = t.writer
  BY TreeFields DEF Attach
<1> HIDE DEF a
<1>4. /\ u.place = a.place /\ u.deleted_at = a.deleted_at /\ u.writer = a.writer
      /\ \A p \in Place : u.last_change[p] =
           IF p \in P THEN a.last_change[p] \cup {Id(op)} \cup op.known
                      ELSE a.last_change[p]
  BY <1>2, UpdateLastChangeAdds
<1> HIDE DEF u
<1>5. Id(op) \in u.last_change[op.node]
  BY <1>1, <1>4
<1>6. \A n \in Node : u.place[n] = IF n = op.node THEN op ELSE t.place[n]
  BY <1>1, <1>2, <1>4, TreeFields
<1>7. Grows(t, u, op)
  BY <1>3, <1>4, <1>5, <1>6 DEF Grows
<1> QED BY <1>1, <1>5, <1>6, <1>7 DEF u, a

(* apply_insert *)
LEMMA ApplyInsertGrows ==
  ASSUME NEW t \in Tree, NEW op \in Operation, op.kind = "insert"
  PROVE  Grows(t, ApplyInsert(t, op), op)
<1> DEFINE s == EnsureNode(t, {op.parent})
<1>1. op.node \in Place /\ op.parent \in Place
  BY OperationFields DEF Place
<1>2. s \in Tree /\ Grows(t, s, op)
  BY <1>1, EnsureNodeType, EnsureNodeGrows
<1>3. Grows(t, t, op)
  BY DEF Grows
<1> HIDE DEF s
<1>4. Grows(s, UpdateLastChange(Attach(s, op), op, {op.node, op.parent}), op)
  BY <1>2, PlacingGrows
<1>5. Grows(t, UpdateLastChange(Attach(s, op), op, {op.node, op.parent}), op)
  BY <1>1, <1>2, <1>4, GrowsTwice
<1> QED BY <1>3, <1>5 DEF ApplyInsert, s

(* apply_move *)
LEMMA ApplyMoveGrows ==
  ASSUME NEW t \in Tree, NEW op \in Operation, op.kind = "move"
  PROVE  Grows(t, ApplyMove(t, op), op)
<1> DEFINE s == EnsureNode(t, {op.parent})
           P == {op.node} \cup ({Parent(s, op.node), op.parent} \ {None, TRASH})
<1>1. op.node \in Place /\ op.parent \in Place
  BY OperationFields DEF Place
<1>2. s \in Tree /\ Grows(t, s, op)
  BY <1>1, EnsureNodeType, EnsureNodeGrows
<1>3. op.node \in P
  OBVIOUS
<1>4. ApplyMove(t, op) \in {s, UpdateLastChange(Attach(s, op), op, P)}
  BY DEF ApplyMove
<1> HIDE DEF s, P
<1>5. Grows(s, UpdateLastChange(Attach(s, op), op, P), op)
  BY <1>2, <1>3, PlacingGrows
<1>6. Grows(t, UpdateLastChange(Attach(s, op), op, P), op)
  BY <1>1, <1>2, <1>5, GrowsTwice
<1> QED BY <1>2, <1>4, <1>6

(* apply_delete *)
LEMMA ApplyDeleteGrows ==
  ASSUME NEW t \in Tree, NEW op \in Operation, op.kind \in {"delete", "tombstone"}
  PROVE  /\ Grows(t, ApplyDelete(t, op), op)
         /\ ApplyDelete(t, op).last_change = t.last_change
         /\ ApplyDelete(t, op).place = t.place
         /\ ApplyDelete(t, op).deleted_at[op.node] =
              t.deleted_at[op.node] \cup {Id(op)} \cup op.known
<1>1. op.node \in Node
  BY OperationFields
<1> DEFINE u == ApplyDelete(t, op)
<1>2. /\ u.last_change = t.last_change /\ u.place = t.place /\ u.writer = t.writer
      /\ u.deleted_at = [t.deleted_at EXCEPT ![op.node] = @ \cup {Id(op)} \cup op.known]
  BY TreeFields DEF ApplyDelete
<1> HIDE DEF u
<1>3. \A n \in Node : u.deleted_at[n] =
        IF n = op.node THEN t.deleted_at[n] \cup {Id(op)} \cup op.known ELSE t.deleted_at[n]
  BY <1>1, <1>2, TreeFields
<1>4. Grows(t, u, op)
  BY <1>2, <1>3 DEF Grows
<1> QED BY <1>1, <1>2, <1>3, <1>4 DEF u

(* apply_payload writes, and counts as a change of the node, unless a later *)
(* payload is there.                                                        *)
LEMMA ApplyPayloadGrows ==
  ASSUME NEW t \in Tree, NEW op \in Operation, NEW u, u = ApplyPayload(t, op)
  PROVE  /\ op.kind \notin {"delete", "tombstone"} => Grows(t, u, op)
         /\ \/ t.writer[op.node] # None /\ ~Precedes(t.writer[op.node], op)
            \/ u.writer[op.node] = op /\ Id(op) \in u.last_change[op.node]
<1> DEFINE w == [t EXCEPT !.writer[op.node] = op]
<1>1. op.node \in Node /\ op.node \in Place
  BY OperationFields DEF Place
<1>2. /\ w \in Tree /\ w.place = t.place /\ w.last_change = t.last_change
      /\ w.deleted_at = t.deleted_at /\ w.writer = [t.writer EXCEPT ![op.node] = op]
  BY <1>1, TreeFields DEF Tree
<1>3. CASE t.writer[op.node] # None /\ ~Precedes(t.writer[op.node], op)
  <2>1. u = t
    BY <1>3 DEF ApplyPayload
  <2> QED BY <1>3, <2>1 DEF Grows
<1>4. CASE ~(t.writer[op.node] # None /\ ~Precedes(t.writer[op.node], op))
  <2>1. u = UpdateLastChange(w, op, {op.node})
    BY <1>4 DEF ApplyPayload
  <2> HIDE DEF w
  <2>2. /\ u.place = w.place /\ u.deleted_at = w.deleted_at /\ u.writer = w.writer
        /\ \A p \in Place : u.last_change[p] =
             IF p \in {op.node} THEN w.last_change[p] \cup {Id(op)} \cup op.known
                                ELSE w.last_change[p]
    <3> DEFINE P == {op.node}
    <3>1. w \in Tree /\ u = UpdateLastChange(w, op, P)
      BY <1>2, <2>1
    <3> HIDE DEF P
    <3>2. /\ u.place = w.place /\ u.deleted_at = w.deleted_at /\ u.writer = w.writer
          /\ \A p \in Place : u.last_change[p] =
               IF p \in P THEN w.last_change[p] \cup {Id(op)} \cup op.known
                          ELSE w.last_change[p]
      BY <3>1, UpdateLastChangeAdds
    <3> QED BY <3>2 DEF P
  <2>3. Id(op) \in u.last_change[op.node]
    BY <1>1, <2>2
  <2>4. \A n \in Node : u.writer[n] = IF n = op.node THEN op ELSE t.writer[n]
    BY <1>1, <1>2, <2>2, TreeFields
  <2>5. Grows(t, u, op)
    BY <1>2, <2>2, <2>4, ZenonT(40) DEF Grows
  <2> QED BY <1>1, <2>3, <2>4, <2>5
<1> QED BY <1>3, <1>4

(* The operations that write a payload. *)
Writes(op) == op.kind = "payload" \/ op.payload # None

(* apply_forward adds what its operation accounts for, and a payload that   *)
(* is not older than the present one is written.                            *)
LEMMA ApplyForwardGrows ==
  ASSUME NEW t \in Tree, NEW op \in Operation, NEW u, u = ApplyForward(t, op)
  PROVE  /\ Grows(t, u, op)
         /\ Writes(op) =>
              \/ t.writer[op.node] # None /\ ~Precedes(t.writer[op.node], op)
              \/ u.writer[op.node] = op /\ Id(op) \in u.last_change[op.node]
<1> DEFINE e == EnsureNode(t, {op.node})
<1>1. /\ op.node \in Place /\ op.node \in Node /\ op.kind \in Kind
      /\ op.payload # None => op.kind \in {"insert", "payload"}
  BY OperationFields DEF Place
<1>2. e \in Tree /\ e.writer = t.writer /\ e.deleted_at = t.deleted_at
      /\ e.last_change = t.last_change /\ e.place = t.place
  BY <1>1, EnsureNodeType, EnsureNodeGrows
<1>3. \A v : Grows(e, v, op) => Grows(t, v, op)
  BY <1>2 DEF Grows
<1>4. CASE op.kind = "insert"
  <2> DEFINE s == ApplyInsert(e, op)
  <2>1. s \in Tree /\ Grows(e, s, op)
    BY <1>2, <1>4, ApplyInsertType, ApplyInsertGrows
  <2>2. u = IF op.payload # None THEN ApplyPayload(s, op) ELSE s
    BY <1>4 DEF ApplyForward
  <2>3. s.writer = e.writer
    <3> HIDE DEF e
    <3>1. op.parent \in Place
      BY <1>4, OperationFields
    <3> DEFINE f == EnsureNode(e, {op.parent})
               a == Attach(f, op)
    <3>2. f \in Tree /\ f.writer = e.writer
      BY <1>2, <3>1, EnsureNodeType, EnsureNodeGrows
    <3>3. s \in {e, UpdateLastChange(a, op, {op.node, op.parent})}
      BY DEF ApplyInsert
    <3>4. a \in Tree /\ a.writer = f.writer
      <4> HIDE DEF f
      <4> QED BY <3>2, AttachType, TreeFields DEF Attach
    <3> HIDE DEF f, a
    <3> QED BY <3>2, <3>3, <3>4, UpdateLastChangeAdds
  <2> HIDE DEF s, e
  <2>4. CASE op.payload # None
    <3>1. u = ApplyPayload(s, op)
      BY <2>2, <2>4
    <3>2. Grows(s, u, op)
      BY <1>4, <2>1, <3>1, ApplyPayloadGrows
    <3>3. Grows(e, u, op)
      BY <1>1, <1>4, <2>1, <3>2, GrowsTwice
    <3> QED BY <1>2, <1>3, <2>1, <2>3, <3>1, <3>3, ApplyPayloadGrows
  <2>5. CASE op.payload = None
    BY <1>3, <1>4, <2>1, <2>2, <2>5 DEF Writes
  <2> QED BY <2>4, <2>5
<1>5. CASE op.kind = "move"
  <2>1. u = ApplyMove(e, op)
    BY <1>5 DEF ApplyForward
  <2> HIDE DEF e
  <2> QED BY <1>1, <1>2, <1>3, <1>5, <2>1, ApplyMoveGrows DEF Writes
<1>6. CASE op.kind \in {"delete", "tombstone"}
  <2>1. u = ApplyDelete(e, op)
    BY <1>6 DEF ApplyForward
  <2> HIDE DEF e
  <2> QED BY <1>1, <1>2, <1>3, <1>6, <2>1, ApplyDeleteGrows DEF Writes
<1>7. CASE op.kind = "payload"
  <2>1. u = ApplyPayload(e, op)
    BY <1>7 DEF ApplyForward
  <2> HIDE DEF e
  <2> QED BY <1>2, <1>3, <1>7, <2>1, ApplyPayloadGrows
<1> QED BY <1>1, <1>4, <1>5, <1>6, <1>7 DEF Kind

-----------------------------------------------------------------------------
(* What a tree records of the operations it was built from.                *)

Deletes(d, n) == d.kind \in {"delete", "tombstone"} /\ d.node = n

Names(op, id) == id = Id(op) \/ id \in op.known

\* Every operation that wrote a payload counts as a change of its node, which is
\* written by an operation that is there.
WritesRecorded(S, t) ==
  /\ \A op \in S : Writes(op) => Id(op) \in t.last_change[op.node]
  /\ \A n \in Node : t.writer[n] # None => t.writer[n] \in S

\* A node was placed by an operation on it, which counts as a change of it.
PlacesRecorded(S, t) ==
  \A n \in Node : t.place[n] # None =>
    /\ t.place[n] \in S /\ t.place[n].node = n
    /\ t.place[n].kind \in {"insert", "move"} /\ Id(t.place[n]) \in t.last_change[n]

\* Changes and deletions name operations that are there or that those know.
NamesRecorded(S, t) ==
  /\ \A p \in Place : \A id \in t.last_change[p] : \E op \in S : Names(op, id)
  /\ \A n \in Node : \A id \in t.deleted_at[n] : \E d \in S : Deletes(d, n) /\ Names(d, id)

Recorded(S, t) == WritesRecorded(S, t) /\ PlacesRecorded(S, t) /\ NamesRecorded(S, t)

(* Nothing is recorded in the reset stores. *)
LEMMA EmptyRecorded == Recorded({}, EmptyTree)
BY DEF EmptyTree, Recorded, WritesRecorded, PlacesRecorded, NamesRecorded

(* Applying an operation later than all others keeps the record complete:  *)
(* its payload is not older than the one that is there.                    *)
LEMMA ApplyForwardRecords ==
  ASSUME NEW S \in OperationSet, NEW t \in Tree, Recorded(S, t),
         NEW op \in Operation, \A o \in S : Precedes(o, op),
         NEW u, u = ApplyForward(t, op), NEW T, T = S \cup {op}
  PROVE  Recorded(T, u)
<1>1. Grows(t, u, op)
  BY ApplyForwardGrows
<1>2. S \subseteq Operation /\ op \in T /\ S \subseteq T
  BY DEF OperationSet
<1>3. \A o \in T : o.node \in Node /\ o.node \in Place
  BY <1>2, OperationFields DEF Place
<1>4. Writes(op) => Id(op) \in u.last_change[op.node]
  <2>1. op.node \in Node
    BY OperationFields
  <2>2. t.writer[op.node] # None => Precedes(t.writer[op.node], op)
    BY <2>1 DEF Recorded, WritesRecorded
  <2> QED BY <2>2, ApplyForwardGrows
<1>5. WritesRecorded(T, u)
  <2>1. ASSUME NEW o \in S, Writes(o)
        PROVE  Id(o) \in u.last_change[o.node]
    BY <1>1, <1>2, <1>3, <2>1 DEF Grows, Recorded, WritesRecorded
  <2>2. ASSUME NEW n \in Node, u.writer[n] # None
        PROVE  u.writer[n] \in T
    BY <1>1, <1>2, <2>2 DEF Grows, Recorded, WritesRecorded
  <2> QED BY <1>4, <2>1, <2>2 DEF WritesRecorded
<1>6. PlacesRecorded(T, u)
  <2> SUFFICES ASSUME NEW n \in Node, u.place[n] # None
               PROVE  /\ u.place[n] \in T /\ u.place[n].node = n
                      /\ u.place[n].kind \in {"insert", "move"}
                      /\ Id(u.place[n]) \in u.last_change[n]
    BY DEF PlacesRecorded
  <2>1. n \in Place
    BY DEF Place
  <2>2. CASE u.place[n] = t.place[n]
    BY <1>1, <1>2, <2>1, <2>2 DEF Grows, Recorded, PlacesRecorded
  <2>3. CASE /\ op.kind \in {"insert", "move"} /\ n = op.node
             /\ u.place[n] = op /\ Id(op) \in u.last_change[n]
    BY <1>2, <2>3
  <2> QED BY <1>1, <2>2, <2>3 DEF Grows
<1>7. NamesRecorded(T, u)
  <2>1. ASSUME NEW p \in Place, NEW id \in u.last_change[p]
        PROVE  \E o \in T : Names(o, id)
    BY <1>1, <1>2 DEF Grows, Recorded, NamesRecorded, Names
  <2>2. ASSUME NEW n \in Node, NEW id \in u.deleted_at[n]
        PROVE  \E d \in T : Deletes(d, n) /\ Names(d, id)
    <3>1. CASE id \in t.deleted_at[n]
      BY <1>2, <3>1 DEF Recorded, NamesRecorded
    <3>2. CASE id \notin t.deleted_at[n]
      <4>1. Deletes(op, n) /\ Names(op, id)
        BY <1>1, <3>2 DEF Grows, Deletes, Names
      <4> QED BY <1>2, <4>1
    <3> QED BY <3>1, <3>2
  <2> QED BY <2>1, <2>2 DEF NamesRecorded
<1> QED BY <1>5, <1>6, <1>7 DEF Recorded

(* A replay records every operation: none of them, in the order of          *)
(* cmp_op_key, is lost on what the others did before or after it.           *)
THEOREM ReplayRecords ==
  ASSUME NEW S \in OperationSet, \A a, b \in S : Id(a) = Id(b) => a = b
  PROVE  Recorded(S, Replay[S])
<1> DEFINE Distinct(T) == \A a, b \in T : Id(a) = Id(b) => a = b
           Good(T) == Distinct(T) => Recorded(T, Replay[T])
           Bad == {T \in FiniteSubsetsOf(Operation) : ~Good(T)}
<1>1. SUFFICES ASSUME Bad # {} PROVE FALSE
  BY OperationSets
<1>2. Bad \subseteq FiniteSubsetsOf(Operation)
  OBVIOUS
<1>3. PICK X \in Bad : \A Y \in Bad : Y \subseteq X => Y = X
  <2> HIDE DEF Bad
  <2> QED BY <1>1, <1>2, MinimalSet
<1>4. X \in OperationSet /\ Replay[X] = Body(Replay, X)
  BY <1>2, OperationSets, ReplayEquation
<1>5. Distinct(X) /\ ~Recorded(X, Replay[X])
  OBVIOUS
<1>6. CASE X = {}
  BY <1>4, <1>5, <1>6, EmptyRecorded DEF Body
<1>7. CASE X # {}
  <2> DEFINE Y == X \ {LastOf(X)}
             op == LastOf(X)
  <2>1. /\ Y \in FiniteSubsetsOf(Operation) /\ Y \subseteq X /\ Y # X
        /\ Y \in OperationSet /\ op \in Operation /\ op \in X /\ X = Y \cup {op}
    BY <1>4, <1>7, RestShrinks, LastOfExists, OperationSets
  <2>2. Replay[X] = ApplyForward(Replay[Y], op)
    BY <1>4, <1>7 DEF Body
  <2>3. \A o \in Y : Precedes(o, op)
    <3> TAKE o \in Y
    <3>1. ~Precedes(op, o) /\ o \in Operation /\ o \in X /\ o # op
      BY <1>4, <1>7, LastOfExists DEF OperationSet
    <3>2. Id(o) # Id(op)
      BY <1>5, <2>1, <3>1
    <3> HIDE DEF op, Y
    <3> QED BY <2>1, <3>1, <3>2, PrecedesOrder
  <2> HIDE DEF Y, op
  <2>4. Recorded(Y, Replay[Y])
    <3>1. Good(Y)
      BY <1>3, <2>1
    <3>2. Distinct(Y)
      BY <1>5, <2>1
    <3> QED BY <3>1, <3>2
  <2>5. Replay[Y] \in Tree
    BY <2>1, ReplayIsTree
  <2>6. Recorded(X, Replay[X])
    BY <2>1, <2>2, <2>3, <2>4, <2>5, ApplyForwardRecords
  <2> QED BY <1>5, <2>6
<1> QED BY <1>6, <1>7

(* An insert or a move that closes no cycle places its node.               *)
LEMMA ApplyForwardPlaces ==
  ASSUME NEW t \in Tree, NEW op \in Operation, op.kind \in {"insert", "move"},
         op.parent # op.node, ~IntroducesCycle(t, op.node, op.parent),
         NEW u, u = ApplyForward(t, op)
  PROVE  u.place[op.node] = op /\ Id(op) \in u.last_change[op.node]
<1> DEFINE e == EnsureNode(t, {op.node})
           f == EnsureNode(e, {op.parent})
<1>1. op.node \in Node /\ op.node \in Place /\ op.parent \in Place
  BY OperationFields DEF Place
<1>2. e \in Tree /\ e.place = t.place
  BY <1>1, EnsureNodeType
<1>3. f \in Tree /\ f.place = t.place
  <2> HIDE DEF e
  <2> QED BY <1>1, <1>2, EnsureNodeType
<1>4. /\ ~IntroducesCycle(e, op.node, op.parent)
      /\ ~IntroducesCycle(f, op.node, op.parent)
  <2> HIDE DEF e, f
  <2> QED BY <1>2, <1>3, SamePlaceSameShape
<1> DEFINE a == Attach(f, op)
<1>5. ASSUME NEW P, op.node \in P
      PROVE  /\ UpdateLastChange(a, op, P).place[op.node] = op
             /\ Id(op) \in UpdateLastChange(a, op, P).last_change[op.node]
  <2> HIDE DEF f
  <2> QED BY <1>3, <1>5, PlacingGrows
<1>6. a \in Tree
  <2> HIDE DEF f
  <2> QED BY <1>3, AttachType
<1>7. CASE op.kind = "insert"
  <2> DEFINE s == UpdateLastChange(a, op, {op.node, op.parent})
  <2>1. s \in Tree
    <3> HIDE DEF a
    <3> QED BY <1>6, UpdateLastChangeType
  <2>2. ApplyInsert(e, op) = s
    BY <1>4 DEF ApplyInsert
  <2>3. u \in {s, ApplyPayload(s, op)}
    BY <1>7, <2>2 DEF ApplyForward
  <2>4. s.place[op.node] = op /\ Id(op) \in s.last_change[op.node]
    <3> HIDE DEF a
    <3> QED BY <1>5
  <2> HIDE DEF s
  <2>5. /\ ApplyPayload(s, op).place = s.place
        /\ Grows(s, ApplyPayload(s, op), op)
    BY <1>7, <2>1, ApplyPayloadType, ApplyPayloadGrows
  <2>6. s.last_change[op.node] \subseteq ApplyPayload(s, op).last_change[op.node]
    BY <1>1, <2>5 DEF Grows
  <2> QED BY <2>3, <2>4, <2>5, <2>6
<1>8. CASE op.kind = "move"
  <2>1. u = UpdateLastChange(a, op,
              {op.node} \cup ({Parent(f, op.node), op.parent} \ {None, TRASH}))
    BY <1>4, <1>8 DEF ApplyForward, ApplyMove
  <2> DEFINE P == {op.node} \cup ({Parent(f, op.node), op.parent} \ {None, TRASH})
  <2>2. op.node \in P /\ u = UpdateLastChange(a, op, P)
    BY <2>1
  <2> HIDE DEF a, P
  <2> QED BY <1>5, <2>2
<1> QED BY <1>7, <1>8


-----------------------------------------------------------------------------
(* Largest elements.                                                       *)

(* Max of two numbers bounds both. *)
LEMMA MaxOfPair ==
  ASSUME NEW a \in Nat, NEW b \in Nat
  PROVE  Max({a, b}) \in Nat /\ Max({a, b}) >= a /\ Max({a, b}) >= b
<1>1. \E x \in {a, b} : \A y \in {a, b} : x >= y
  OBVIOUS
<1> QED BY <1>1 DEF Max

(* Max of a finite non-empty set of numbers bounds them all. *)
LEMMA MaxOfFinite ==
  ASSUME NEW S \in SUBSET Nat, IsFiniteSet(S), S # {}
  PROVE  Max(S) \in Nat /\ \A y \in S : Max(S) >= y
<1> DEFINE HasMax(T) == \E x \in T : \A y \in T : x >= y
           Bad == {T \in FiniteSubsetsOf(Nat) : T # {} /\ ~HasMax(T)}
<1>1. SUFFICES HasMax(S)
  BY DEF Max
<1>2. SUFFICES ASSUME Bad # {} PROVE FALSE
  BY DEF FiniteSubsetsOf
<1>3. Bad \subseteq FiniteSubsetsOf(Nat)
  OBVIOUS
<1>4. PICK X \in Bad : \A Y \in Bad : Y \subseteq X => Y = X
  <2> HIDE DEF Bad
  <2> QED BY <1>2, <1>3, MinimalSet
<1>5. X \subseteq Nat /\ IsFiniteSet(X) /\ X # {}
  BY DEF FiniteSubsetsOf
<1>6. PICK x \in X : TRUE
  BY <1>5
<1>7. X \ {x} \in FiniteSubsetsOf(Nat) /\ X \ {x} # X
  BY <1>5, <1>6, FS_RemoveElement DEF FiniteSubsetsOf
<1>8. CASE X \ {x} = {}
  BY <1>5, <1>6, <1>8
<1>9. CASE X \ {x} # {}
  <2>1. PICK m \in X \ {x} : \A y \in X \ {x} : m >= y
    BY <1>4, <1>7, <1>9
  <2>2. CASE m >= x
    BY <2>1, <2>2
  <2>3. CASE x > m
    BY <2>1, <2>3, <1>5, <1>6
  <2> QED BY <2>1, <2>2, <2>3, <1>5, <1>6
<1> QED BY <1>8, <1>9

(* Max of a finite set of numbers and zero bounds them all. *)
LEMMA MaxWithZero ==
  ASSUME NEW L \in SUBSET Nat, IsFiniteSet(L)
  PROVE  Max({0} \cup L) \in Nat /\ \A y \in L : y <= Max({0} \cup L)
<1>1. {0} \cup L = L \cup {0}
  OBVIOUS
<1>2. IsFiniteSet(L \cup {0})
  BY FS_AddElement
<1>3. {0} \cup L \in SUBSET Nat /\ {0} \cup L # {}
  OBVIOUS
<1>4. Max({0} \cup L) \in Nat /\ \A y \in {0} \cup L : Max({0} \cup L) >= y
  BY <1>1, <1>2, <1>3, MaxOfFinite
<1> QED BY <1>4

(* Storage::latest_lamport bounds every stored lamport. *)
LEMMA LatestLamportBound ==
  ASSUME NEW S \in OperationSet
  PROVE  LatestLamport(S) \in Nat /\ \A op \in S : op.lamport <= LatestLamport(S)
<1> DEFINE f == [op \in S |-> op.lamport]
           L == {op.lamport : op \in S}
<1>1. IsFiniteSet(S) /\ \A op \in S : op.lamport \in Nat
  BY OperationFields DEF OperationSet
<1>2. f \in Surjection(S, L)
  BY DEF Surjection
<1>3. IsFiniteSet(L)
  <2> HIDE DEF f, L
  <2> QED BY <1>1, <1>2, FS_Surjection
<1>4. L \in SUBSET Nat /\ \A op \in S : op.lamport \in L
  BY <1>1
<1>5. LatestLamport(S) = Max({0} \cup L)
  BY DEF LatestLamport
<1> HIDE DEF L
<1> QED BY <1>3, <1>4, <1>5, MaxWithZero

(* Storage::latest_counter bounds the counters of the replica. *)
LEMMA LatestCounterBound ==
  ASSUME NEW S \in OperationSet, NEW r \in Replica
  PROVE  /\ LatestCounter(S, r) \in Nat
         /\ \A op \in S : op.replica = r => op.counter <= LatestCounter(S, r)
<1> DEFINE T == {o \in S : o.replica = r}
           f == [op \in T |-> op.counter]
           L == {op.counter : op \in T}
<1>1. T \in OperationSet
  BY SubsetOfOperationSet
<1>2. IsFiniteSet(T) /\ \A op \in T : op.counter \in Nat
  BY <1>1, OperationFields DEF OperationSet
<1>3. f \in Surjection(T, L)
  BY DEF Surjection
<1>4. IsFiniteSet(L)
  <2> HIDE DEF f, L
  <2> QED BY <1>2, <1>3, FS_Surjection
<1>5. L \in SUBSET Nat /\ \A op \in S : op.replica = r => op.counter \in L
  BY <1>2
<1>6. LatestCounter(S, r) = Max({0} \cup L)
  BY DEF LatestCounter
<1> HIDE DEF L
<1> QED BY <1>4, <1>5, <1>6, MaxWithZero

(* VersionVector::get gives a counter. *)
LEMMA GetBound ==
  ASSUME NEW S \in OperationSet, NEW r \in Replica
  PROVE  Get(Ids(S), r) \in Nat
<1> DEFINE I == {i \in Ids(S) : i[1] = r}
           f == [op \in S |-> Id(op)]
           g == [id \in I |-> id[2]]
           L == {id[2] : id \in I}
<1>1. IsFiniteSet(S) /\ \A op \in S : Id(op) \in OperationId
  BY IdType DEF OperationSet
<1>2. f \in Surjection(S, Ids(S))
  BY DEF Surjection, Ids
<1>3. IsFiniteSet(Ids(S))
  <2> HIDE DEF f
  <2> QED BY <1>1, <1>2, FS_Surjection
<1>4. IsFiniteSet(I) /\ I \subseteq OperationId
  BY <1>1, <1>3, FS_Subset DEF Ids
<1>5. g \in Surjection(I, L)
  BY DEF Surjection
<1>6. IsFiniteSet(L)
  <2> HIDE DEF g, I, L
  <2> QED BY <1>4, <1>5, FS_Surjection
<1>7. \A id \in I : id[2] \in Nat
  <2> HIDE DEF I
  <2> QED BY <1>4 DEF OperationId
<1>8. L \in SUBSET Nat
  BY <1>7
<1>9. Get(Ids(S), r) = Max({0} \cup L)
  BY DEF Get
<1> HIDE DEF L
<1> QED BY <1>6, <1>8, <1>9, MaxWithZero

-----------------------------------------------------------------------------
(* One replica, described by its storage S and the fields c (clock), k     *)
(* (counter), t (tree), v (version vector), h (head), n (operation count). *)
Sound(r, S, c, k, t, v, h, n) ==
  /\ S \in OperationSet /\ c \in Nat /\ k \in Nat
  /\ t = Replay[S] /\ v = Ids(S) /\ h = HeadOf(S) /\ n = Cardinality(S)
  /\ \A op \in S : /\ 0 < op.lamport /\ op.lamport <= c
                   /\ op.replica = r => op.counter <= k
  /\ \A a, b \in S : Id(a) = Id(b) => a = b

(* Appending an operation later than all others keeps a replica sound:     *)
(* apply_forward does what a replay would.                                 *)
LEMMA SoundAppend ==
  ASSUME NEW r \in Replica, NEW S, NEW c, NEW k, NEW t, NEW v, NEW h, NEW n,
         Sound(r, S, c, k, t, v, h, n),
         NEW op \in Operation, 0 < op.lamport, Id(op) \notin Ids(S),
         \A o \in S : Precedes(o, op),
         NEW d \in Nat, c <= d, op.lamport <= d,
         NEW l \in Nat, k <= l, op.replica = r => op.counter <= l
  PROVE  Sound(r, S \cup {op}, d, l, ApplyForward(t, op), v \cup {Id(op)}, op, n + 1)
<1> DEFINE T == S \cup {op}
<1>1. S \in OperationSet /\ IsFiniteSet(S) /\ c \in Nat /\ k \in Nat
  BY DEF Sound, OperationSet
<1>2. T \in OperationSet
  BY <1>1, AddOne
<1>3. op \notin S
  BY DEF Ids
<1>4. Replay[T] = ApplyForward(t, op)
  BY <1>1, ReplayAppend DEF Sound
<1>5. Ids(T) = v \cup {Id(op)}
  BY DEF Sound, Ids
<1>6. HeadOf(T) = op
  BY <1>1, LastOfAdded DEF HeadOf
<1>7. Cardinality(T) = n + 1
  BY <1>1, <1>3, FS_AddElement DEF Sound
<1>8. \A o \in S : o.lamport \in Nat /\ o.counter \in Nat
  BY <1>1, OperationFields DEF OperationSet
<1>9. \A o \in T : /\ 0 < o.lamport /\ o.lamport <= d
                   /\ o.replica = r => o.counter <= l
  BY <1>1, <1>8 DEF Sound
<1>10. \A a, b \in T : Id(a) = Id(b) => a = b
  BY DEF Sound, Ids
<1> HIDE DEF T
<1>11. Sound(r, T, d, l, ApplyForward(t, op), v \cup {Id(op)}, op, n + 1)
  BY <1>2, <1>4, <1>5, <1>6, <1>7, <1>9, <1>10 DEF Sound
<1> QED BY <1>11 DEF T

(* load_since(0) loads everything: no stored lamport is 0. *)
LEMMA LoadsAll ==
  ASSUME NEW S, \A op \in S : op.lamport > 0
  PROVE  LoadSinceZero(S) = S
BY DEF LoadSinceZero

(* Opening a storage gives a sound replica. *)
LEMMA SoundOpened ==
  ASSUME NEW r \in Replica, NEW S \in OperationSet,
         \A op \in S : op.lamport > 0,
         \A a, b \in S : Id(a) = Id(b) => a = b
  PROVE  LET o == Opened(S, r)
         IN Sound(r, S, o.clock, o.counter, o.tree, o.vv, o.head, o.count)
<1> DEFINE o == Opened(S, r)
           c == LatestLamport(S)
           k == Max({LatestCounter(S, r), Get(Ids(S), r)})
<1>1. /\ o.clock = c /\ o.counter = k /\ o.tree = Replay[S]
      /\ o.vv = Ids(S) /\ o.head = HeadOf(S) /\ o.count = Cardinality(S)
  BY LoadsAll DEF Opened
<1>2. c \in Nat /\ \A op \in S : op.lamport <= c
  BY LatestLamportBound
<1>3. k \in Nat /\ LatestCounter(S, r) <= k
  BY MaxOfPair, LatestCounterBound, GetBound
<1>4. \A op \in S : op.counter \in Nat
  BY OperationFields DEF OperationSet
<1>5. \A op \in S : op.replica = r => op.counter <= k
  <2> HIDE DEF k
  <2> QED BY <1>3, <1>4, LatestCounterBound
<1> HIDE DEF o, c, k
<1> QED BY <1>1, <1>2, <1>3, <1>5 DEF Sound, o

-----------------------------------------------------------------------------
(* The inductive invariant.  TreeIsReplay alone is not inductive: that an  *)
(* operation applied incrementally is later than all stored ones rests on  *)
(* the head and the clock, and that no stored operation is mistaken for a  *)
(* new one rests on the counter and on every operation being stored by the *)
(* replica that minted it.                                                 *)

ReplicaSound(r) ==
  Sound(r, storage[r], clock[r], counter[r], tree[r], version_vector[r],
        head[r], op_count[r])

OwnOperationsAreStored ==
  \A r \in Replica : \A op \in storage[r] : op \in storage[op.replica]

IInv ==
  /\ TypeOK
  /\ \A r \in Replica : ReplicaSound(r)
  /\ IdsAreUnique
  /\ OwnOperationsAreStored

(* The fields of a sound replica have their types. *)
LEMMA SoundType ==
  ASSUME NEW r, NEW S, NEW c, NEW k, NEW t, NEW v, NEW h, NEW n,
         Sound(r, S, c, k, t, v, h, n)
  PROVE  /\ S \in OperationSet /\ c \in Nat /\ k \in Nat /\ t \in Tree
         /\ v \in SUBSET OperationId /\ h \in Operation \cup {None} /\ n \in Nat
<1>1. S \in OperationSet /\ IsFiniteSet(S) /\ c \in Nat /\ k \in Nat /\ S \subseteq Operation
  BY DEF Sound, OperationSet
<1>2. t \in Tree
  BY <1>1, ReplayIsTree DEF Sound
<1>3. v \in SUBSET OperationId
  BY <1>1, IdType DEF Sound, Ids
<1>4. h \in Operation \cup {None}
  BY <1>1, LastOfExists DEF Sound, HeadOf
<1>5. n \in Nat
  BY <1>1, FS_CardinalityType DEF Sound
<1> QED BY <1>1, <1>2, <1>3, <1>4, <1>5

(* The invariant holds when every replica has just been opened. *)
LEMMA InitIInv == Init => IInv
<1> SUFFICES ASSUME Init PROVE IInv
  OBVIOUS
<1>1. \A op \in Stored : op \in Operation /\ op.replica \in Replica
  BY StoredAssumption, OperationFields DEF OperationSet
<1>2. ASSUME NEW r \in Replica
      PROVE  ReplicaSound(r)
  BY StoredAssumption, SoundOpened DEF Init, ReplicaSound
<1>3. TypeOK
  <2>1. \A r \in Replica :
          /\ storage[r] \in OperationSet /\ clock[r] \in Nat /\ counter[r] \in Nat
          /\ tree[r] \in Tree /\ version_vector[r] \in SUBSET OperationId
          /\ head[r] \in Operation \cup {None} /\ op_count[r] \in Nat
    BY <1>2, SoundType DEF ReplicaSound
  <2> QED BY <2>1 DEF TypeOK, Init
<1>4. IdsAreUnique
  BY StoredAssumption DEF Init, IdsAreUnique, AllOps
<1>5. OwnOperationsAreStored
  BY <1>1 DEF Init, OwnOperationsAreStored
<1> QED BY <1>2, <1>3, <1>4, <1>5 DEF IInv

(* A step of replica r that leaves the others alone and keeps r sound      *)
(* keeps the types.                                                        *)
OnlyChanges(r) ==
  /\ storage' = [storage EXCEPT ![r] = storage'[r]]
  /\ clock' = [clock EXCEPT ![r] = clock'[r]]
  /\ counter' = [counter EXCEPT ![r] = counter'[r]]
  /\ tree' = [tree EXCEPT ![r] = tree'[r]]
  /\ version_vector' = [version_vector EXCEPT ![r] = version_vector'[r]]
  /\ head' = [head EXCEPT ![r] = head'[r]]
  /\ op_count' = [op_count EXCEPT ![r] = op_count'[r]]

LEMMA StepOfOne ==
  ASSUME NEW r \in Replica, IInv, OnlyChanges(r), ReplicaSound(r)'
  PROVE  TypeOK' /\ \A s \in Replica : ReplicaSound(s)'
<1>1. /\ storage'[r] \in OperationSet /\ clock'[r] \in Nat /\ counter'[r] \in Nat
      /\ tree'[r] \in Tree /\ version_vector'[r] \in SUBSET OperationId
      /\ head'[r] \in Operation \cup {None} /\ op_count'[r] \in Nat
  BY SoundType DEF ReplicaSound
<1>2. TypeOK'
  BY <1>1 DEF IInv, TypeOK, OnlyChanges
<1>3. ASSUME NEW s \in Replica, s # r
      PROVE  ReplicaSound(s)'
  <2>1. /\ storage'[s] = storage[s] /\ clock'[s] = clock[s]
        /\ counter'[s] = counter[s] /\ tree'[s] = tree[s]
        /\ version_vector'[s] = version_vector[s] /\ head'[s] = head[s]
        /\ op_count'[s] = op_count[s]
    BY <1>3 DEF IInv, TypeOK, OnlyChanges
  <2> QED BY <2>1 DEF IInv, ReplicaSound
<1> QED BY <1>2, <1>3

-----------------------------------------------------------------------------
(* One lemma per kind of step.                                             *)

(* Opening a replica again keeps the invariant. *)
LEMMA RestartStep ==
  ASSUME NEW r \in Replica, IInv, Restart(r)
  PROVE  IInv'
<1>1. storage[r] \in OperationSet /\ storage' = storage
  BY DEF IInv, TypeOK, Restart
<1>2. /\ \A op \in storage[r] : op.lamport > 0
      /\ \A a, b \in storage[r] : Id(a) = Id(b) => a = b
  <2>1. Sound(r, storage[r], clock[r], counter[r], tree[r], version_vector[r],
              head[r], op_count[r])
    BY DEF IInv, ReplicaSound
  <2>2. \A op \in storage[r] : op.lamport \in Nat
    BY <1>1, OperationFields DEF OperationSet
  <2> QED BY <2>1, <2>2 DEF Sound
<1>3. ReplicaSound(r)'
  <2> DEFINE o == Opened(storage[r], r)
  <2>1. Sound(r, storage[r], o.clock, o.counter, o.tree, o.vv, o.head, o.count)
    BY <1>1, <1>2, SoundOpened
  <2>2. /\ clock'[r] = o.clock /\ counter'[r] = o.counter /\ tree'[r] = o.tree
        /\ version_vector'[r] = o.vv /\ head'[r] = o.head
        /\ op_count'[r] = o.count /\ storage'[r] = storage[r]
    BY DEF Restart, IInv, TypeOK
  <2> HIDE DEF o
  <2> QED BY <2>1, <2>2 DEF ReplicaSound
<1>4. OnlyChanges(r)
  BY DEF Restart, OnlyChanges, IInv, TypeOK
<1>5. TypeOK' /\ \A s \in Replica : ReplicaSound(s)'
  BY <1>3, <1>4, StepOfOne
<1>6. IdsAreUnique' /\ OwnOperationsAreStored'
  BY <1>1 DEF IInv, IdsAreUnique, OwnOperationsAreStored, AllOps
<1> QED BY <1>5, <1>6 DEF IInv

(* A failed placement advances the counter and the clock only. *)
LEMMA PlacementFailsStep ==
  ASSUME NEW r \in Replica, NEW i \in Intent, IInv, LocalPlacementFails(r, i)
  PROVE  IInv'
<1>1. storage' = storage /\ clock[r] \in Nat /\ counter[r] \in Nat
  BY DEF IInv, TypeOK, LocalPlacementFails
<1>2. ReplicaSound(r)'
  <2>1. Sound(r, storage[r], clock[r], counter[r], tree[r], version_vector[r],
              head[r], op_count[r])
    BY DEF IInv, ReplicaSound
  <2>2. \A op \in storage[r] : op.lamport \in Nat /\ op.counter \in Nat
    BY OperationFields DEF OperationSet, IInv, TypeOK
  <2>3. Sound(r, storage[r], clock[r] + 1, counter[r] + 1, tree[r],
              version_vector[r], head[r], op_count[r])
    <3>1. \A op \in storage[r] : /\ 0 < op.lamport /\ op.lamport <= clock[r] + 1
                                 /\ op.replica = r => op.counter <= counter[r] + 1
      BY <1>1, <2>1, <2>2 DEF Sound
    <3>2. clock[r] + 1 \in Nat /\ counter[r] + 1 \in Nat
      BY <1>1
    <3> QED BY <2>1, <3>1, <3>2 DEF Sound
  <2>4. clock'[r] = clock[r] + 1 /\ counter'[r] = counter[r] + 1
    BY DEF LocalPlacementFails, IInv, TypeOK
  <2> QED BY <2>3, <2>4 DEF ReplicaSound, LocalPlacementFails
<1>3. OnlyChanges(r)
  BY DEF LocalPlacementFails, OnlyChanges, IInv, TypeOK
<1>4. TypeOK' /\ \A s \in Replica : ReplicaSound(s)'
  BY <1>2, <1>3, StepOfOne
<1>5. IdsAreUnique' /\ OwnOperationsAreStored'
  BY <1>1 DEF IInv, IdsAreUnique, OwnOperationsAreStored, AllOps
<1> QED BY <1>4, <1>5 DEF IInv

(* Storing one more operation keeps ids unique and every operation stored  *)
(* by its replica, if the operation is one already stored somewhere or a   *)
(* new one of r.                                                           *)
LEMMA StoreOne ==
  ASSUME NEW r \in Replica, IInv, NEW op \in Operation,
         storage' = [storage EXCEPT ![r] = @ \cup {op}],
         op \in AllOps \/ (op.replica = r /\ Id(op) \notin Ids(AllOps))
  PROVE  IdsAreUnique' /\ OwnOperationsAreStored'
<1>1. /\ storage'[r] = storage[r] \cup {op}
      /\ \A s \in Replica : storage[s] \subseteq storage'[s]
      /\ \A s \in Replica : s # r => storage'[s] = storage[s]
  BY DEF IInv, TypeOK
<1>2. AllOps' \subseteq AllOps \cup {op}
  BY <1>1 DEF AllOps
<1>3. IdsAreUnique'
  <2>1. ASSUME NEW a \in AllOps', NEW b \in AllOps', Id(a) = Id(b)
        PROVE  a = b
    BY <1>2, <2>1 DEF IInv, IdsAreUnique, Ids
  <2> QED BY <2>1 DEF IdsAreUnique, Id
<1>4. \A s \in Replica : storage[s] \subseteq Operation
  BY DEF IInv, TypeOK, OperationSet
<1>5. op \in storage'[op.replica]
  BY <1>1, OperationFields DEF IInv, OwnOperationsAreStored, AllOps
<1>6. ASSUME NEW s \in Replica, NEW o \in storage'[s]
      PROVE  o \in storage'[o.replica]
  <2>1. CASE o = op
    BY <1>5, <2>1
  <2>2. CASE o # op
    <3>1. o \in storage[s]
      BY <1>1, <1>6, <2>2
    <3>2. o \in storage[o.replica] /\ o.replica \in Replica
      BY <3>1, <1>4, OperationFields DEF IInv, OwnOperationsAreStored
    <3> QED BY <3>2, <1>1
  <2> QED BY <2>1, <2>2
<1> QED BY <1>3, <1>6 DEF OwnOperationsAreStored

(* The id a replica hands out next is new in the whole system: the counter *)
(* bounds every stored operation of r, and r stores all its own.           *)
LEMMA FreshId ==
  ASSUME NEW r \in Replica, IInv, NEW op,
         op.replica = r, op.counter = counter[r] + 1
  PROVE  Id(op) \notin Ids(AllOps)
<1>1. SUFFICES ASSUME NEW s \in Replica, NEW o \in storage[s], Id(o) = Id(op)
               PROVE  FALSE
  BY DEF Ids, AllOps
<1>2. o.replica = r /\ o.counter = counter[r] + 1
  BY <1>1 DEF Id
<1>3. o \in storage[r]
  BY <1>2 DEF IInv, OwnOperationsAreStored
<1>4. Sound(r, storage[r], clock[r], counter[r], tree[r], version_vector[r],
            head[r], op_count[r])
  BY DEF IInv, ReplicaSound
<1>5. o.counter <= counter[r] /\ counter[r] \in Nat
  BY <1>2, <1>3, <1>4 DEF Sound
<1> QED BY <1>2, <1>5

(* Committing a freshly minted operation keeps the invariant: its id is    *)
(* new, and it is later than everything r stores because the clock bounds  *)
(* those.                                                                  *)
LEMMA CommitLocalStep ==
  ASSUME NEW r \in Replica, IInv, NEW op \in Operation,
         op.replica = r, op.counter = counter[r] + 1, op.lamport = clock[r] + 1,
         CommitLocal(r, op)
  PROVE  IInv'
<1>1. /\ clock[r] \in Nat /\ counter[r] \in Nat
      /\ \A s \in Replica : storage[s] \in OperationSet
      /\ \A s \in Replica : storage[s] \subseteq Operation
  BY DEF IInv, TypeOK, OperationSet
<1>2. Sound(r, storage[r], clock[r], counter[r], tree[r], version_vector[r],
            head[r], op_count[r])
  BY DEF IInv, ReplicaSound
<1>3. \A o \in storage[r] : o.lamport \in Nat /\ o.counter \in Nat
  BY <1>1, OperationFields
<1>4. \A o \in storage[r] : Precedes(o, op)
  <2>1. \A o \in storage[r] : o.lamport < op.lamport
    BY <1>1, <1>2, <1>3 DEF Sound
  <2> QED BY <2>1 DEF Precedes
<1>5. Id(op) \notin Ids(AllOps)
  BY FreshId
<1>6. Id(op) \notin Ids(storage[r])
  BY <1>5 DEF Ids, AllOps
<1>7. /\ counter'[r] = op.counter /\ clock'[r] = op.lamport
      /\ version_vector'[r] = version_vector[r] \cup {Id(op)}
      /\ storage' = [storage EXCEPT ![r] = @ \cup {op}]
      /\ storage'[r] = storage[r] \cup {op}
      /\ tree'[r] = ApplyForward(tree[r], op) /\ head'[r] = op
      /\ op_count'[r] = op_count[r] + 1
  BY <1>6 DEF CommitLocal, IInv, TypeOK
<1>8. ReplicaSound(r)'
  <2>1. /\ 0 < op.lamport /\ op.lamport \in Nat /\ clock[r] <= op.lamport
        /\ op.counter \in Nat /\ counter[r] <= op.counter
    BY <1>1
  <2>2. op.lamport <= op.lamport /\ op.counter <= op.counter
    BY <2>1
  <2>3. Sound(r, storage[r] \cup {op}, op.lamport, op.counter,
              ApplyForward(tree[r], op), version_vector[r] \cup {Id(op)}, op,
              op_count[r] + 1)
    BY <1>2, <1>4, <1>6, <2>1, <2>2, SoundAppend
  <2> QED BY <1>7, <2>3 DEF ReplicaSound
<1>9. OnlyChanges(r)
  BY <1>6 DEF CommitLocal, OnlyChanges, IInv, TypeOK
<1>10. TypeOK' /\ \A s \in Replica : ReplicaSound(s)'
  BY <1>8, <1>9, StepOfOne
<1>11. IdsAreUnique' /\ OwnOperationsAreStored'
  BY <1>5, <1>7, StoreOne
<1> QED BY <1>10, <1>11 DEF IInv

(* What Minted returns is an operation. *)
LEMMA MintedType ==
  ASSUME NEW r \in Replica, NEW i \in Intent, IInv,
         NEW known \in SUBSET OperationId
  PROVE  LET op == Minted(r, i, known)
         IN /\ op \in Operation /\ op.replica = r
            /\ op.counter = counter[r] + 1 /\ op.lamport = clock[r] + 1
<1>1. i \in IntentType
  BY IntentAssumption
<1>2. counter[r] + 1 \in Nat /\ clock[r] + 1 \in Nat
  BY DEF IInv, TypeOK
<1>3. i.kind \in Kind
  BY <1>1 DEF IntentType, Kind
<1> QED BY <1>1, <1>2, <1>3 DEF IntentType, Operation, Minted

(* Every local call keeps the invariant. *)
LEMMA LocalStep ==
  ASSUME NEW r \in Replica, NEW i \in Intent, IInv, Local(r, i)
  PROVE  IInv'
<1>1. \A known \in SUBSET OperationId :
        CommitLocal(r, Minted(r, i, known)) => IInv'
  <2>1. ASSUME NEW known \in SUBSET OperationId,
               CommitLocal(r, Minted(r, i, known))
        PROVE  IInv'
    <3> DEFINE op == Minted(r, i, known)
    <3>1. /\ op \in Operation /\ op.replica = r
          /\ op.counter = counter[r] + 1 /\ op.lamport = clock[r] + 1
      BY MintedType
    <3>2. CommitLocal(r, op)
      BY <2>1
    <3> HIDE DEF op
    <3> QED BY <3>1, <3>2, CommitLocalStep
  <2> QED BY <2>1
<1>2. {} \in SUBSET OperationId
  OBVIOUS
<1>3. CASE LocalInsertAfter(r, i)
  BY <1>1, <1>2, <1>3 DEF LocalInsertAfter
<1>4. CASE LocalMoveAfter(r, i)
  BY <1>1, <1>2, <1>4 DEF LocalMoveAfter
<1>5. CASE LocalPlacementFails(r, i)
  BY <1>5, PlacementFailsStep
<1>6. CASE LocalDelete(r, i)
  <2>1. SubtreeVV(tree[r], i.node) \in SUBSET OperationId
    <3>1. tree[r] \in Tree
      BY DEF IInv, TypeOK
    <3>2. \A d \in Node : tree[r].last_change[d] \subseteq OperationId
      BY <3>1, TreeFields DEF Place
    <3> QED BY <3>2 DEF SubtreeVV, Subtree
  <2> QED BY <1>1, <1>6, <2>1 DEF LocalDelete
<1>7. CASE LocalSetPayload(r, i)
  BY <1>1, <1>2, <1>7 DEF LocalSetPayload
<1>8. CASE LocalClearPayload(r, i)
  BY <1>1, <1>2, <1>8 DEF LocalClearPayload
<1> QED BY <1>3, <1>4, <1>5, <1>6, <1>7, <1>8 DEF Local

(* What is_in_order decides: an operation later than the head is later     *)
(* than everything stored.                                                 *)
LEMMA InOrderIsLast ==
  ASSUME NEW r \in Replica, IInv, NEW op \in Operation,
         Id(op) \notin Ids(storage[r]), IsInOrder(r, op)
  PROVE  \A o \in storage[r] : Precedes(o, op)
<1>1. storage[r] \in OperationSet /\ storage[r] \subseteq Operation
  BY DEF IInv, TypeOK, OperationSet
<1>2. /\ head[r] = HeadOf(storage[r])
      /\ \A a, b \in storage[r] : Id(a) = Id(b) => a = b
  BY DEF IInv, ReplicaSound, Sound
<1>3. CASE storage[r] = {}
  BY <1>3
<1>4. CASE storage[r] # {}
  <2> DEFINE h == LastOf(storage[r])
  <2>1. head[r] = h /\ h \in storage[r] /\ \A o \in storage[r] : ~Precedes(h, o)
    BY <1>1, <1>2, <1>4, LastOfExists DEF HeadOf
  <2> HIDE DEF h
  <2>2. h \in Operation /\ h # None
    BY <1>1, <2>1, NoneIsNoOperation
  <2>3. Precedes(h, op)
    BY <2>1, <2>2 DEF IsInOrder
  <2>4. ASSUME NEW o \in storage[r]
        PROVE  Precedes(o, op)
    <3>1. o = h \/ Precedes(o, h)
      BY <1>1, <1>2, <2>1, PrecedesOrder
    <3> QED BY <1>1, <2>2, <2>3, <3>1, PrecedesOrder
  <2> QED BY <2>4
<1> QED BY <1>3, <1>4

(* Receiving an operation, whether a duplicate, in order or late, keeps    *)
(* the invariant.                                                          *)
LEMMA ApplyRemoteStep ==
  ASSUME NEW r \in Replica, IInv, NEW op \in AllOps,
         NEW raised \in Nat, counter[r] <= raised,
         ApplyRemoteWith(r, op, raised)
  PROVE  IInv'
<1>1. /\ clock[r] \in Nat /\ counter[r] \in Nat
      /\ storage[r] \in OperationSet
      /\ \A s \in Replica : storage[s] \subseteq Operation
  BY DEF IInv, TypeOK, OperationSet
<1>2. Sound(r, storage[r], clock[r], counter[r], tree[r], version_vector[r],
            head[r], op_count[r])
  BY DEF IInv, ReplicaSound
<1>3. op \in Operation /\ 0 < op.lamport
  <2>1. PICK s \in Replica : op \in storage[s]
    BY DEF AllOps
  <2> QED BY <1>1, <2>1 DEF IInv, ReplicaSound, Sound
<1>4. op.lamport \in Nat /\ op.counter \in Nat
  BY <1>3, OperationFields
<1>5. op.replica = r => op \in storage[r]
  BY DEF IInv, OwnOperationsAreStored, AllOps
<1>6. \A o \in storage[r] : o.lamport \in Nat /\ o.counter \in Nat
  BY <1>1, OperationFields
<1> DEFINE observed == Observed(r, op.lamport)
<1>7. observed \in Nat /\ clock[r] <= observed /\ op.lamport <= observed
  BY <1>1, <1>4, MaxOfPair DEF Observed
<1>8. OnlyChanges(r)
  <2>1. /\ storage \in [Replica -> OperationSet] /\ clock \in [Replica -> Nat]
        /\ counter \in [Replica -> Nat] /\ tree \in [Replica -> Tree]
        /\ version_vector \in [Replica -> SUBSET OperationId]
        /\ head \in [Replica -> Operation \cup {None}]
        /\ op_count \in [Replica -> Nat]
    BY DEF IInv, TypeOK
  <2>2. CASE Id(op) \in Ids(storage[r])
    BY <2>1, <2>2 DEF ApplyRemoteWith, OnlyChanges
  <2>3. CASE Id(op) \notin Ids(storage[r]) /\ IsInOrder(r, op)
    BY <2>1, <2>3 DEF ApplyRemoteWith, OnlyChanges
  <2>4. CASE Id(op) \notin Ids(storage[r]) /\ ~IsInOrder(r, op)
    BY <2>1, <2>4 DEF ApplyRemoteWith, OnlyChanges
  <2> QED BY <2>2, <2>3, <2>4
<1> HIDE DEF observed
<1>9. CASE Id(op) \in Ids(storage[r])
  <2>1. /\ storage' = storage /\ clock'[r] = observed /\ counter'[r] = raised
        /\ version_vector'[r] = version_vector[r] \cup {Id(op)}
        /\ tree' = tree /\ head' = head /\ op_count' = op_count
    BY <1>9 DEF ApplyRemoteWith, IInv, TypeOK, observed
  <2>2. version_vector[r] \cup {Id(op)} = version_vector[r]
    BY <1>2, <1>9 DEF Sound
  <2>3. \A o \in storage[r] : /\ 0 < o.lamport /\ o.lamport <= observed
                              /\ o.replica = r => o.counter <= raised
    BY <1>1, <1>2, <1>6, <1>7 DEF Sound
  <2>4. Sound(r, storage[r], observed, raised, tree[r], version_vector[r],
              head[r], op_count[r])
    BY <1>2, <1>7, <2>3 DEF Sound
  <2>5. ReplicaSound(r)'
    BY <2>1, <2>2, <2>4 DEF ReplicaSound
  <2>6. TypeOK' /\ \A s \in Replica : ReplicaSound(s)'
    BY <1>8, <2>5, StepOfOne
  <2>7. IdsAreUnique' /\ OwnOperationsAreStored'
    BY <2>1 DEF IInv, IdsAreUnique, OwnOperationsAreStored, AllOps
  <2> QED BY <2>6, <2>7 DEF IInv
<1>10. CASE Id(op) \notin Ids(storage[r])
  <2> DEFINE log == storage[r] \cup {op}
  <2>1. op.replica # r
    BY <1>5, <1>10 DEF Ids
  <2>2. storage' = [storage EXCEPT ![r] = @ \cup {op}] /\ storage'[r] = log
    BY <1>10 DEF ApplyRemoteWith, IInv, TypeOK
  <2>3. ReplicaSound(r)'
    <3>1. CASE IsInOrder(r, op)
      <4>1. \A o \in storage[r] : Precedes(o, op)
        BY <1>3, <1>10, <3>1, InOrderIsLast
      <4>2. Sound(r, log, observed, raised, ApplyForward(tree[r], op),
                  version_vector[r] \cup {Id(op)}, op, op_count[r] + 1)
        BY <1>2, <1>3, <1>7, <1>10, <2>1, <4>1, SoundAppend
      <4>3. /\ clock'[r] = observed /\ counter'[r] = raised
            /\ version_vector'[r] = version_vector[r] \cup {Id(op)}
            /\ tree'[r] = ApplyForward(tree[r], op)
            /\ head'[r] = op /\ op_count'[r] = op_count[r] + 1
        BY <1>10, <3>1 DEF ApplyRemoteWith, IInv, TypeOK, observed
      <4> HIDE DEF log
      <4> QED BY <2>2, <4>2, <4>3 DEF ReplicaSound
    <3>2. CASE ~IsInOrder(r, op)
      <4>1. log \in OperationSet
        BY <1>1, <1>3, AddOne
      <4>2. \A o \in log : o.lamport > 0 /\ o.lamport \in Nat /\ o.counter \in Nat
        BY <1>2, <1>3, <1>4, <1>6 DEF Sound
      <4>3. LoadSinceZero(log) = log
        <5> HIDE DEF log
        <5> QED BY <4>2, LoadsAll
      <4> DEFINE c == Max({observed, LatestLamport(log)})
                 k == Max({raised, Get(Ids(log), r)})
      <4>4. /\ clock'[r] = c /\ counter'[r] = k
            /\ version_vector'[r] = Ids(log) /\ tree'[r] = Replay[log]
            /\ head'[r] = HeadOf(log) /\ op_count'[r] = Cardinality(log)
        <5>1. /\ clock' = [clock EXCEPT ![r] = c]
              /\ counter' = [counter EXCEPT ![r] = k]
              /\ version_vector' = [version_vector EXCEPT ![r] = Ids(log)]
              /\ tree' = [tree EXCEPT ![r] = Replay[log]]
              /\ head' = [head EXCEPT ![r] = HeadOf(log)]
              /\ op_count' = [op_count EXCEPT ![r] = Cardinality(log)]
          BY <1>10, <3>2, <4>3 DEF ApplyRemoteWith, observed
        <5> HIDE DEF c, k, log
        <5> QED BY <5>1 DEF IInv, TypeOK
      <4>5. c \in Nat /\ observed <= c /\ k \in Nat /\ raised <= k
        <5> HIDE DEF log
        <5>1. LatestLamport(log) \in Nat /\ Get(Ids(log), r) \in Nat
          BY <4>1, LatestLamportBound, GetBound
        <5> QED BY <5>1, <1>7, MaxOfPair
      <4> HIDE DEF c, k
      <4>6. \A o \in log : /\ 0 < o.lamport /\ o.lamport <= c
                           /\ o.replica = r => o.counter <= k
        <5>1. \A o \in storage[r] : /\ o.lamport <= clock[r]
                                    /\ o.replica = r => o.counter <= counter[r]
          BY <1>2 DEF Sound
        <5> QED BY <1>1, <1>7, <2>1, <4>2, <4>5, <5>1
      <4>7. \A a, b \in log : Id(a) = Id(b) => a = b
        BY <1>2, <1>10 DEF Sound, Ids
      <4> HIDE DEF log
      <4>8. Sound(r, log, c, k, Replay[log], Ids(log), HeadOf(log), Cardinality(log))
        BY <4>1, <4>5, <4>6, <4>7 DEF Sound
      <4> QED BY <2>2, <4>4, <4>8 DEF ReplicaSound
    <3> QED BY <3>1, <3>2
  <2>4. TypeOK' /\ \A s \in Replica : ReplicaSound(s)'
    BY <1>8, <2>3, StepOfOne
  <2>5. IdsAreUnique' /\ OwnOperationsAreStored'
    BY <1>3, <2>2, StoreOne
  <2> QED BY <2>4, <2>5 DEF IInv
<1> QED BY <1>9, <1>10

-----------------------------------------------------------------------------
(* The theorems.                                                           *)

(* Every step of every replica keeps the invariant. *)
LEMMA StepIInv == IInv /\ [Next]_vars => IInv'
<1> SUFFICES ASSUME IInv, [Next]_vars PROVE IInv'
  OBVIOUS
<1>1. CASE UNCHANGED vars
  BY <1>1 DEF vars, IInv, TypeOK, ReplicaSound, IdsAreUnique,
              OwnOperationsAreStored, AllOps
<1>2. CASE Next
  <2>1. PICK r \in Replica :
          \/ Restart(r)
          \/ \E i \in Intent : Local(r, i)
          \/ \E op \in AllOps : ApplyRemote(r, op) \/ ApplyRemoteWithDelta(r, op)
    BY <1>2 DEF Next
  <2>2. counter[r] \in Nat /\ counter[r] <= counter[r]
    BY DEF IInv, TypeOK
  <2>3. CASE Restart(r)
    BY <2>3, RestartStep
  <2>4. CASE \E i \in Intent : Local(r, i)
    BY <2>4, LocalStep
  <2>5. ASSUME NEW op \in AllOps, ApplyRemote(r, op)
        PROVE  IInv'
    BY <2>2, <2>5, ApplyRemoteStep DEF ApplyRemote
  <2>6. ASSUME NEW op \in AllOps, ApplyRemoteWithDelta(r, op)
        PROVE  IInv'
    <3> DEFINE raised == IF op.replica = r THEN Max({counter[r], op.counter})
                                           ELSE counter[r]
    <3>1. op.counter \in Nat
      BY OperationFields DEF IInv, TypeOK, OperationSet, AllOps
    <3>2. raised \in Nat /\ counter[r] <= raised
      BY <2>2, <3>1, MaxOfPair
    <3>3. ApplyRemoteWith(r, op, raised)
      BY <2>6 DEF ApplyRemoteWithDelta
    <3> HIDE DEF raised
    <3> QED BY <3>2, <3>3, ApplyRemoteStep
  <2> QED BY <2>1, <2>3, <2>4, <2>5, <2>6
<1> QED BY <1>1, <1>2

(* The invariant holds in every reachable state. *)
THEOREM Invariance == Spec => []IInv
BY InitIInv, StepIInv, PTL DEF Spec

(* A replica's state always has its type: in particular what a replay or   *)
(* an incremental apply_forward leaves in the stores is a tree.            *)
THEOREM TypeCorrect == Spec => []TypeOK
<1>1. IInv => TypeOK
  BY DEF IInv
<1> QED BY <1>1, Invariance, PTL

(* Convergence: whatever the order of local calls, remote deliveries and   *)
(* restarts, a replica shows the tree its set of operations determines.    *)
THEOREM Convergence == Spec => []TreeIsReplay
<1>1. IInv => TreeIsReplay
  BY DEF IInv, ReplicaSound, Sound, TreeIsReplay
<1> QED BY <1>1, Invariance, PTL

(* The head, clock, counter, version vector and operation count kept       *)
(* incrementally always describe the storage.                              *)
THEOREM Bookkeeping == Spec => []BookkeepingMatchesStorage
<1>1. IInv => BookkeepingMatchesStorage
  BY DEF IInv, ReplicaSound, Sound, BookkeepingMatchesStorage
<1> QED BY <1>1, Invariance, PTL

(* No two operations of the system have the same id, and the next id a     *)
(* replica hands out is none of theirs.                                    *)
THEOREM IdsStayUnique == Spec => []IdsAreNeverReused
<1>1. IInv => IdsAreNeverReused
  <2> SUFFICES ASSUME IInv PROVE IdsAreNeverReused
    OBVIOUS
  <2>1. ASSUME NEW op \in AllOps
        PROVE  op.counter <= counter[op.replica]
    <3>1. op \in storage[op.replica] /\ op.replica \in Replica
      BY OperationFields DEF AllOps, IInv, TypeOK, OperationSet, OwnOperationsAreStored
    <3> QED BY <3>1 DEF IInv, ReplicaSound, Sound
  <2> QED BY <2>1 DEF IInv, IdsAreNeverReused
<1> QED BY <1>1, Invariance, PTL

(* No reachable tree has a cycle. *)
THEOREM NoCycles == Spec => []Acyclic
<1>1. IInv => Acyclic
  BY ReplayIsTree DEF IInv, TypeOK, ReplicaSound, Sound, Acyclic
<1> QED BY <1>1, Invariance, PTL

(* The trees of the replicas are the replays of their storages. *)
LEMMA TreesOf ==
  /\ IInv => tree = [r \in Replica |-> Replay[storage[r]]]
  /\ IInv' => tree' = [r \in Replica |-> Replay[storage'[r]]]
BY DEF IInv, TypeOK, ReplicaSound, Sound

(* A step stores nothing, or one operation at one replica: an operation    *)
(* some replica has, or one the replica mints under a new id.              *)
LEMMA StoresAtMostOne ==
  ASSUME IInv, Next
  PROVE  \/ storage' = storage
         \/ \E r \in Replica : \E op :
              /\ op \in AllOps \/ (op.replica = r /\ Id(op) \notin Ids(AllOps))
              /\ storage' = [storage EXCEPT ![r] = @ \cup {op}]
<1>1. PICK r \in Replica :
        \/ Restart(r)
        \/ \E i \in Intent : Local(r, i)
        \/ \E op \in AllOps : ApplyRemote(r, op) \/ ApplyRemoteWithDelta(r, op)
  BY DEF Next
<1>2. CASE Restart(r)
  BY <1>2 DEF Restart
<1>3. ASSUME NEW i \in Intent, NEW known, CommitLocal(r, Minted(r, i, known))
      PROVE  \/ storage' = storage
             \/ \E op : /\ op.replica = r /\ Id(op) \notin Ids(AllOps)
                        /\ storage' = [storage EXCEPT ![r] = @ \cup {op}]
  <2> DEFINE op == Minted(r, i, known)
  <2>1. op.replica = r /\ op.counter = counter[r] + 1
    BY DEF Minted
  <2>2. CommitLocal(r, op)
    BY <1>3
  <2> HIDE DEF op
  <2>3. Id(op) \notin Ids(AllOps)
    BY <2>1, FreshId
  <2> QED BY <2>1, <2>2, <2>3 DEF CommitLocal
<1>4. CASE \E i \in Intent : Local(r, i)
  <2>1. PICK i \in Intent : Local(r, i)
    BY <1>4
  <2>2. storage' = storage \/ \E known : CommitLocal(r, Minted(r, i, known))
    BY <2>1 DEF Local, LocalInsertAfter, LocalMoveAfter, LocalPlacementFails,
                LocalDelete, LocalSetPayload, LocalClearPayload
  <2> QED BY <2>2, <1>3
<1>5. ASSUME NEW op \in AllOps, NEW raised, ApplyRemoteWith(r, op, raised)
      PROVE  storage' = storage \/ storage' = [storage EXCEPT ![r] = @ \cup {op}]
  BY <1>5 DEF ApplyRemoteWith
<1>6. CASE \E op \in AllOps : ApplyRemote(r, op) \/ ApplyRemoteWithDelta(r, op)
  <2>1. PICK op \in AllOps : ApplyRemote(r, op) \/ ApplyRemoteWithDelta(r, op)
    BY <1>6
  <2>2. \E raised : ApplyRemoteWith(r, op, raised)
    BY <2>1 DEF ApplyRemote, ApplyRemoteWithDelta
  <2> QED BY <2>2, <1>5
<1> QED BY <1>1, <1>2, <1>4, <1>6

(* Refinement: the replicas implement the abstract log, in which a tree is *)
(* only ever what the operations determine.                                *)
THEOREM Refinement == Spec => ImplementsTreeLog
<1>1. Init => Abstract!Init
  <2> SUFFICES ASSUME Init PROVE Abstract!Init
    OBVIOUS
  <2>1. storage = [r \in Replica |-> Stored]
    BY DEF Init
  <2>2. IInv
    BY InitIInv
  <2>3. tree = [r \in Replica |-> ReplayOf(Stored)]
    BY <2>1, <2>2, TreesOf DEF ReplayOf
  <2> QED BY <2>1, <2>3 DEF Abstract!Init
<1>2. IInv /\ IInv' /\ [Next]_vars => [Abstract!Next]_<<storage, tree>>
  <2> SUFFICES ASSUME IInv, IInv', [Next]_vars
               PROVE  Abstract!Next \/ UNCHANGED <<storage, tree>>
    OBVIOUS
  <2>1. /\ tree = [r \in Replica |-> Replay[storage[r]]]
        /\ tree' = [r \in Replica |-> Replay[storage'[r]]]
    BY TreesOf
  <2>2. CASE storage' = storage
    BY <2>1, <2>2
  <2>3. CASE storage' # storage
    <3>1. Next
      BY <2>3 DEF vars
    <3> DEFINE Stores(r, op) ==
                 /\ op \in AllOps \/ (op.replica = r /\ Id(op) \notin Ids(AllOps))
                 /\ storage' = [storage EXCEPT ![r] = @ \cup {op}]
    <3>a. PICK r \in Replica : \E op : Stores(r, op)
      BY <2>3, <3>1, StoresAtMostOne
    <3>2. PICK op : Stores(r, op)
      BY <3>a
    <3>3. /\ storage'[r] = storage[r] \cup {op}
          /\ \A s \in Replica : s # r => storage'[s] = storage[s]
      BY <3>2 DEF IInv, TypeOK
    <3>4. tree' = [tree EXCEPT ![r] = ReplayOf(storage'[r])]
      BY <2>1, <3>3 DEF ReplayOf
    <3>5. \/ op.replica = r
               /\ \A s \in Replica : \A o \in storage[s] : Id(o) # Id(op)
          \/ \E s \in Replica : op \in storage[s]
      BY <3>2 DEF AllOps, Ids
    <3>6. Abstract!Learn(r, op)
      BY <3>2, <3>4, <3>5 DEF Abstract!Learn
    <3> QED BY <3>3, <3>6 DEF Abstract!Next
  <2> QED BY <2>2, <2>3
<1> QED BY <1>1, <1>2, Invariance, PTL DEF Spec, ImplementsTreeLog, Abstract!Spec

-----------------------------------------------------------------------------
(* What replicas know of each other's operations.                          *)

(* The part of the invariant about known_state: whatever an operation knows *)
(* was stored somewhere and comes before it.                               *)
KnownIsStored ==
  \A d \in AllOps : \A id \in d.known :
    \E op \in AllOps : Id(op) = id /\ Precedes(op, d)

(* An operation no replica had was minted in this step, on top of the tree *)
(* its replica showed.                                                      *)
MintedOn(r, op) ==
  /\ storage' = [storage EXCEPT ![r] = @ \cup {op}]
  /\ tree'[r] = ApplyForward(tree[r], op)
  /\ op \in Operation /\ op.lamport = clock[r] + 1 /\ Id(op) \notin Ids(AllOps)
  /\ op.kind \in {"insert", "move", "delete", "payload"}
  /\ op.known = IF op.kind = "delete" THEN SubtreeVV(tree[r], op.node) ELSE {}

LEMMA CommitMints ==
  ASSUME NEW r \in Replica, NEW i \in Intent, IInv,
         NEW known, known \in SUBSET OperationId,
         known = IF i.kind = "delete" THEN SubtreeVV(tree[r], i.node) ELSE {},
         CommitLocal(r, Minted(r, i, known))
  PROVE  MintedOn(r, Minted(r, i, known))
<1> DEFINE op == Minted(r, i, known)
<1>1. /\ op \in Operation /\ op.replica = r
      /\ op.counter = counter[r] + 1 /\ op.lamport = clock[r] + 1
  BY MintedType
<1>2. op.kind = i.kind /\ op.node = i.node /\ op.known = known
  BY DEF Minted
<1>3. i.kind \in {"insert", "move", "delete", "payload"}
  BY IntentAssumption DEF IntentType
<1> HIDE DEF op
<1>4. Id(op) \notin Ids(AllOps)
  BY <1>1, FreshId
<1>5. Id(op) \notin Ids(storage[r])
  BY <1>4 DEF Ids, AllOps
<1>6. /\ storage' = [storage EXCEPT ![r] = @ \cup {op}]
      /\ tree'[r] = ApplyForward(tree[r], op)
  BY <1>5 DEF op, CommitLocal, IInv, TypeOK
<1>7. MintedOn(r, op)
  BY <1>1, <1>2, <1>3, <1>4, <1>6 DEF MintedOn
<1> QED BY <1>7 DEF op

LEMMA NewIsMinted ==
  ASSUME IInv, [Next]_vars, NEW r \in Replica, NEW op \in storage'[r], op \notin AllOps
  PROVE  MintedOn(r, op)
<1>1. storage' # storage /\ storage'[r] # storage[r]
  BY DEF AllOps
<1>2. PICK q \in Replica :
        \/ Restart(q)
        \/ \E i \in Intent : Local(q, i)
        \/ \E o \in AllOps : ApplyRemote(q, o) \/ ApplyRemoteWithDelta(q, o)
  BY <1>1 DEF Next, vars
<1>3. ASSUME NEW o, storage' = [storage EXCEPT ![q] = @ \cup {o}]
      PROVE  q = r /\ o = op
  BY <1>1, <1>3 DEF IInv, TypeOK, AllOps
<1>4. CASE Restart(q)
  BY <1>1, <1>4 DEF Restart
<1>5. CASE \E o \in AllOps : ApplyRemote(q, o) \/ ApplyRemoteWithDelta(q, o)
  <2>1. PICK o \in AllOps : storage' = [storage EXCEPT ![q] = @ \cup {o}]
    BY <1>1, <1>5 DEF ApplyRemote, ApplyRemoteWithDelta, ApplyRemoteWith
  <2> QED BY <1>3, <2>1
<1>6. CASE \E i \in Intent : Local(q, i)
  <2>1. PICK i \in Intent : Local(q, i)
    BY <1>6
  <2> DEFINE known == IF i.kind = "delete" THEN SubtreeVV(tree[q], i.node) ELSE {}
  <2>2. CommitLocal(q, Minted(q, i, known))
    BY <1>1, <2>1 DEF Local, LocalInsertAfter, LocalMoveAfter, LocalPlacementFails,
                      LocalDelete, LocalSetPayload, LocalClearPayload
  <2>3. known \in SUBSET OperationId
    <3>1. tree[q] \in Tree
      BY DEF IInv, TypeOK
    <3> QED BY <3>1, TreeFields DEF SubtreeVV, Subtree, Place
  <2> HIDE DEF known
  <2>4. MintedOn(q, Minted(q, i, known))
    BY <2>2, <2>3, CommitMints DEF known
  <2>5. q = r /\ Minted(q, i, known) = op
    BY <1>3, <2>4 DEF MintedOn
  <2> QED BY <2>4, <2>5
<1> QED BY <1>2, <1>4, <1>5, <1>6

(* Storages only grow. *)
LEMMA StoragesGrow ==
  ASSUME IInv, [Next]_vars
  PROVE  \A r \in Replica : storage[r] \subseteq storage'[r]
<1>1. CASE UNCHANGED vars
  BY <1>1 DEF vars
<1>2. CASE Next
  BY <1>2, StoresAtMostOne DEF IInv, TypeOK
<1> QED BY <1>1, <1>2

(* What a sound replica's tree records, its storage has, and the ids in it *)
(* are those of stored operations that its clock is not behind.            *)
LEMMA RecordedIsStored ==
  ASSUME NEW r \in Replica, IInv, KnownIsStored
  PROVE  /\ Recorded(storage[r], tree[r])
         /\ \A op \in storage[r] : op \in Operation /\ op.lamport <= clock[r]
         /\ \A op \in storage[r] : \A id : Names(op, id) =>
              \E o \in AllOps : /\ Id(o) = id /\ o \in Operation
                                /\ o.lamport <= op.lamport
<1>1. Sound(r, storage[r], clock[r], counter[r], tree[r], version_vector[r],
            head[r], op_count[r])
  BY DEF IInv, ReplicaSound
<1>2. Recorded(storage[r], tree[r])
  BY <1>1, ReplayRecords DEF Sound
<1>3. \A op \in AllOps : op \in Operation /\ op.lamport \in Nat
  BY OperationFields DEF AllOps, IInv, TypeOK, OperationSet
<1>4. \A op \in storage[r] : op \in AllOps /\ op.lamport <= clock[r]
  BY <1>1 DEF AllOps, Sound
<1>5. ASSUME NEW op \in storage[r], NEW id, Names(op, id)
      PROVE  \E o \in AllOps : /\ Id(o) = id /\ o \in Operation
                               /\ o.lamport <= op.lamport
  <2>1. CASE id = Id(op)
    BY <1>3, <1>4, <2>1
  <2>2. CASE id \in op.known
    <3>1. PICK o \in AllOps : Id(o) = id /\ Precedes(o, op)
      BY <1>4, <2>2 DEF KnownIsStored
    <3>2. o.lamport <= op.lamport
      BY <1>3, <1>4, <3>1 DEF Precedes
    <3> QED BY <1>3, <3>1, <3>2
  <2> QED BY <1>5, <2>1, <2>2 DEF Names
<1> QED BY <1>2, <1>3, <1>4, <1>5

(* The known_state of a new delete comes from last_change entries of the   *)
(* tree it is made on, so it names stored operations, and the clock puts   *)
(* the delete after all of them.                                           *)
LEMMA StepKnown == IInv /\ KnownIsStored /\ [Next]_vars => KnownIsStored'
<1> SUFFICES ASSUME IInv, KnownIsStored, [Next]_vars,
                    NEW d \in AllOps', NEW id \in d.known
             PROVE  \E op \in AllOps' : Id(op) = id /\ Precedes(op, d)
  BY DEF KnownIsStored
<1>1. AllOps \subseteq AllOps'
  BY StoragesGrow DEF AllOps
<1>2. CASE d \in AllOps
  BY <1>1, <1>2 DEF KnownIsStored
<1>3. CASE d \notin AllOps
  <2>1. PICK r \in Replica : d \in storage'[r]
    BY DEF AllOps
  <2>2. MintedOn(r, d)
    BY <1>3, <2>1, NewIsMinted
  <2>3. d.kind = "delete" /\ id \in SubtreeVV(tree[r], d.node)
    BY <2>2 DEF MintedOn
  <2>4. PICK n \in Node : id \in tree[r].last_change[n]
    BY <2>3 DEF SubtreeVV, Subtree
  <2>5. PICK op \in storage[r] : Names(op, id)
    BY <2>4, RecordedIsStored DEF Recorded, NamesRecorded, Place
  <2>6. PICK o \in AllOps : Id(o) = id /\ o \in Operation /\ o.lamport <= op.lamport
    BY <2>5, RecordedIsStored
  <2>7. o.lamport < d.lamport
    <3>1. op \in Operation /\ op.lamport <= clock[r]
      BY RecordedIsStored
    <3>2. op.lamport \in Nat /\ o.lamport \in Nat /\ clock[r] \in Nat
      BY <2>6, <3>1, OperationFields DEF IInv, TypeOK
    <3> QED BY <2>2, <2>6, <3>1, <3>2 DEF MintedOn
  <2> QED BY <1>1, <2>6, <2>7 DEF Precedes
<1> QED BY <1>2, <1>3

LEMMA InitKnown == Init => KnownIsStored
<1> SUFFICES ASSUME Init PROVE KnownIsStored
  OBVIOUS
<1>1. AllOps \subseteq Stored /\ \A r \in Replica : storage[r] = Stored
  BY DEF Init, AllOps
<1>2. AllOps # {} => \A op \in Stored : op \in AllOps
  BY <1>1 DEF AllOps
<1> QED BY <1>1, <1>2, StoredAssumption DEF KnownIsStored

(* What operations know is stored and comes before them, in every          *)
(* reachable state.                                                        *)
LEMMA KnownInvariance == Spec => [](IInv /\ KnownIsStored)
<1>1. Init => KnownIsStored
  BY InitKnown
<1>2. IInv /\ KnownIsStored /\ [Next]_vars => KnownIsStored'
  BY StepKnown
<1> QED BY <1>1, <1>2, InitIInv, StepIInv, PTL DEF Spec

(* Defensive deletion: a hidden node has no change in its subtree that no  *)
(* delete of it knew.  The replay records each change, and what deletes    *)
(* know, whatever the order in which they arrived; since ids are unique, a *)
(* recorded deletion that covers a change is one that knew it.             *)
THEOREM DeletionsAreDefensive == Spec => []DeletionIsDefensive
<1>1. IInv /\ KnownIsStored => KnowledgeIsCausal
  BY DEF IInv, KnownIsStored, KnowledgeIsCausal, IdsAreUnique
<1>2. ASSUME IInv, KnownIsStored, NEW r \in Replica, NEW n \in Node,
             IsTombstoned(tree[r], n), NEW op \in InEffect(storage[r], tree[r], n)
      PROVE  \E d \in storage[r] :
               d.kind \in {"delete", "tombstone"} /\ d.node = n /\ Id(op) \in d.known
  <2> DEFINE t == tree[r]
             S == storage[r]
  <2>1. Recorded(S, t) /\ S \subseteq AllOps /\ \A o \in S : o \in Operation
    BY <1>2, RecordedIsStored DEF AllOps
  <2>2. /\ op \in S /\ op.node \in Subtree(t, n) /\ op.node \in Node /\ op.node \in Place
        /\ Writes(op) \/ op = t.place[op.node]
    BY <2>1, OperationFields DEF InEffect, Writes, Place
  <2>3. Id(op) \in t.last_change[op.node] /\ op.kind \notin {"delete", "tombstone"}
    <3>1. CASE Writes(op)
      <4>1. op.payload # None => op.kind \in {"insert", "payload"}
        BY <2>1, <2>2, OperationFields
      <4> QED BY <2>1, <2>2, <3>1, <4>1 DEF Recorded, WritesRecorded, Writes
    <3>2. CASE op = t.place[op.node]
      <4>1. op # None
        BY <2>1, <2>2, NoneIsNoOperation
      <4> HIDE DEF t, S
      <4> QED BY <2>1, <2>2, <3>2, <4>1 DEF Recorded, PlacesRecorded
    <3> QED BY <2>2, <3>1, <3>2
  <2>4. Id(op) \in t.deleted_at[n]
    BY <1>2, <2>2, <2>3 DEF IsTombstoned, SubtreeVV
  <2>5. PICK d \in S : Deletes(d, n) /\ Names(d, Id(op))
    BY <2>1, <2>4 DEF Recorded, NamesRecorded
  <2>6. Id(op) # Id(d)
    BY <1>2, <2>1, <2>2, <2>3, <2>5 DEF IInv, IdsAreUnique, Deletes
  <2> QED BY <2>5, <2>6 DEF Deletes, Names
<1>3. IInv /\ KnownIsStored => DeletionIsDefensive
  BY <1>1, <1>2 DEF DeletionIsDefensive
<1> QED BY <1>3, KnownInvariance, PTL
(* A change that no replica had before keeps the node and all its ancestors *)
(* visible: no delete can know it.                                          *)
LEMMA FreshChangeIsVisible ==
  ASSUME NEW r \in Replica, IInv, KnownIsStored, NEW op \in Operation,
         Id(op) \notin Ids(AllOps), op.kind \notin {"delete", "tombstone"},
         NEW u, u = ApplyForward(tree[r], op), Id(op) \in u.last_change[op.node]
  PROVE  \A a \in Chain(u, op.node) : ~IsTombstoned(u, a)
<1> SUFFICES ASSUME NEW a \in Chain(u, op.node), IsTombstoned(u, a)
             PROVE  FALSE
  OBVIOUS
<1>1. a \in Node /\ op.node \in Node /\ op.node \in Subtree(u, a)
  BY OperationFields DEF Chain, Subtree
<1>2. Id(op) \in u.deleted_at[a]
  BY <1>1 DEF IsTombstoned, SubtreeVV
<1>3. tree[r] \in Tree
  BY DEF IInv, TypeOK
<1>4. u.deleted_at[a] = tree[r].deleted_at[a]
  <2>1. Grows(tree[r], u, op)
    BY <1>3, ApplyForwardGrows
  <2> QED BY <1>1, <2>1 DEF Grows
<1>5. PICK d \in storage[r] : Names(d, Id(op))
  BY <1>1, <1>2, <1>4, RecordedIsStored DEF Recorded, NamesRecorded
<1>6. \E o \in AllOps : Id(o) = Id(op)
  BY <1>5, RecordedIsStored
<1> QED BY <1>6 DEF Ids

(* A local call takes effect at once on the replica that makes it: the     *)
(* operation it mints is later than all the replica has, so its payload is *)
(* the present one, and new, so no delete covers it.                       *)
LEMMA MintedTakesEffect ==
  ASSUME NEW r \in Replica, IInv, KnownIsStored, NEW op, MintedOn(r, op)
  PROVE  TookEffect(tree[r], tree'[r], op)
<1> DEFINE t == tree[r]
           u == tree'[r]
<1>1. /\ t \in Tree /\ op \in Operation /\ op.node \in Node
      /\ u = ApplyForward(t, op) /\ Id(op) \notin Ids(AllOps)
  BY OperationFields DEF IInv, TypeOK, MintedOn
<1>2. op.kind \in {"insert", "move", "delete", "payload"}
  BY DEF MintedOn
<1>3. CASE op.kind = "delete"
  <2> DEFINE e == EnsureNode(t, {op.node})
  <2>1. e \in Tree /\ e.last_change = t.last_change /\ e.place = t.place
    BY <1>1, EnsureNodeType, EnsureNodeGrows DEF Place
  <2>2. u = ApplyDelete(e, op)
    BY <1>1, <1>3 DEF ApplyForward
  <2> HIDE DEF e
  <2>3. /\ u.last_change = t.last_change /\ u.place = t.place
        /\ u.deleted_at[op.node] = e.deleted_at[op.node] \cup {Id(op)} \cup op.known
    BY <1>1, <1>3, <2>1, <2>2, ApplyDeleteGrows
  <2>4. SubtreeVV(u, op.node) = SubtreeVV(t, op.node)
    <3>1. \A n : Parent(u, n) = Parent(t, n)
      BY <2>3 DEF Parent
    <3>2. \A X : UpClosed(u, X) = UpClosed(t, X)
      BY <3>1 DEF UpClosed
    <3>3. \A p : Chain(u, p) = Chain(t, p)
      BY <3>2 DEF Chain
    <3> QED BY <2>3, <3>3 DEF SubtreeVV, Subtree
  <2>5. op.known = SubtreeVV(t, op.node)
    BY <1>3 DEF MintedOn
  <2>6. IsTombstoned(u, op.node)
    BY <2>3, <2>4, <2>5 DEF IsTombstoned
  <2> QED BY <1>3, <2>6 DEF TookEffect
<1>4. CASE op.kind = "payload"
  <2>1. t.writer[op.node] # None => Precedes(t.writer[op.node], op)
    <3> SUFFICES ASSUME t.writer[op.node] # None
                 PROVE  Precedes(t.writer[op.node], op)
      OBVIOUS
    <3>1. t.writer[op.node] \in storage[r]
      BY <1>1, RecordedIsStored DEF Recorded, WritesRecorded
    <3>2. /\ t.writer[op.node].lamport <= clock[r]
          /\ t.writer[op.node].lamport \in Nat /\ clock[r] \in Nat
      BY <3>1, RecordedIsStored, OperationFields DEF IInv, TypeOK
    <3>3. op.lamport = clock[r] + 1
      BY DEF MintedOn
    <3> QED BY <3>2, <3>3 DEF Precedes
  <2>2. u.writer[op.node] = op /\ Id(op) \in u.last_change[op.node]
    BY <1>1, <1>4, <2>1, ApplyForwardGrows DEF Writes
  <2>3. \A a \in Chain(u, op.node) : ~IsTombstoned(u, a)
    BY <1>1, <1>4, <2>2, FreshChangeIsVisible
  <2> QED BY <1>4, <2>2, <2>3 DEF TookEffect
<1>5. CASE op.kind \in {"insert", "move"}
  <2>1. CASE op.parent = op.node \/ IntroducesCycle(t, op.node, op.parent)
    BY <1>5, <2>1 DEF TookEffect
  <2>2. CASE ~(op.parent = op.node \/ IntroducesCycle(t, op.node, op.parent))
    <3>1. u.place[op.node] = op /\ Id(op) \in u.last_change[op.node]
      BY <1>1, <1>5, <2>2, ApplyForwardPlaces
    <3>2. \A a \in Chain(u, op.node) : ~IsTombstoned(u, a)
      BY <1>1, <1>5, <3>1, FreshChangeIsVisible
    <3> QED BY <1>5, <3>1, <3>2 DEF TookEffect
  <2> QED BY <2>1, <2>2
<1> QED BY <1>2, <1>3, <1>4, <1>5

(* Local calls take effect, in every step of every behaviour. *)
THEOREM LocalCallsTakeEffectAtOnce == Spec => LocalCallsTakeEffect
<1>1. IInv /\ KnownIsStored /\ [Next]_vars =>
        [\A r \in Replica : \A op \in storage'[r] \ AllOps :
            TookEffect(tree[r], tree'[r], op)]_vars
  <2> SUFFICES ASSUME IInv, KnownIsStored, [Next]_vars, NEW r \in Replica,
                      NEW op \in storage'[r] \ AllOps
               PROVE  TookEffect(tree[r], tree'[r], op)
    OBVIOUS
  <2> QED BY NewIsMinted, MintedTakesEffect
<1> QED BY <1>1, KnownInvariance, PTL DEF Spec, LocalCallsTakeEffect
=============================================================================
