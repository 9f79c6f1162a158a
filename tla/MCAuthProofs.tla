---------------------------- MODULE MCAuthProofs ----------------------------
(***************************************************************************)
(* Proofs about the auth package, for every set of peers, links, tokens,   *)
(* revocation records and operations, every tree and every chain of        *)
(* delegated tokens.                                                       *)
(***************************************************************************)
EXTENDS MCAuth, FiniteSetTheorems, SequenceTheorems, NaturalsInduction, TLAPS

-----------------------------------------------------------------------------
(* Steps counted by a natural number.                                      *)

\* A non-empty set of natural numbers has a least one.
LEMMA LeastNumber ==
  ASSUME NEW S \in SUBSET Nat, S # {}
  PROVE  \E m \in S : \A n \in S : m <= n
<1>1. PICK m \in S : \A n \in S : ~(<<n, m>> \in OpToRel(<, Nat))
  BY NatLessThanWellFounded, WFMin
<1>2. \A n \in S : ~(n < m)
  BY <1>1 DEF OpToRel
<1>3. m \in Nat /\ \A n \in S : n \in Nat
  BY <1>1
<1>4. \A n \in S : m <= n
  BY <1>2, <1>3
<1> QED BY <1>1, <1>4

\* What holds at the start and is kept by each of n steps holds at the end.
LEMMA AfterSteps ==
  ASSUME NEW n \in Nat, NEW S, 0 \in S, \A i \in 1 .. n : i - 1 \in S => i \in S
  PROVE  \A i \in 0 .. n : i \in S
<1> DEFINE T == {i \in 0 .. n : i \notin S}
<1> SUFFICES ASSUME T # {} PROVE FALSE
  OBVIOUS
<1>1. PICK m \in T : \A i \in T : m <= i
  <2>1. T \in SUBSET Nat
    OBVIOUS
  <2> HIDE DEF T
  <2> QED BY <2>1, LeastNumber
<1>2. m \in 1 .. n /\ m - 1 \in 0 .. n /\ m - 1 \notin T
  BY <1>1
<1> QED BY <1>1, <1>2

\* A function of n steps, which exists.
Takes(f, n, base, step) ==
  f[0] = base /\ \A i \in 1 .. n : f[i] = step[<<i, f[i - 1]>>]

LEMMA StepsExist ==
  ASSUME NEW n \in Nat, NEW S, NEW base \in S, NEW step \in [(1 .. n) \X S -> S]
  PROVE  \E f \in [0 .. n -> S] : Takes(f, n, base, step)
<1> DEFINE Done == {k \in 0 .. n : \E f \in [0 .. k -> S] : Takes(f, k, base, step)}
<1>1. 0 \in Done
  <2> DEFINE g == [i \in 0 .. 0 |-> base]
  <2>1. g \in [0 .. 0 -> S] /\ Takes(g, 0, base, step)
    BY DEF Takes
  <2> HIDE DEF g
  <2>2. \E f \in [0 .. 0 -> S] : Takes(f, 0, base, step)
    BY <2>1
  <2> QED BY <2>2
<1>2. \A k \in 1 .. n : k - 1 \in Done => k \in Done
  <2> SUFFICES ASSUME NEW k \in 1 .. n, k - 1 \in Done PROVE k \in Done
    OBVIOUS
  <2>1. PICK f \in [0 .. k - 1 -> S] : Takes(f, k - 1, base, step)
    OBVIOUS
  <2> DEFINE g == [i \in 0 .. k |-> IF i = k THEN step[<<k, f[k - 1]>>] ELSE f[i]]
  <2>2. \A i \in 0 .. k : g[i] = IF i = k THEN step[<<k, f[k - 1]>>] ELSE f[i]
    OBVIOUS
  <2>3. g \in [0 .. k -> S]
    <3>1. f[k - 1] \in S
      OBVIOUS
    <3>2. step[<<k, f[k - 1]>>] \in S
      BY <3>1
    <3> QED BY <3>2
  <2> HIDE DEF g
  <2>4. Takes(g, k, base, step)
    <3>1. g[0] = base
      BY <2>1, <2>2 DEF Takes
    <3>2. ASSUME NEW i \in 1 .. k PROVE g[i] = step[<<i, g[i - 1]>>]
      <4>1. i \in 0 .. k /\ i - 1 \in 0 .. k /\ i - 1 # k /\ g[i - 1] = f[i - 1]
        BY <2>2
      <4>2. CASE i = k
        BY <2>2, <4>1, <4>2, SMTT(30)
      <4>3. CASE i # k
        BY <2>1, <2>2, <4>1, <4>3 DEF Takes
      <4> QED BY <4>2, <4>3
    <3> QED BY <3>1, <3>2 DEF Takes
  <2> QED BY <2>3, <2>4
<1>3. n \in Done
  <2>1. \A i \in 0 .. n : i \in Done
    <3> HIDE DEF Done
    <3> QED BY <1>1, <1>2, AfterSteps
  <2> QED BY <2>1
<1> QED BY <1>3

\* The operators of FiniteSets under the names the instances give them.
LEMMA SameFiniteSets ==
  /\ \A S : P!IsFiniteSet(S) = IsFiniteSet(S) /\ P!Cardinality(S) = Cardinality(S)
  /\ \A S : D!IsFiniteSet(S) = IsFiniteSet(S) /\ D!Cardinality(S) = Cardinality(S)
BY DEF P!IsFiniteSet, D!IsFiniteSet, IsFiniteSet, P!Cardinality, D!Cardinality, Cardinality

-----------------------------------------------------------------------------
(* What peers hold.                                                        *)

Auth == {P!OpAuth(o, ref) : o \in Ops, ref \in {{}} \cup {{P!TokenId(t)} : t \in Tokens}}
Identity == UNION {Chains[p] : p \in Peers}
Said ==
  [name : {"auth.capability", "auth.capability.replay"}, value : Tokens]
    \cup [name : {"auth.revocation"}, value : Records]
    \cup [name : {"auth.identity_chain"}, value : Identity]

MemType ==
  [grants : SUBSET Tokens, replay : SUBSET Tokens, rev : SUBSET Records, auth : SUBSET Auth,
   identities : SUBSET Identity, storeLoaded : BOOLEAN, revsLoaded : BOOLEAN,
   tokensRecorded : BOOLEAN]
DiskType ==
  [caps : SUBSET Tokens, auth : SUBSET Auth, ops : SUBSET Ops, pending : SUBSET Auth]
SessionType ==
  [stage : {"none", "hello", "ack", "open"}, filter : {"all"} \cup UNION {Filters[l] : l \in Links},
   caps : SUBSET Said, toldI : SUBSET Ops, toldR : SUBSET Ops]

PeersType ==
  /\ mem \in [Peers -> MemType] /\ disk \in [Peers -> DiskType]
  /\ options \in [Peers -> SUBSET Records] /\ session \in [Links -> SessionType]
  /\ now \in Nat /\ restarts \in Nat

\* The records of the second set are as strict as those of the first.
AtLeast(e, r) ==
  e.tokenId = r.tokenId /\ (e.revSeq > r.revSeq \/ (e.revSeq = r.revSeq /\ e.bytes >= r.bytes))
Stricter(rev, next) == \A r \in rev : \E e \in next : AtLeast(e, r)

LEMMA StricterReflexive ==
  ASSUME NEW rev \in SUBSET Records
  PROVE  Stricter(rev, rev)
BY MCAuthAssumption DEF P!Assumptions, P!WellFormedRecord, Stricter, AtLeast

LEMMA StricterTransitive ==
  ASSUME NEW a \in SUBSET Records, NEW b \in SUBSET Records, NEW c \in SUBSET Records,
         Stricter(a, b), Stricter(b, c)
  PROVE  Stricter(a, c)
<1> SUFFICES ASSUME NEW r \in a PROVE \E e \in c : AtLeast(e, r)
  BY DEF Stricter
<1>1. PICK x \in b : AtLeast(x, r)
  BY DEF Stricter
<1>2. PICK e \in c : AtLeast(e, x)
  BY DEF Stricter
<1>3. /\ r.revSeq \in Nat /\ r.bytes \in Nat /\ x.revSeq \in Nat /\ x.bytes \in Nat
      /\ e.revSeq \in Nat /\ e.bytes \in Nat
  BY MCAuthAssumption DEF P!Assumptions, P!WellFormedRecord
<1> QED BY <1>1, <1>2, <1>3 DEF AtLeast

\* applyRevocationRecord replaces a record only by one that supersedes it.
LEMMA RecordApplied ==
  ASSUME NEW rev \in SUBSET Records, NEW r \in Records
  PROVE  /\ P!ApplyRevocationRecord(rev, r) \in SUBSET Records
         /\ Stricter(rev, P!ApplyRevocationRecord(rev, r))
<1> DEFINE existing == {e \in rev : e.tokenId = r.tokenId}
<1>1. CASE \A e \in existing : P!Supersedes(r, e)
  <2>1. P!ApplyRevocationRecord(rev, r) = (rev \ existing) \cup {r}
    BY <1>1 DEF P!ApplyRevocationRecord
  <2>2. ASSUME NEW x \in rev PROVE \E e \in (rev \ existing) \cup {r} : AtLeast(e, x)
    <3>1. CASE x \in existing
      <4>1. x.revSeq \in Nat /\ x.bytes \in Nat /\ r.revSeq \in Nat /\ r.bytes \in Nat
        BY MCAuthAssumption DEF P!Assumptions, P!WellFormedRecord
      <4>2. AtLeast(r, x)
        BY <1>1, <3>1, <4>1 DEF AtLeast, P!Supersedes
      <4> QED BY <4>2
    <3>2. CASE x \notin existing
      <4>1. AtLeast(x, x)
        BY MCAuthAssumption DEF P!Assumptions, P!WellFormedRecord, AtLeast
      <4> QED BY <3>2, <4>1
    <3> QED BY <3>1, <3>2
  <2> QED BY <2>1, <2>2 DEF Stricter
<1>2. CASE ~ \A e \in existing : P!Supersedes(r, e)
  <2>1. P!ApplyRevocationRecord(rev, r) = rev
    BY <1>2 DEF P!ApplyRevocationRecord
  <2> QED BY <2>1, StricterReflexive
<1> QED BY <1>1, <1>2

\* The records after each of a sequence of records.
LEMMA OrderSteps ==
  ASSUME NEW rev \in SUBSET Records, NEW n \in Nat, NEW order \in [1 .. n -> Records]
  PROVE  \E f :
           /\ f[0] = rev /\ P!AppliedInOrder(rev, order) = f[n]
           /\ \A i \in 1 .. n : f[i] = P!ApplyRevocationRecord(f[i - 1], order[i])
<1> DEFINE S == SUBSET Records
           step == [q \in (1 .. n) \X S |-> P!ApplyRevocationRecord(q[2], order[q[1]])]
           f == CHOOSE f : f = [i \in 0 .. n |->
                  IF i = 0 THEN rev ELSE P!ApplyRevocationRecord(f[i - 1], order[i])]
<1>1. Len(order) = n
  <2>1. order \in Seq(Records)
    BY SeqDef
  <2> QED BY <2>1, LenProperties
<1>2. P!AppliedInOrder(rev, order) = f[n]
  BY <1>1 DEF P!AppliedInOrder
<1>3. step \in [(1 .. n) \X S -> S]
  <2>1. ASSUME NEW q \in (1 .. n) \X S
        PROVE  P!ApplyRevocationRecord(q[2], order[q[1]]) \in S
    BY RecordApplied
  <2> HIDE DEF S
  <2> QED BY <2>1
<1>4. PICK g \in [0 .. n -> S] : Takes(g, n, rev, step)
  <2> HIDE DEF step
  <2>1. rev \in S
    OBVIOUS
  <2> HIDE DEF S
  <2> QED BY <1>3, <2>1, StepsExist
<1>5. \A i \in 1 .. n : g[i] = P!ApplyRevocationRecord(g[i - 1], order[i])
  <2> SUFFICES ASSUME NEW i \in 1 .. n
               PROVE  g[i] = P!ApplyRevocationRecord(g[i - 1], order[i])
    OBVIOUS
  <2>1. i - 1 \in 0 .. n
    OBVIOUS
  <2> HIDE DEF S
  <2>2. g[i - 1] \in S /\ <<i, g[i - 1]>> \in (1 .. n) \X S
    BY <2>1
  <2>3. g[i] = step[<<i, g[i - 1]>>]
    BY <1>4 DEF Takes
  <2> QED BY <2>2, <2>3
<1>6. g = [i \in 0 .. n |-> IF i = 0 THEN rev ELSE P!ApplyRevocationRecord(g[i - 1], order[i])]
  <2> HIDE DEF S, step
  <2>1. ASSUME NEW i \in 0 .. n
        PROVE  g[i] = IF i = 0 THEN rev ELSE P!ApplyRevocationRecord(g[i - 1], order[i])
    BY <1>4, <1>5 DEF Takes
  <2> QED BY <1>4, <2>1
<1>7. f = [i \in 0 .. n |-> IF i = 0 THEN rev ELSE P!ApplyRevocationRecord(f[i - 1], order[i])]
  BY <1>6
<1>8. f[0] = rev /\ \A i \in 1 .. n : f[i] = P!ApplyRevocationRecord(f[i - 1], order[i])
  <2> HIDE DEF f
  <2>1. 0 \in 0 .. n /\ \A i \in 1 .. n : i \in 0 .. n /\ i # 0
    OBVIOUS
  <2> QED BY <1>7, <2>1
<1> QED BY <1>2, <1>8

\* Records that are applied in any order leave a set that is as strict.
LEMMA AllApplied ==
  ASSUME NEW rev \in SUBSET Records, NEW new \in SUBSET Records, NEW v \in P!AppliedAll(rev, new)
  PROVE  v \in SUBSET Records /\ Stricter(rev, v)
<1> DEFINE n == Cardinality(new)
<1>1. n \in Nat
  <2>1. IsFiniteSet(Records)
    BY MCAuthAssumption, SameFiniteSets DEF P!Assumptions
  <2>2. IsFiniteSet(new)
    BY <2>1, FS_Subset
  <2> QED BY <2>2, FS_CardinalityType
<1>2. PICK order \in P!SetToSeqs(new) : v = P!AppliedInOrder(rev, order)
  BY DEF P!AppliedAll
<1>3. order \in [1 .. n -> Records]
  <2>1. order \in [1 .. n -> new]
    BY <1>2, SameFiniteSets DEF P!SetToSeqs
  <2> QED BY <2>1
<1> HIDE DEF n
<1>4. PICK f :
        /\ f[0] = rev /\ v = f[n]
        /\ \A i \in 1 .. n : f[i] = P!ApplyRevocationRecord(f[i - 1], order[i])
  BY <1>1, <1>2, <1>3, OrderSteps
<1> DEFINE S == {i \in 0 .. n : f[i] \in SUBSET Records /\ Stricter(rev, f[i])}
<1>5. 0 \in S
  BY <1>1, <1>4, StricterReflexive
<1>6. ASSUME NEW i \in 1 .. n, i - 1 \in S PROVE i \in S
  <2>1. f[i - 1] \in SUBSET Records /\ Stricter(rev, f[i - 1]) /\ order[i] \in Records
    BY <1>3, <1>6
  <2>2. f[i] = P!ApplyRevocationRecord(f[i - 1], order[i])
    BY <1>4
  <2>3. f[i] \in SUBSET Records /\ Stricter(f[i - 1], f[i])
    BY <2>1, <2>2, RecordApplied
  <2>4. Stricter(rev, f[i])
    BY <2>1, <2>3, StricterTransitive
  <2> QED BY <1>1, <2>3, <2>4
<1>7. n \in S
  <2> HIDE DEF S
  <2>1. \A i \in 0 .. n : i \in S
    BY <1>1, <1>5, <1>6, AfterSteps
  <2> QED BY <1>1, <2>1
<1> QED BY <1>4, <1>7

-----------------------------------------------------------------------------
(* What the entry points of a peer record.                                 *)

\* A result of a helper called with memory m and disk d: caches grow, operations stay.
Learned(m, d, a) ==
  /\ a = P!Result(a.m, a.d, a.ok) /\ a.m \in MemType /\ a.d \in DiskType
  /\ a.d.ops = d.ops /\ a.d.pending = d.pending
  /\ a.m.auth = m.auth /\ Stricter(m.rev, a.m.rev)

LEMMA ResultLearned ==
  ASSUME NEW m, NEW d, NEW x \in MemType, NEW y \in DiskType, NEW ok,
         x.auth = m.auth, Stricter(m.rev, x.rev), y.ops = d.ops, y.pending = d.pending
  PROVE  Learned(m, d, P!Result(x, y, ok))
BY DEF Learned, P!Result

LEMMA UnchangedLearned ==
  ASSUME NEW m \in MemType, NEW d \in DiskType, NEW ok
  PROVE  Learned(m, d, P!Result(m, d, ok))
<1>1. Stricter(m.rev, m.rev)
  BY StricterReflexive DEF MemType
<1> QED BY <1>1, ResultLearned

LEMMA LearnedTwice ==
  ASSUME NEW m \in MemType, NEW d \in DiskType, NEW a, Learned(m, d, a),
         NEW b, Learned(a.m, a.d, b)
  PROVE  Learned(m, d, b)
<1>1. Stricter(m.rev, b.m.rev)
  BY StricterTransitive DEF Learned, MemType
<1> QED BY <1>1 DEF Learned

\* recordToken and rememberReplayAuthCapability change two maps.
LEMMA Remembered ==
  ASSUME NEW p, NEW m \in MemType, NEW ts \in SUBSET Tokens
  PROVE  /\ P!Remember(p, m, ts) \in MemType
         /\ P!Remember(p, m, ts).rev = m.rev /\ P!Remember(p, m, ts).auth = m.auth
BY DEF P!Remember, MemType

LEMMA StoreRecorded ==
  ASSUME NEW p \in Peers, NEW m \in MemType, NEW d \in DiskType,
         NEW a \in P!EnsureCapabilityStoreRecorded(p, m, d)
  PROVE  Learned(m, d, a)
<1> DEFINE good == {t \in d.caps : P!Parse(p, m, t) = "ok"}
<1>1. Stricter(m.rev, m.rev)
  BY StricterReflexive DEF MemType
<1>2. d.caps \subseteq Tokens
  BY DEF DiskType
<1>3. CASE m.storeLoaded
  BY <1>3, UnchangedLearned DEF P!EnsureCapabilityStoreRecorded
<1>4. CASE ~m.storeLoaded /\ \E t \in d.caps : P!Parse(p, m, t) = "error"
  <2>1. PICK ts \in SUBSET good : a = P!Result(P!Remember(p, m, ts), d, FALSE)
    BY <1>4 DEF P!EnsureCapabilityStoreRecorded
  <2>2. ts \in SUBSET Tokens
    BY <1>2
  <2> QED BY <1>1, <2>1, <2>2, Remembered, ResultLearned
<1>5. CASE ~m.storeLoaded /\ ~ \E t \in d.caps : P!Parse(p, m, t) = "error"
  <2>1. a = P!Result([P!Remember(p, m, good) EXCEPT !.storeLoaded = TRUE], d, TRUE)
    BY <1>5 DEF P!EnsureCapabilityStoreRecorded
  <2>2. good \in SUBSET Tokens
    BY <1>2
  <2> DEFINE x == P!Remember(p, m, good)
  <2> HIDE DEF good
  <2>3. x \in MemType /\ x.rev = m.rev /\ x.auth = m.auth
    BY <2>2, Remembered
  <2> HIDE DEF x
  <2>4. /\ [x EXCEPT !.storeLoaded = TRUE] \in MemType
        /\ [x EXCEPT !.storeLoaded = TRUE].rev = m.rev
        /\ [x EXCEPT !.storeLoaded = TRUE].auth = m.auth
    BY <2>3 DEF MemType
  <2>5. a = P!Result([x EXCEPT !.storeLoaded = TRUE], d, TRUE)
    BY <2>1 DEF x
  <2> QED BY <1>1, <2>4, <2>5, ResultLearned
<1> QED BY <1>3, <1>4, <1>5

LEMMA RecordsRecorded ==
  ASSUME NEW m \in MemType, NEW d \in DiskType, NEW new \in SUBSET Records,
         NEW v \in P!AppliedAll(m.rev, new)
  PROVE  [m EXCEPT !.rev = v] \in MemType /\ [m EXCEPT !.rev = v].auth = m.auth
         /\ [m EXCEPT !.rev = v].rev = v /\ Stricter(m.rev, v)
<1>1. m.rev \in SUBSET Records
  BY DEF MemType
<1>2. v \in SUBSET Records /\ Stricter(m.rev, v)
  BY <1>1, AllApplied
<1> QED BY <1>2 DEF MemType

LEMMA RevocationsRecorded ==
  ASSUME PeersType, NEW p \in Peers, NEW m \in MemType, NEW d \in DiskType,
         NEW a \in P!EnsureLocalRevocationsRecorded(p, m, d)
  PROVE  Learned(m, d, a)
<1>1. CASE m.revsLoaded
  BY <1>1, UnchangedLearned DEF P!EnsureLocalRevocationsRecorded
<1>2. CASE ~m.revsLoaded
  <2>1. PICK v \in P!AppliedAll(m.rev, options[p]) :
          a = P!Result([m EXCEPT !.rev = v, !.revsLoaded = TRUE], d, TRUE)
    BY <1>2 DEF P!EnsureLocalRevocationsRecorded
  <2>2. m.rev \in SUBSET Records /\ options[p] \in SUBSET Records
    BY DEF MemType, PeersType
  <2>3. v \in SUBSET Records /\ Stricter(m.rev, v)
    BY <2>2, AllApplied
  <2> DEFINE x == [m EXCEPT !.rev = v, !.revsLoaded = TRUE]
  <2>4. x \in MemType /\ x.auth = m.auth /\ x.rev = v
    BY <2>3 DEF MemType
  <2>5. a = P!Result(x, d, TRUE)
    BY <2>1
  <2> HIDE DEF x
  <2> QED BY <2>3, <2>4, <2>5, ResultLearned
<1> QED BY <1>1, <1>2

LEMMA Prepared ==
  ASSUME PeersType, NEW p \in Peers, NEW m \in MemType, NEW d \in DiskType,
         NEW b \in P!Prepare(p, m, d)
  PROVE  Learned(m, d, b)
<1>1. PICK a \in P!EnsureCapabilityStoreRecorded(p, m, d) :
        b \in IF a.ok THEN P!EnsureLocalRevocationsRecorded(p, a.m, a.d) ELSE {a}
  BY DEF P!Prepare
<1>2. Learned(m, d, a)
  BY StoreRecorded
<1>3. a.m \in MemType /\ a.d \in DiskType
  BY <1>2 DEF Learned
<1>4. CASE a.ok
  <2>1. Learned(a.m, a.d, b)
    BY <1>1, <1>3, <1>4, RevocationsRecorded
  <2> QED BY <1>2, <2>1, LearnedTwice
<1>5. CASE ~a.ok
  BY <1>1, <1>2, <1>5
<1> QED BY <1>4, <1>5

LEMMA LocalTokensRecorded ==
  ASSUME NEW p \in Peers, NEW m \in MemType, NEW d \in DiskType,
         NEW a \in P!EnsureLocalTokensRecorded(p, m, d)
  PROVE  Learned(m, d, a)
<1> DEFINE good == {t \in LocalTokens[p] : P!Parse(p, m, t) = "ok"}
           x(ts) == [m EXCEPT !.grants = @ \cup ts]
           y(ts) == [d EXCEPT !.caps = @ \cup ts]
           z == [x(good) EXCEPT !.tokensRecorded = TRUE]
<1>1. Stricter(m.rev, m.rev)
  BY StricterReflexive DEF MemType
<1>2. good \subseteq Tokens
  BY MCAuthAssumption DEF P!Assumptions
<1>3. ASSUME NEW ts \in SUBSET good
      PROVE  /\ x(ts) \in MemType /\ x(ts).rev = m.rev /\ x(ts).auth = m.auth
             /\ y(ts) \in DiskType /\ y(ts).ops = d.ops /\ y(ts).pending = d.pending
  <2> HIDE DEF good
  <2>1. ts \in SUBSET Tokens
    BY <1>2
  <2> QED BY <2>1 DEF MemType, DiskType
<1>4. CASE m.tokensRecorded
  BY <1>4, UnchangedLearned DEF P!EnsureLocalTokensRecorded
<1>5. CASE ~m.tokensRecorded /\ good # LocalTokens[p]
  <2>1. PICK ts \in SUBSET good : a = P!Result(x(ts), y(ts), FALSE)
    BY <1>5 DEF P!EnsureLocalTokensRecorded
  <2> HIDE DEF x, y, good
  <2> QED BY <1>1, <1>3, <2>1, ResultLearned
<1>6. CASE ~m.tokensRecorded /\ good = LocalTokens[p]
  <2>1. a = [P!Result(x(good), y(good), FALSE) EXCEPT !.ok = TRUE, !.m.tokensRecorded = TRUE]
    BY <1>6 DEF P!EnsureLocalTokensRecorded
  <2>2. a = P!Result(z, y(good), TRUE)
    <3> HIDE DEF x, y, good
    <3> QED BY <2>1 DEF P!Result
  <2>3. z \in MemType /\ z.rev = m.rev /\ z.auth = m.auth
    <3> DEFINE w == x(good)
    <3>1. w \in MemType /\ w.rev = m.rev /\ w.auth = m.auth
      BY <1>3
    <3> HIDE DEF x, w, good
    <3>2. [w EXCEPT !.tokensRecorded = TRUE] \in MemType
          /\ [w EXCEPT !.tokensRecorded = TRUE].rev = m.rev
          /\ [w EXCEPT !.tokensRecorded = TRUE].auth = m.auth
      BY <3>1 DEF MemType
    <3> QED BY <3>2 DEF w
  <2>4. /\ y(good) \in DiskType /\ y(good).ops = d.ops /\ y(good).pending = d.pending
    BY <1>3
  <2> HIDE DEF x, y, z, good
  <2> QED BY <1>1, <2>2, <2>3, <2>4, ResultLearned
<1> QED BY <1>4, <1>5, <1>6

LEMMA HelloLearned ==
  ASSUME PeersType, NEW p \in Peers, NEW m \in MemType, NEW d \in DiskType,
         NEW b \in P!HelloCaps(p, m, d)
  PROVE  Learned(m, d, b)
<1>1. PICK a \in P!Prepare(p, m, d) :
        b \in IF a.ok THEN P!EnsureLocalTokensRecorded(p, a.m, a.d) ELSE {a}
  BY DEF P!HelloCaps
<1>2. Learned(m, d, a)
  BY Prepared
<1>3. a.m \in MemType /\ a.d \in DiskType
  BY <1>2 DEF Learned
<1>4. CASE a.ok
  <2>1. Learned(a.m, a.d, b)
    BY <1>1, <1>3, <1>4, LocalTokensRecorded
  <2> QED BY <1>2, <2>1, LearnedTwice
<1>5. CASE ~a.ok
  BY <1>1, <1>2, <1>5
<1> QED BY <1>4, <1>5

\* recordCapabilities takes the tokens and the records that a Hello or an Ack carries.
LEMMA CapabilitiesLearned ==
  ASSUME PeersType, NEW p \in Peers, NEW m \in MemType, NEW d \in DiskType,
         NEW caps \in SUBSET Said, NEW b \in P!RecordCapabilities(p, m, d, caps)
  PROVE  Learned(m, d, b)
<1> DEFINE revs == P!Named(caps, "auth.revocation")
           kinds == {"auth.capability", "auth.capability.replay"}
           seen(x) == {c.value : c \in {k \in caps : k.name \in kinds /\ P!Parse(p, x, k.value) = "ok"}}
           fails(x) == \E c \in caps : /\ c.name \in kinds
                                       /\ P!FailsHandshake(P!Parse(p, x, c.value), c.name # "auth.capability")
           take(x, y, ts, ok) == P!Result(P!Remember(p, x, ts), [y EXCEPT !.caps = @ \cup ts], ok)
           chains == {c \in P!Named(caps, "auth.identity_chain") : P!VerifyReplicaChain(c)}
           tokens(x, y) ==
             IF fails(x) THEN {take(x, y, ts, FALSE) : ts \in SUBSET seen(x)}
             ELSE {take([x EXCEPT !.identities = @ \cup chains], y, seen(x), TRUE)}
           trusted == {r \in revs : P!VerifyRevocationRecord(r, now)}
<1>1. PICK a \in P!Prepare(p, m, d) :
        b \in IF ~a.ok THEN {a}
              ELSE IF \E r \in revs : ~P!VerifyRevocationRecord(r, now)
              THEN {P!Result([a.m EXCEPT !.rev = v], a.d, FALSE) :
                      v \in UNION {P!AppliedAll(a.m.rev, rs) : rs \in SUBSET trusted}}
              ELSE UNION {tokens([a.m EXCEPT !.rev = v], a.d) : v \in P!AppliedAll(a.m.rev, revs)}
  BY DEF P!RecordCapabilities
<1>2. revs \subseteq Records /\ chains \subseteq Identity
  BY DEF P!Named, Said
<1>3. \A x : seen(x) \subseteq Tokens
  BY DEF Said
<1>4. Learned(m, d, a)
  BY Prepared
<1>5. a.m \in MemType /\ a.d \in DiskType
  BY <1>4 DEF Learned
<1>6. ASSUME NEW x \in MemType, NEW y \in DiskType, NEW ts \in SUBSET Tokens, NEW ok,
             x.auth = a.m.auth, Stricter(a.m.rev, x.rev), y = a.d
      PROVE  Learned(a.m, a.d, take(x, y, ts, ok))
  <2>1. /\ P!Remember(p, x, ts) \in MemType
        /\ P!Remember(p, x, ts).rev = x.rev /\ P!Remember(p, x, ts).auth = x.auth
    BY Remembered
  <2>2. /\ [y EXCEPT !.caps = @ \cup ts] \in DiskType
        /\ [y EXCEPT !.caps = @ \cup ts].ops = y.ops
        /\ [y EXCEPT !.caps = @ \cup ts].pending = y.pending
    BY DEF DiskType
  <2> QED BY <1>6, <2>1, <2>2, ResultLearned
<1>7. ASSUME NEW x \in MemType, x.auth = a.m.auth, Stricter(a.m.rev, x.rev), b \in tokens(x, a.d)
      PROVE  Learned(a.m, a.d, b)
  <2>1. CASE fails(x)
    <3>1. PICK ts \in SUBSET seen(x) : b = take(x, a.d, ts, FALSE)
      BY <1>7, <2>1
    <3>2. ts \in SUBSET Tokens
      BY <1>3
    <3> HIDE DEF take
    <3> QED BY <1>5, <1>6, <1>7, <3>1, <3>2
  <2>2. CASE ~fails(x)
    <3> DEFINE z == [x EXCEPT !.identities = @ \cup chains]
               ts == seen(x)
    <3>1. b = take(z, a.d, ts, TRUE)
      BY <1>7, <2>2
    <3> HIDE DEF take, chains, seen
    <3>2. z \in MemType /\ z.auth = a.m.auth /\ z.rev = x.rev
      BY <1>2, <1>7 DEF MemType
    <3>3. ts \in SUBSET Tokens
      BY <1>3
    <3> HIDE DEF z, ts
    <3> QED BY <1>5, <1>6, <1>7, <3>1, <3>2, <3>3
  <2> QED BY <2>1, <2>2
<1>8. CASE ~a.ok
  BY <1>1, <1>4, <1>8
<1>9. CASE a.ok /\ \E r \in revs : ~P!VerifyRevocationRecord(r, now)
  <2>0. PICK v \in UNION {P!AppliedAll(a.m.rev, rs) : rs \in SUBSET trusted} :
          b = P!Result([a.m EXCEPT !.rev = v], a.d, FALSE)
    BY <1>1, <1>9
  <2>1. PICK rs \in SUBSET trusted : v \in P!AppliedAll(a.m.rev, rs)
    OBVIOUS
  <2>2. rs \in SUBSET Records
    BY <1>2
  <2>3. /\ [a.m EXCEPT !.rev = v] \in MemType /\ [a.m EXCEPT !.rev = v].auth = a.m.auth
        /\ Stricter(a.m.rev, [a.m EXCEPT !.rev = v].rev)
    BY <1>5, <2>1, <2>2, RecordsRecorded
  <2>4. Learned(a.m, a.d, b)
    BY <1>5, <2>0, <2>3, ResultLearned
  <2> QED BY <1>4, <2>4, LearnedTwice
<1>10. CASE a.ok /\ ~ \E r \in revs : ~P!VerifyRevocationRecord(r, now)
  <2>1. PICK v \in P!AppliedAll(a.m.rev, revs) : b \in tokens([a.m EXCEPT !.rev = v], a.d)
    BY <1>1, <1>10
  <2> DEFINE x == [a.m EXCEPT !.rev = v]
  <2> HIDE DEF tokens
  <2>2. /\ x \in MemType /\ x.auth = a.m.auth /\ x.rev = v /\ Stricter(a.m.rev, v)
    <3> HIDE DEF revs
    <3> QED BY <1>2, <1>5, <2>1, RecordsRecorded
  <2>3. b \in tokens(x, a.d)
    BY <2>1
  <2> HIDE DEF x
  <2>4. Learned(a.m, a.d, b)
    BY <1>7, <2>2, <2>3
  <2> QED BY <1>4, <2>4, LearnedTwice
<1> QED BY <1>8, <1>9, <1>10

-----------------------------------------------------------------------------
(* The steps of the peers.                                                 *)

PeersInv == PeersType /\ P!HiddenStaysHidden

\* What a step lets into a log, and what it does to the records of revocations.
Admits ==
  \A p \in Peers : \A o \in disk'[p].ops \ disk[p].ops :
    o.author # p => \E t \in Tokens : P!Subject(t) = o.author /\ P!Usable(mem[p], t, o)
Weakens == \E p \in Peers : restarts' = restarts /\ ~Stricter(mem[p].rev, mem'[p].rev)

LEMMA PeersInit == P!Init => PeersInv
<1> SUFFICES ASSUME P!Init PROVE PeersInv
  OBVIOUS
<1>1. P!NewMemory \in MemType
  BY DEF P!NewMemory, MemType
<1>2. P!NoSession \in SessionType
  BY DEF P!NoSession, SessionType
<1>3. \A p \in Peers : [caps |-> {}, auth |-> {}, ops |-> LocalOps[p], pending |-> {}] \in DiskType
  BY MCAuthAssumption DEF P!Assumptions, DiskType
<1>4. PeersType
  BY <1>1, <1>2, <1>3, MCAuthAssumption DEF P!Init, P!Assumptions, PeersType
<1>5. P!HiddenStaysHidden
  BY MCAuthAssumption DEF P!Init, P!Assumptions, P!HiddenStaysHidden
<1> QED BY <1>4, <1>5 DEF PeersInv

\* A step that changes neither the logs nor the pending operations.
LEMMA LogsUnchanged ==
  ASSUME PeersInv, \A p \in Peers : disk'[p].ops = disk[p].ops /\ disk'[p].pending = disk[p].pending
  PROVE  P!HiddenStaysHidden' /\ Admits
<1>1. \A p, o : P!Readable(p, o)' <=> P!Readable(p, o)
  BY DEF P!Readable
<1> QED BY <1>1 DEF PeersInv, P!HiddenStaysHidden, Admits

\* A handler that records what it is told.
LEMMA LearningStep ==
  ASSUME PeersInv, NEW p \in Peers, NEW a, Learned(mem[p], disk[p], a), P!Keep(p, a),
         session' \in [Links -> SessionType], UNCHANGED <<options, now, restarts>>
  PROVE  PeersInv' /\ Admits /\ ~Weakens
<1>1. mem' = [mem EXCEPT ![p] = a.m] /\ disk' = [disk EXCEPT ![p] = a.d]
  BY DEF P!Keep
<1>2. /\ a.m \in MemType /\ a.d \in DiskType /\ a.d.ops = disk[p].ops
      /\ a.d.pending = disk[p].pending /\ Stricter(mem[p].rev, a.m.rev)
  BY DEF Learned
<1>3. PeersType'
  BY <1>1, <1>2 DEF PeersInv, PeersType
<1>4. \A q \in Peers : disk'[q].ops = disk[q].ops /\ disk'[q].pending = disk[q].pending
  BY <1>1, <1>2 DEF PeersInv, PeersType
<1>5. P!HiddenStaysHidden' /\ Admits
  BY <1>4, LogsUnchanged
<1>6. \A q \in Peers : mem[q].rev \in SUBSET Records
  BY DEF PeersInv, PeersType, MemType
<1>7. \A q \in Peers : Stricter(mem[q].rev, mem'[q].rev)
  BY <1>1, <1>2, <1>6, StricterReflexive DEF PeersInv, PeersType
<1> QED BY <1>3, <1>5, <1>7 DEF PeersInv, Weakens

LEMMA AdvertisedType ==
  ASSUME NEW p \in Peers, NEW m \in MemType
  PROVE  P!Advertised(p, m) \in SUBSET Said
<1>1. LocalTokens[p] \subseteq Tokens /\ Chains[p] \subseteq Identity
  BY MCAuthAssumption DEF P!Assumptions, Identity
<1>2. m.replay \subseteq Tokens /\ m.rev \subseteq Records
  BY DEF MemType
<1> QED BY <1>1, <1>2 DEF P!Advertised, Said

LEMMA LinkEnds ==
  ASSUME NEW l \in Links
  PROVE  l[1] \in Peers /\ l[2] \in Peers
BY MCAuthAssumption DEF P!Assumptions

LEMMA HelloSteps ==
  ASSUME PeersInv, NEW l \in Links,
         (\E f \in Filters[l] : P!SendHello(l, f)) \/ P!OnHello(l) \/ P!OnHelloAck(l)
  PROVE  PeersInv' /\ Admits /\ ~Weakens
<1>1. l[1] \in Peers /\ l[2] \in Peers
  BY LinkEnds
<1>2. /\ PeersType /\ session[l] \in SessionType /\ P!NoSession \in SessionType
      /\ \A p \in Peers : mem[p] \in MemType /\ disk[p] \in DiskType
  BY DEF PeersInv, PeersType, P!NoSession, SessionType
<1>3. session[l].caps \in SUBSET Said
  BY <1>2 DEF SessionType
<1>4. ASSUME NEW f \in Filters[l], P!SendHello(l, f)
      PROVE  PeersInv' /\ Admits /\ ~Weakens
  <2>1. PICK a \in P!HelloCaps(l[1], mem[l[1]], disk[l[1]]) :
          /\ P!Keep(l[1], a)
          /\ session' = IF a.ok
                        THEN [session EXCEPT ![l] =
                                [stage |-> "hello", filter |-> f, caps |-> P!Advertised(l[1], a.m),
                                 toldI |-> disk[l[1]].ops, toldR |-> {}]]
                        ELSE session
    BY <1>4 DEF P!SendHello
  <2>2. Learned(mem[l[1]], disk[l[1]], a)
    BY <1>1, <1>2, HelloLearned
  <2>3. P!Advertised(l[1], a.m) \in SUBSET Said /\ disk[l[1]].ops \in SUBSET Ops
    BY <1>1, <1>2, <2>2, AdvertisedType DEF Learned, DiskType
  <2> DEFINE s == [stage |-> "hello", filter |-> f, caps |-> P!Advertised(l[1], a.m),
                   toldI |-> disk[l[1]].ops, toldR |-> {}]
  <2>4. s \in SessionType
    BY <2>3 DEF SessionType
  <2> HIDE DEF s
  <2>5. session' \in [Links -> SessionType]
    <3>1. session' = IF a.ok THEN [session EXCEPT ![l] = s] ELSE session
      BY <2>1 DEF s
    <3> QED BY <1>2, <2>4, <3>1 DEF PeersType
  <2>6. UNCHANGED <<options, now, restarts>>
    BY <1>4 DEF P!SendHello
  <2> QED BY <1>1, <2>1, <2>2, <2>5, <2>6, LearningStep
<1>5. CASE P!OnHello(l)
  <2> DEFINE r == l[2]
             s == session[l]
  <2>1. PICK a \in UNION {IF x.ok THEN P!HelloCaps(r, x.m, x.d) ELSE {x} :
                            x \in P!RecordCapabilities(r, mem[r], disk[r], s.caps)} :
          /\ P!Keep(r, a)
          /\ session' = [session EXCEPT ![l] =
               IF a.ok /\ P!AuthorizeFilter(r, a.m, P!LiveTokens(s.caps), s.filter)
               THEN [s EXCEPT !.stage = "ack", !.caps = P!Advertised(r, a.m), !.toldR = disk[r].ops]
               ELSE P!NoSession]
    BY <1>5 DEF P!OnHello
  <2>2. Learned(mem[r], disk[r], a)
    <3>1. PICK x \in P!RecordCapabilities(r, mem[r], disk[r], s.caps) :
            a \in IF x.ok THEN P!HelloCaps(r, x.m, x.d) ELSE {x}
      BY <2>1
    <3> HIDE DEF r, s
    <3>2. r \in Peers /\ s.caps \in SUBSET Said
      BY <1>1, <1>3 DEF r, s
    <3>3. Learned(mem[r], disk[r], x)
      BY <1>2, <3>1, <3>2, CapabilitiesLearned
    <3>4. CASE x.ok
      <4>1. x.m \in MemType /\ x.d \in DiskType
        BY <3>3 DEF Learned
      <4>2. Learned(x.m, x.d, a)
        BY <1>2, <3>1, <3>2, <3>4, <4>1, HelloLearned
      <4> QED BY <1>2, <3>2, <3>3, <4>2, LearnedTwice
    <3>5. CASE ~x.ok
      BY <3>1, <3>3, <3>5
    <3> QED BY <3>4, <3>5
  <2>3. P!Advertised(r, a.m) \in SUBSET Said /\ disk[r].ops \in SUBSET Ops
    BY <1>1, <1>2, <2>2, AdvertisedType DEF Learned, DiskType
  <2> DEFINE next == IF a.ok /\ P!AuthorizeFilter(r, a.m, P!LiveTokens(s.caps), s.filter)
                     THEN [s EXCEPT !.stage = "ack", !.caps = P!Advertised(r, a.m),
                                    !.toldR = disk[r].ops]
                     ELSE P!NoSession
  <2>4. next \in SessionType
    <3>1. [s EXCEPT !.stage = "ack", !.caps = P!Advertised(r, a.m), !.toldR = disk[r].ops]
            \in SessionType
      <4> HIDE DEF r, s
      <4>1. s \in SessionType
        BY <1>2 DEF s
      <4> QED BY <2>3, <4>1 DEF SessionType
    <3> QED BY <1>2, <3>1
  <2>5. session' = [session EXCEPT ![l] = next]
    BY <2>1
  <2> HIDE DEF next
  <2>6. session' \in [Links -> SessionType]
    BY <1>2, <2>4, <2>5 DEF PeersType
  <2>7. UNCHANGED <<options, now, restarts>>
    BY <1>5 DEF P!OnHello
  <2> QED BY <1>1, <2>1, <2>2, <2>6, <2>7, LearningStep
<1>6. CASE P!OnHelloAck(l)
  <2> DEFINE i == l[1]
             s == session[l]
  <2>1. PICK a \in P!RecordCapabilities(i, mem[i], disk[i], s.caps) :
          /\ P!Keep(i, a)
          /\ session' = [session EXCEPT ![l] =
               IF a.ok THEN [s EXCEPT !.stage = "open", !.caps = {}] ELSE P!NoSession]
    BY <1>6 DEF P!OnHelloAck
  <2>2. Learned(mem[i], disk[i], a)
    BY <1>1, <1>2, <1>3, <2>1, CapabilitiesLearned
  <2>3. [s EXCEPT !.stage = "open", !.caps = {}] \in SessionType
    BY <1>2 DEF SessionType
  <2> DEFINE next == IF a.ok THEN [s EXCEPT !.stage = "open", !.caps = {}] ELSE P!NoSession
  <2>4. next \in SessionType /\ session' = [session EXCEPT ![l] = next]
    BY <1>2, <2>1, <2>3
  <2> HIDE DEF next
  <2>5. session' \in [Links -> SessionType]
    BY <1>2, <2>4 DEF PeersType
  <2>6. UNCHANGED <<options, now, restarts>>
    BY <1>6 DEF P!OnHelloAck
  <2> QED BY <1>1, <2>1, <2>2, <2>5, <2>6, LearningStep
<1> QED BY <1>4, <1>5, <1>6

\* What verifyOps admits is covered by a token that is in its window and not revoked for it.
LEMMA AdmittedIsCovered ==
  ASSUME NEW p \in Peers, NEW m \in MemType, NEW a, P!VerifyOp(p, m, a) # "deny"
  PROVE  \E t \in Tokens : P!Subject(t) = a.op.author /\ P!Usable(m, t, a.op)
<1> DEFINE known == {t \in m.grants : P!Subject(t) = a.op.author}
           named == {t \in known : P!TokenId(t) \in a.proofRef}
           from == IF RequireProofRef THEN named ELSE known
<1>1. P!Selectable(p, m, a.op, from) # {}
  BY DEF P!VerifyOp
<1>2. \A t \in from : t \in Tokens /\ P!Subject(t) = a.op.author
  BY DEF MemType
<1> HIDE DEF from
<1>3. \A t \in P!Selectable(p, m, a.op, from) : t \in from /\ P!Usable(m, t, a.op)
  BY DEF P!Selectable
<1> QED BY <1>1, <1>2, <1>3

\* filterOutgoingOps lets an operation through when the tokens of the receiver read it in
\* the tree of the sender.
LEMMA FilteredIsReadable ==
  ASSUME PeersInv, NEW p \in Peers, NEW q \in Peers, NEW o,
         P!FilterOutgoingOp(p, LocalTokens[q], o)
  PROVE  P!Readable(q, o)
<1> DEFINE live == LocalTokens[q]
           grants == P!PeerGrants(p, mem[p], live)
<1>1. grants \subseteq live
  BY DEF P!PeerGrants
<1>2. CASE live = {}
  BY <1>2 DEF P!Readable
<1>3. CASE P!ReadsAll(grants)
  <2> HIDE DEF grants, live
  <2>1. P!ReadsAll(live)
    BY <1>1, <1>3 DEF P!ReadsAll
  <2> QED BY <2>1 DEF P!Readable, live
<1>4. CASE P!Reveals(P!ReadsNode(P!TreeOf(disk[p].ops), grants, o.node))
  <2> DEFINE tree == P!TreeOf(disk[p].ops)
             answer(t) == P!CapsAllowsNodeAccess(tree, P!Last(t).caps, o.node, {"read_structure"})
  <2>1. \A S : P!TriOr(S) = "allow" <=> "allow" \in S
    BY DEF P!TriOr
  <2>2. P!TriOr({answer(t) : t \in grants}) = "allow"
    BY <1>4 DEF P!Reveals, P!ReadsNode
  <2>3. "allow" \in {answer(t) : t \in grants}
    BY <2>1, <2>2
  <2>4. "allow" \in {answer(t) : t \in live}
    BY <1>1, <2>3
  <2>5. P!TriOr({answer(t) : t \in live}) = "allow"
    BY <2>1, <2>4
  <2>6. P!ReadsNode(tree, live, o.node) = "allow"
    BY <2>5 DEF P!ReadsNode
  <2>7. disk[p].ops \in SUBSET Ops
    BY DEF PeersInv, PeersType, DiskType
  <2> QED BY <2>6, <2>7 DEF P!Readable
<1> QED BY <1>2, <1>3, <1>4 DEF P!FilterOutgoingOp

LEMMA SignatureType ==
  ASSUME PeersInv, NEW p \in Peers, NEW o \in Ops, NEW a \in P!SignatureFor(p, mem[p], o)
  PROVE  a \in Auth /\ a.op = o
<1>1. mem[p] \in MemType /\ disk[p] \in DiskType
  BY DEF PeersInv, PeersType
<1>2. \A ref : P!OpAuth(o, ref).op = o
  BY DEF P!OpAuth
<1>3. CASE o.author = p /\ LocalTokens[p] = {}
  BY <1>2, <1>3 DEF P!SignatureFor, Auth
<1>4. CASE o.author = p /\ LocalTokens[p] # {}
  <2> DEFINE own == {t \in mem[p].grants : P!Subject(t) = p /\ P!IsLocalToken(p, t)}
  <2>1. PICK t \in P!Selectable(p, mem[p], o, own) : a = P!OpAuth(o, {P!TokenId(t)})
    BY <1>4 DEF P!SignatureFor
  <2>2. t \in Tokens
    BY <1>1, <2>1 DEF P!Selectable, MemType
  <2> QED BY <1>2, <2>1, <2>2 DEF Auth
<1>5. CASE o.author # p
  BY <1>1, <1>5 DEF P!SignatureFor, MemType, DiskType
<1> QED BY <1>3, <1>4, <1>5

LEMMA AuthOp ==
  ASSUME NEW a \in Auth
  PROVE  a.op \in Ops
BY DEF Auth, P!OpAuth

LEMMA TransferStep ==
  ASSUME PeersInv, NEW l \in Links, NEW from \in Peers, NEW to \in Peers, NEW o \in Ops,
         P!Transfer(l, from, to, o)
  PROVE  PeersInv' /\ Admits /\ ~Weakens
<1>1. PICK a \in P!SignatureFor(from, mem[from], o) :
        LET verdict == P!VerifyOp(to, mem[to], a)
        IN /\ disk' = [disk EXCEPT ![to] = P!Received(@, a, verdict)]
           /\ mem' = [mem EXCEPT ![to].auth = IF verdict = "deny" THEN @ ELSE @ \cup {a}]
  BY DEF P!Transfer
<1>2. UNCHANGED <<options, session, now, restarts>> /\ P!FilterOutgoingOp(from, LocalTokens[to], o)
  BY DEF P!Transfer
<1>3. a \in Auth /\ a.op = o
  BY SignatureType
<1> DEFINE verdict == P!VerifyOp(to, mem[to], a)
           d == P!Received(disk[to], a, verdict)
           m == [mem[to] EXCEPT !.auth = IF verdict = "deny" THEN @ ELSE @ \cup {a}]
<1>4. disk' = [disk EXCEPT ![to] = d] /\ mem' = [mem EXCEPT ![to] = m]
  BY <1>1
<1>5. mem[to] \in MemType /\ disk[to] \in DiskType
  BY DEF PeersInv, PeersType
<1>6. m \in MemType /\ m.rev = mem[to].rev
  <2> HIDE DEF verdict
  <2> QED BY <1>3, <1>5 DEF MemType
<1>7. /\ d \in DiskType /\ d.ops \subseteq disk[to].ops \cup {o}
      /\ \A b \in d.pending : b \in disk[to].pending \/ b.op = o
      /\ verdict # "allow" => d.ops = disk[to].ops
  <2> HIDE DEF verdict
  <2> QED BY <1>3, <1>5 DEF DiskType, P!Received
<1>8. verdict = "allow" => verdict # "deny"
  OBVIOUS
<1>9. verdict = "allow" =>
        \E t \in Tokens : P!Subject(t) = o.author /\ P!Usable(mem[to], t, o)
  BY <1>3, <1>5, <1>8, AdmittedIsCovered
<1> HIDE DEF verdict, d, m
<1>10. PeersType'
  BY <1>2, <1>4, <1>6, <1>7 DEF PeersInv, PeersType
<1>11. /\ disk'[to] = d /\ mem'[to] = m
       /\ \A p \in Peers : p # to => disk'[p] = disk[p] /\ mem'[p] = mem[p]
  BY <1>4 DEF PeersInv, PeersType
<1>12. P!HiddenStaysHidden'
  <2>1. \A p, x : P!Readable(p, x)' <=> P!Readable(p, x)
    BY DEF P!Readable
  <2>2. P!Readable(to, o)
    BY <1>2, FilteredIsReadable
  <2>3. SUFFICES ASSUME NEW p \in Peers,
                        NEW x \in disk'[p].ops \cup {b.op : b \in disk'[p].pending}
                 PROVE  x.author = p \/ P!Readable(p, x)
    BY <2>1 DEF P!HiddenStaysHidden
  <2>4. CASE p = to
    <3>1. x = o \/ x \in disk[to].ops \cup {b.op : b \in disk[to].pending}
      BY <1>7, <1>11, <2>4
    <3> QED BY <2>2, <2>4, <3>1 DEF PeersInv, P!HiddenStaysHidden
  <2>5. CASE p # to
    BY <1>11, <2>5 DEF PeersInv, P!HiddenStaysHidden
  <2> QED BY <2>4, <2>5
<1>13. Admits
  <2> SUFFICES ASSUME NEW p \in Peers, NEW x \in disk'[p].ops \ disk[p].ops
               PROVE  \E t \in Tokens : P!Subject(t) = x.author /\ P!Usable(mem[p], t, x)
    BY DEF Admits
  <2>1. p = to /\ x = o /\ verdict = "allow"
    BY <1>7, <1>11
  <2> QED BY <1>9, <2>1
<1>14. \A p \in Peers : mem'[p].rev = mem[p].rev /\ mem[p].rev \in SUBSET Records
  BY <1>6, <1>11 DEF PeersInv, PeersType, MemType
<1>15. ~Weakens
  BY <1>14, StricterReflexive DEF Weakens
<1> QED BY <1>10, <1>12, <1>13, <1>15 DEF PeersInv

\* Steps that leave memory alone, and whose new operations in a log are the peer's own or
\* covered by a token.
LEMMA DiskStep ==
  ASSUME PeersInv, NEW p \in Peers, NEW d \in DiskType, disk' = [disk EXCEPT ![p] = d],
         UNCHANGED <<mem, options, session, now, restarts>>,
         \A o \in d.ops \ disk[p].ops :
           o.author = p \/ /\ P!Readable(p, o)
                           /\ \E t \in Tokens : P!Subject(t) = o.author /\ P!Usable(mem[p], t, o),
         d.pending \subseteq disk[p].pending
  PROVE  PeersInv' /\ Admits /\ ~Weakens
<1>1. /\ disk'[p] = d /\ \A q \in Peers : q # p => disk'[q] = disk[q]
      /\ PeersType'
  BY DEF PeersInv, PeersType
<1>2. P!HiddenStaysHidden'
  <2>1. \A q, x : P!Readable(q, x)' <=> P!Readable(q, x)
    BY DEF P!Readable
  <2>2. SUFFICES ASSUME NEW q \in Peers,
                        NEW x \in disk'[q].ops \cup {b.op : b \in disk'[q].pending}
                 PROVE  x.author = q \/ P!Readable(q, x)
    BY <2>1 DEF P!HiddenStaysHidden
  <2>3. CASE q = p
    BY <1>1, <2>3 DEF PeersInv, P!HiddenStaysHidden
  <2>4. CASE q # p
    BY <1>1, <2>4 DEF PeersInv, P!HiddenStaysHidden
  <2> QED BY <2>3, <2>4
<1>3. Admits
  BY <1>1 DEF Admits
<1>4. \A q \in Peers : mem'[q].rev = mem[q].rev /\ mem[q].rev \in SUBSET Records
  BY DEF PeersInv, PeersType, MemType
<1>5. ~Weakens
  BY <1>4, StricterReflexive DEF Weakens
<1> QED BY <1>1, <1>2, <1>3, <1>5 DEF PeersInv

LEMMA PeerSteps ==
  ASSUME PeersInv, NEW p \in Peers,
         \/ \E o \in Ops : P!LocalWrite(p, o)
         \/ \E a \in disk[p].pending : P!RetryPending(p, a)
         \/ \E rs \in {{}} \cup {{r} : r \in Records} : P!Restart(p, rs)
  PROVE  PeersInv' /\ Admits /\ ~Weakens
<1>1. disk[p] \in DiskType /\ mem[p] \in MemType /\ options[p] \in SUBSET Records
  BY DEF PeersInv, PeersType
<1>2. ASSUME NEW o \in Ops, P!LocalWrite(p, o)
      PROVE  PeersInv' /\ Admits /\ ~Weakens
  <2> DEFINE d == [disk[p] EXCEPT !.ops = @ \cup {o}]
  <2>1. d \in DiskType /\ d.ops = disk[p].ops \cup {o} /\ d.pending = disk[p].pending
    BY <1>1 DEF DiskType
  <2>2. /\ disk' = [disk EXCEPT ![p] = d] /\ o.author = p
        /\ UNCHANGED <<mem, options, session, now, restarts>>
    BY <1>2 DEF P!LocalWrite
  <2> HIDE DEF d
  <2> QED BY <2>1, <2>2, DiskStep
<1>3. ASSUME NEW a \in disk[p].pending, P!RetryPending(p, a)
      PROVE  PeersInv' /\ Admits /\ ~Weakens
  <2> DEFINE d == [disk[p] EXCEPT !.ops = @ \cup {a.op}, !.pending = @ \ {a}]
  <2>1. a \in Auth /\ a.op \in Ops
    BY <1>1, AuthOp DEF DiskType
  <2>2. d \in DiskType /\ d.ops = disk[p].ops \cup {a.op} /\ d.pending = disk[p].pending \ {a}
    BY <1>1, <2>1 DEF DiskType
  <2>3. /\ disk' = [disk EXCEPT ![p] = d] /\ P!VerifyOp(p, mem[p], a) = "allow"
        /\ UNCHANGED <<mem, options, session, now, restarts>>
    BY <1>3 DEF P!RetryPending, P!VerifyAgain
  <2>4. \E t \in Tokens : P!Subject(t) = a.op.author /\ P!Usable(mem[p], t, a.op)
    BY <1>1, <2>3, AdmittedIsCovered
  <2>5. a.op.author = p \/ P!Readable(p, a.op)
    BY DEF PeersInv, P!HiddenStaysHidden
  <2> HIDE DEF d
  <2> QED BY <2>2, <2>3, <2>4, <2>5, DiskStep
<1>4. ASSUME NEW rs \in {{}} \cup {{r} : r \in Records}, P!Restart(p, rs)
      PROVE  PeersInv' /\ Admits /\ ~Weakens
  <2>1. /\ restarts' = restarts + 1 /\ mem' = [mem EXCEPT ![p] = P!NewMemory]
        /\ options' = [options EXCEPT ![p] = @ \cup rs] /\ UNCHANGED <<disk, now>>
        /\ session' = [l \in Links |-> IF p \in {l[1], l[2]} THEN P!NoSession ELSE session[l]]
    BY <1>4 DEF P!Restart
  <2>2. P!NewMemory \in MemType /\ P!NoSession \in SessionType
    BY DEF P!NewMemory, MemType, P!NoSession, SessionType
  <2>3. PeersType'
    BY <2>1, <2>2 DEF PeersInv, PeersType
  <2>4. P!HiddenStaysHidden' /\ Admits
    BY <2>1, LogsUnchanged
  <2>5. restarts' # restarts
    BY <2>1 DEF PeersInv, PeersType
  <2> QED BY <2>3, <2>4, <2>5 DEF PeersInv, Weakens
<1> QED BY <1>2, <1>3, <1>4

\* Steps of the clock and of sessions.
LEMMA QuietStep ==
  ASSUME PeersInv, UNCHANGED <<mem, disk, options, restarts>>,
         session' \in [Links -> SessionType], now' \in Nat
  PROVE  PeersInv' /\ Admits /\ ~Weakens
<1>1. PeersType'
  BY DEF PeersInv, PeersType
<1>2. P!HiddenStaysHidden' /\ Admits
  BY LogsUnchanged
<1>3. \A q \in Peers : mem'[q].rev = mem[q].rev /\ mem[q].rev \in SUBSET Records
  BY DEF PeersInv, PeersType, MemType
<1> QED BY <1>1, <1>2, <1>3, StricterReflexive DEF PeersInv, Weakens

LEMMA PeersNext ==
  ASSUME PeersInv, [P!Next]_pvars
  PROVE  PeersInv' /\ Admits /\ ~Weakens
<1>1. P!NoSession \in SessionType
  BY DEF P!NoSession, SessionType
<1>2. ASSUME NEW l \in Links, P!CloseSession(l)
      PROVE  PeersInv' /\ Admits /\ ~Weakens
  <2>1. session' \in [Links -> SessionType] /\ now' \in Nat
    BY <1>1, <1>2 DEF P!CloseSession, PeersInv, PeersType
  <2> QED BY <1>2, <2>1, QuietStep DEF P!CloseSession
<1>3. CASE P!Tick
  <2>1. session' \in [Links -> SessionType] /\ now' \in Nat
    BY <1>3 DEF P!Tick, PeersInv, PeersType
  <2> QED BY <1>3, <2>1, QuietStep DEF P!Tick
<1>4. CASE UNCHANGED pvars
  <2>1. session' \in [Links -> SessionType] /\ now' \in Nat
    BY <1>4 DEF pvars, PeersInv, PeersType
  <2> QED BY <1>4, <2>1, QuietStep DEF pvars
<1>5. ASSUME NEW l \in Links, NEW p \in Peers, NEW q \in Peers, NEW o \in Ops,
             P!Transfer(l, p, q, o)
      PROVE  PeersInv' /\ Admits /\ ~Weakens
  BY <1>5, TransferStep
<1>6. ASSUME NEW p \in Peers,
             \/ \E o \in Ops : P!LocalWrite(p, o)
             \/ \E a \in disk[p].pending : P!RetryPending(p, a)
             \/ \E rs \in {{}} \cup {{r} : r \in Records} : P!Restart(p, rs)
      PROVE  PeersInv' /\ Admits /\ ~Weakens
  BY <1>6, PeerSteps
<1>7. ASSUME NEW l \in Links,
             (\E f \in Filters[l] : P!SendHello(l, f)) \/ P!OnHello(l) \/ P!OnHelloAck(l)
      PROVE  PeersInv' /\ Admits /\ ~Weakens
  BY <1>7, HelloSteps
<1> QED BY <1>2, <1>3, <1>4, <1>5, <1>6, <1>7 DEF P!Next

LEMMA PeersInvariance == Spec => []PeersInv
<1>1. Start => PeersInv
  BY PeersInit DEF Start
<1>2. PeersInv /\ [Move]_allvars => PeersInv'
  <2> SUFFICES ASSUME PeersInv, [Move]_allvars PROVE PeersInv'
    OBVIOUS
  <2>1. [P!Next]_pvars
    BY DEF Move, allvars, pvars
  <2> QED BY <2>1, PeersNext
<1> QED BY <1>1, <1>2, PTL DEF Spec

\* What every step of a behaviour does to the peers.
LEMMA StepOfPeers ==
  ASSUME PeersInv, [Move]_allvars
  PROVE  Admits /\ ~Weakens
<1>1. [P!Next]_pvars
  BY DEF Move, allvars, pvars
<1> QED BY <1>1, PeersNext

-----------------------------------------------------------------------------
(* Theorems about the peers.                                               *)

(* A peer with scoped tokens never holds an operation of another peer on a *)
(* node outside its scope, in its log or pending, although filterOutgoing- *)
(* Ops decides it in trees that lack operations.                           *)
THEOREM HiddenNodesStayHidden == Spec => []HiddenStaysHidden
<1>1. PeersInv => HiddenStaysHidden
  BY DEF PeersInv, HiddenStaysHidden
<1> QED BY <1>1, PeersInvariance, PTL

(* verifyOps and reprocessPendingOps admit an operation of another peer    *)
(* only under a token of its author that is in its window and that no      *)
(* revocation known at that moment takes from it.                          *)
THEOREM RevokedWritesStayOut == Spec => NoRevokedWrites
<1>1. PeersInv /\ [Move]_allvars =>
        [\A p \in Peers : \A o \in disk'[p].ops \ disk[p].ops :
           o.author # p =>
             \E t \in Tokens : P!Subject(t) = o.author /\ P!Usable(mem[p], t, o)]_(P!vars)
  BY StepOfPeers DEF Admits
<1> QED BY <1>1, PeersInvariance, PTL DEF Spec, NoRevokedWrites, P!NoRevokedWrites

(* However the records of a Hello, of an Ack and of the options meet       *)
(* (applyRevocationRecord), while a peer runs its record for a token is    *)
(* only replaced by one that supersedes it.                                *)
THEOREM RevocationsOnlySupersede == Spec => RevocationNeverWeakens
<1>1. PeersInv /\ [Move]_allvars =>
        [\A p \in Peers : \A r \in mem[p].rev :
           \/ restarts' # restarts
           \/ \E e \in mem'[p].rev :
                /\ e.tokenId = r.tokenId
                /\ e.revSeq > r.revSeq \/ (e.revSeq = r.revSeq /\ e.bytes >= r.bytes)]_(P!vars)
  BY StepOfPeers DEF Weakens, Stricter, AtLeast
<1> QED BY <1>1, PeersInvariance, PTL DEF Spec, RevocationNeverWeakens, P!RevocationNeverWeakens

-----------------------------------------------------------------------------
(* The walk through the tree that decides whether a node is in a scope.    *)

Trees == [ScopeNodes -> D!AnyNode \cup {Missing, Null}]
LastHop == D!MaxHops

LEMMA HopsType == LastHop \in Nat /\ LastHop = Cardinality(ScopeNodes) + 1
<1>1. IsFiniteSet(ScopeNodes)
  BY MCAuthAssumption, SameFiniteSets DEF D!Assumptions, D!NodesAssumption
<1>2. Cardinality(ScopeNodes) \in Nat
  BY <1>1, FS_CardinalityType
<1>3. LastHop = Cardinality(ScopeNodes) + 1
  BY SameFiniteSets DEF LastHop, D!MaxHops
<1> QED BY <1>2, <1>3

\* An answer, or a hop to a node of the document.
LEMMA AnswerAtHop ==
  ASSUME NEW tree \in Trees, NEW scope \in D!ScopeType, NEW n \in D!AnyNode, NEW d \in 0 .. LastHop
  PROVE  \/ D!AtHop(tree, scope, n, d) \in D!Tri
         \/ /\ D!AtHop(tree, scope, n, d) = "onward"
            /\ n \in ScopeNodes /\ tree[n] \in D!AnyNode /\ d < LastHop
<1>1. CASE n \in {ROOT, TRASH}
  BY <1>1 DEF D!AtHop, D!Tri
<1>2. CASE n \notin {ROOT, TRASH}
  <2>1. n \in ScopeNodes /\ tree[n] \in D!AnyNode \cup {Missing, Null}
    BY <1>2 DEF D!AnyNode, Trees
  <2>2. D!AtChainEnd(tree, n) \in D!Tri
    BY DEF D!AtChainEnd, D!Tri
  <2>3. CASE tree[n] \in {Missing, Null} \/ d = LastHop
    BY <2>2, <2>3 DEF D!AtHop, D!Tri, LastHop
  <2>4. CASE ~(tree[n] \in {Missing, Null} \/ d = LastHop)
    <3>1. tree[n] \in D!AnyNode /\ d < LastHop
      BY <2>1, <2>4, HopsType
    <3> QED BY <2>1, <2>4, <3>1 DEF D!AtHop, D!Tri, LastHop
  <2> QED BY <2>3, <2>4
<1> QED BY <1>1, <1>2

\* The answer for a node some hops above the start follows from those above it.
IsWalk(f, tree, scope) ==
  \A n \in D!AnyNode, d \in 0 .. LastHop :
    f[<<n, d>>] = LET answer == D!AtHop(tree, scope, n, d)
                  IN IF answer = "onward" THEN f[<<tree[n], d + 1>>] ELSE answer

LEMMA WalkExists ==
  ASSUME NEW tree \in Trees, NEW scope \in D!ScopeType
  PROVE  \E f : /\ IsWalk(f, tree, scope)
                /\ \A n : D!ScopeEvaluator(tree, scope, n) = f[<<n, 0>>]
<1> DEFINE M == LastHop
           S == [D!AnyNode -> D!Tri]
           At(n, d) == D!AtHop(tree, scope, n, d)
           base == [n \in D!AnyNode |-> At(n, M)]
           step == [q \in (1 .. M) \X S |->
                      [n \in D!AnyNode |-> IF At(n, M - q[1]) = "onward" THEN q[2][tree[n]]
                                           ELSE At(n, M - q[1])]]
           f == CHOOSE f : f = [p \in D!AnyNode \X (0 .. D!MaxHops) |->
                  LET answer == D!AtHop(tree, scope, p[1], p[2])
                  IN IF answer = "onward" THEN f[<<tree[p[1]], p[2] + 1>>] ELSE answer]
<1>1. \A n : D!ScopeEvaluator(tree, scope, n) = f[<<n, 0>>]
  BY DEF D!ScopeEvaluator
<1>2. M \in Nat
  BY HopsType
<1>3. \A n \in D!AnyNode, d \in 0 .. M :
        At(n, d) \in D!Tri \/ (At(n, d) = "onward" /\ tree[n] \in D!AnyNode /\ d < M)
  BY AnswerAtHop
<1>4. base \in S
  <2>1. M \in 0 .. M /\ ~(M < M)
    BY <1>2
  <2> HIDE DEF At, M
  <2> QED BY <1>3, <2>1
<1>5. step \in [(1 .. M) \X S -> S]
  <2>1. ASSUME NEW k \in 1 .. M, NEW row \in S
        PROVE  [n \in D!AnyNode |-> IF At(n, M - k) = "onward" THEN row[tree[n]] ELSE At(n, M - k)]
                 \in S
    <3>1. M - k \in 0 .. M
      BY <1>2
    <3>2. ASSUME NEW n \in D!AnyNode
          PROVE  (IF At(n, M - k) = "onward" THEN row[tree[n]] ELSE At(n, M - k)) \in D!Tri
      <4>1. CASE At(n, M - k) \in D!Tri
        <5>1. "onward" \notin D!Tri
          BY DEF D!Tri
        <5> HIDE DEF At, M
        <5> QED BY <4>1, <5>1
      <4>2. CASE At(n, M - k) = "onward" /\ tree[n] \in D!AnyNode
        <5> HIDE DEF At, M
        <5> QED BY <4>2
      <4> HIDE DEF At, M
      <4> QED BY <1>3, <3>1, <4>1, <4>2
    <3> HIDE DEF At, M
    <3> QED BY <3>2
  <2> HIDE DEF At, M, S
  <2> QED BY <2>1
<1>6. PICK g \in [0 .. M -> S] : Takes(g, M, base, step)
  <2> HIDE DEF M, S, base, step
  <2> QED BY <1>2, <1>4, <1>5, StepsExist
<1> DEFINE w == [p \in D!AnyNode \X (0 .. M) |-> g[M - p[2]][p[1]]]
<1>7. \A n \in D!AnyNode, d \in 0 .. M : w[<<n, d>>] = g[M - d][n]
  <2> HIDE DEF M
  <2> QED OBVIOUS
<1>8. ASSUME NEW n \in D!AnyNode, NEW d \in 0 .. M
      PROVE  w[<<n, d>>] = IF At(n, d) = "onward" THEN w[<<tree[n], d + 1>>] ELSE At(n, d)
  <2>1. CASE d = M
    <3>1. g[M - d] = base
      BY <1>2, <1>6, <2>1 DEF Takes
    <3>2. At(n, d) # "onward"
      <4>1. "onward" \notin D!Tri
        BY DEF D!Tri
      <4>2. ~(d < M)
        BY <1>2, <2>1
      <4> HIDE DEF At, M
      <4> QED BY <1>3, <4>1, <4>2
    <3>3. base[n] = At(n, d)
      BY <2>1
    <3> HIDE DEF At, base, w
    <3> QED BY <1>7, <3>1, <3>2, <3>3
  <2>2. CASE d # M
    <3> DEFINE k == M - d
    <3>1. k \in 1 .. M /\ k - 1 \in 0 .. M /\ M - k = d /\ M - (d + 1) = k - 1 /\ d + 1 \in 0 .. M
      BY <1>2, <2>2
    <3>2. g[k] = step[<<k, g[k - 1]>>] /\ g[k - 1] \in S
      <4> HIDE DEF M, S, k, step
      <4> QED BY <1>6, <3>1 DEF Takes
    <3>3. g[k][n] = IF At(n, d) = "onward" THEN g[k - 1][tree[n]] ELSE At(n, d)
      <4> DEFINE row == g[k - 1]
      <4>1. row \in S /\ k \in 1 .. M
        BY <3>1, <3>2
      <4> HIDE DEF row, k
      <4>2. step[<<k, row>>] =
              [m \in D!AnyNode |-> IF At(m, M - k) = "onward" THEN row[tree[m]] ELSE At(m, M - k)]
        <5> HIDE DEF S, M, At
        <5> QED BY <4>1
      <4>3. step[<<k, row>>][n] = IF At(n, M - k) = "onward" THEN row[tree[n]] ELSE At(n, M - k)
        BY <4>2
      <4> HIDE DEF step, At
      <4> QED BY <3>1, <3>2, <4>3 DEF row
    <3>4. At(n, d) = "onward" => w[<<tree[n], d + 1>>] = g[k - 1][tree[n]]
      <4> HIDE DEF At, w, M, k
      <4> QED BY <1>3, <1>7, <3>1 DEF D!Tri
    <3>5. w[<<n, d>>] = g[k][n]
      BY <1>7
    <3> HIDE DEF w, At, k
    <3> QED BY <3>3, <3>4, <3>5
  <2> QED BY <2>1, <2>2
<1>9. w = [p \in D!AnyNode \X (0 .. M) |->
             LET answer == D!AtHop(tree, scope, p[1], p[2])
             IN IF answer = "onward" THEN w[<<tree[p[1]], p[2] + 1>>] ELSE answer]
  <2>1. ASSUME NEW p \in D!AnyNode \X (0 .. M)
        PROVE  w[p] = IF At(p[1], p[2]) = "onward" THEN w[<<tree[p[1]], p[2] + 1>>]
                      ELSE At(p[1], p[2])
    <3>1. p = <<p[1], p[2]>> /\ p[1] \in D!AnyNode /\ p[2] \in 0 .. M
      OBVIOUS
    <3> HIDE DEF w, At, M
    <3> QED BY <1>8, <3>1
  <2>2. w = [p \in D!AnyNode \X (0 .. M) |-> w[p]]
    OBVIOUS
  <2> HIDE DEF w, M
  <2> QED BY <2>1, <2>2
<1>10. f = [p \in D!AnyNode \X (0 .. M) |->
              LET answer == D!AtHop(tree, scope, p[1], p[2])
              IN IF answer = "onward" THEN f[<<tree[p[1]], p[2] + 1>>] ELSE answer]
  <2> HIDE DEF w
  <2> QED BY <1>9 DEF LastHop
<1>11. IsWalk(f, tree, scope)
  <2> HIDE DEF f
  <2> QED BY <1>10 DEF IsWalk
<1> HIDE DEF f
<1> QED BY <1>1, <1>11

\* What one tree decides, a tree with more rows decides in the same way.
Extends(tree, more) == \A n \in ScopeNodes : tree[n] # Missing => more[n] = tree[n]

LEMMA HopIsDecided ==
  ASSUME NEW tree \in Trees, NEW more \in Trees, Extends(tree, more),
         NEW scope \in D!ScopeType, NEW n \in D!AnyNode, NEW d \in 0 .. LastHop,
         D!AtHop(tree, scope, n, d) # "unknown"
  PROVE  /\ D!AtHop(more, scope, n, d) = D!AtHop(tree, scope, n, d)
         /\ D!AtHop(tree, scope, n, d) = "onward" => more[n] = tree[n]
<1>0. Missing # Null /\ Missing \notin D!AnyNode /\ Null \notin D!AnyNode
  BY MCAuthAssumption DEF D!Assumptions, D!NodesAssumption
<1>1. CASE n \in {ROOT, TRASH}
  BY <1>1 DEF D!AtHop
<1>2. CASE n \notin {ROOT, TRASH}
  <2>1. n \in ScopeNodes /\ tree[n] \in D!AnyNode \cup {Missing, Null}
    BY <1>2 DEF D!AnyNode, Trees
  <2>2. tree[n] # Missing => more[n] = tree[n]
    BY <2>1 DEF Extends
  <2> QED BY <1>0, <2>1, <2>2 DEF D!AtHop, D!AtChainEnd
<1> QED BY <1>1, <1>2

LEMMA MoreRowsDecide ==
  ASSUME NEW tree \in Trees, NEW more \in Trees, Extends(tree, more),
         NEW scope \in D!ScopeType, NEW n \in D!AnyNode,
         D!ScopeEvaluator(tree, scope, n) # "unknown"
  PROVE  D!ScopeEvaluator(more, scope, n) = D!ScopeEvaluator(tree, scope, n)
<1>1. PICK f : /\ IsWalk(f, tree, scope)
               /\ \A x : D!ScopeEvaluator(tree, scope, x) = f[<<x, 0>>]
  BY WalkExists
<1>2. PICK g : /\ IsWalk(g, more, scope)
               /\ \A x : D!ScopeEvaluator(more, scope, x) = g[<<x, 0>>]
  BY WalkExists
<1> DEFINE M == LastHop
           Same(d) == \A x \in D!AnyNode : f[<<x, d>>] # "unknown" => g[<<x, d>>] = f[<<x, d>>]
           S == {j \in 0 .. M : Same(M - j)}
<1>3. M \in Nat
  BY HopsType
<1>4. ASSUME NEW d \in 0 .. M, d < M => Same(d + 1) PROVE Same(d)
  <2> SUFFICES ASSUME NEW x \in D!AnyNode, f[<<x, d>>] # "unknown"
               PROVE  g[<<x, d>>] = f[<<x, d>>]
    OBVIOUS
  <2> DEFINE at == D!AtHop(tree, scope, x, d)
             next == D!AtHop(more, scope, x, d)
  <2>1. f[<<x, d>>] = IF at = "onward" THEN f[<<tree[x], d + 1>>] ELSE at
    BY <1>1 DEF IsWalk
  <2>2. g[<<x, d>>] = IF next = "onward" THEN g[<<more[x], d + 1>>] ELSE next
    BY <1>2 DEF IsWalk
  <2>3. at # "unknown"
    BY <2>1
  <2>4. next = at /\ (at = "onward" => more[x] = tree[x])
    BY <2>3, HopIsDecided
  <2>5. at = "onward" => tree[x] \in D!AnyNode /\ d < M
    BY AnswerAtHop DEF D!Tri
  <2> HIDE DEF at, next, M
  <2> QED BY <1>4, <2>1, <2>2, <2>4, <2>5
<1>5. 0 \in S
  <2> HIDE DEF M, Same
  <2>1. M \in 0 .. M /\ M - 0 = M /\ ~(M < M)
    BY <1>3
  <2> QED BY <1>3, <1>4, <2>1
<1>6. ASSUME NEW j \in 1 .. M, j - 1 \in S PROVE j \in S
  <2> HIDE DEF M, Same
  <2>1. M - j \in 0 .. M /\ (M - j) + 1 = M - (j - 1) /\ j \in 0 .. M
    BY <1>3
  <2>2. Same(M - (j - 1))
    BY <1>6
  <2> QED BY <1>4, <2>1, <2>2
<1>7. Same(0)
  <2> HIDE DEF Same, M
  <2>1. M \in S
    <3> HIDE DEF S
    <3>1. \A j \in 0 .. M : j \in S
      BY <1>3, <1>5, <1>6, AfterSteps
    <3> QED BY <1>3, <3>1
  <2>2. M - M = 0
    BY <1>3
  <2> QED BY <2>1, <2>2
<1> QED BY <1>1, <1>2, <1>7

-----------------------------------------------------------------------------
(* A scope allows a node when a path leads from it to the root of the      *)
(* scope.                                                                  *)

Passes(tree, scope, n, next, d) ==
  /\ n \in ScopeNodes /\ n \notin scope.exclude /\ n # scope.root
  /\ ~D!TooDeep(scope, d + 1) /\ tree[n] \in D!AnyNode /\ next = tree[n]

\* The nodes of g from hop d to hop e, where the root is.
Path(tree, scope, g, d, e) ==
  /\ \A k \in d .. e : g[k] \in D!AnyNode
  /\ \A k \in d .. e - 1 : Passes(tree, scope, g[k], g[k + 1], k)
  /\ g[e] = scope.root /\ scope.root \notin scope.exclude /\ ~D!TooDeep(scope, e)

LEMMA PassesOnward ==
  ASSUME NEW tree \in Trees, NEW scope \in D!ScopeType, NEW n \in D!AnyNode, NEW d \in 0 .. LastHop
  PROVE  /\ D!AtHop(tree, scope, n, d) = "onward" <=> Passes(tree, scope, n, tree[n], d) /\ d < LastHop
         /\ D!AtHop(tree, scope, n, d) = "allow" <=>
              n = scope.root /\ n \notin scope.exclude /\ ~D!TooDeep(scope, d)
<1>0. /\ {Missing, Null} \cap D!AnyNode = {} /\ {ROOT, TRASH} \cap ScopeNodes = {}
      /\ LastHop \in Nat
  BY MCAuthAssumption, HopsType DEF D!Assumptions, D!NodesAssumption
<1>1. D!AtChainEnd(tree, n) \in {"deny", "unknown"}
  BY DEF D!AtChainEnd
<1>2. n \notin {ROOT, TRASH} => n \in ScopeNodes /\ tree[n] \in D!AnyNode \cup {Missing, Null}
  BY DEF D!AnyNode, Trees
<1>3. d < LastHop <=> d # D!MaxHops
  BY <1>0 DEF LastHop
<1> QED BY <1>0, <1>1, <1>2, <1>3 DEF D!AtHop, Passes

LEMMA PathIsAllowed ==
  ASSUME NEW tree \in Trees, NEW scope \in D!ScopeType, NEW e \in 0 .. LastHop, NEW g,
         Path(tree, scope, g, 0, e)
  PROVE  D!ScopeEvaluator(tree, scope, g[0]) = "allow"
<1>1. PICK f : /\ IsWalk(f, tree, scope)
               /\ \A x : D!ScopeEvaluator(tree, scope, x) = f[<<x, 0>>]
  BY WalkExists
<1> DEFINE S == {j \in 0 .. e : f[<<g[e - j], e - j>>] = "allow"}
<1>2. LastHop \in Nat /\ e \in Nat /\ e <= LastHop
  BY HopsType
<1>3. \A k \in 0 .. e : g[k] \in D!AnyNode /\ k \in 0 .. LastHop
  BY <1>2 DEF Path
<1>4. \A k \in 0 .. e :
        f[<<g[k], k>>] = LET answer == D!AtHop(tree, scope, g[k], k)
                         IN IF answer = "onward" THEN f[<<tree[g[k]], k + 1>>] ELSE answer
  BY <1>1, <1>3 DEF IsWalk
<1>5. f[<<g[e], e>>] = "allow"
  <2>1. D!AtHop(tree, scope, g[e], e) = "allow"
    BY <1>2, <1>3, PassesOnward DEF Path
  <2>2. e \in 0 .. e
    BY <1>2
  <2>3. f[<<g[e], e>>] = LET answer == D!AtHop(tree, scope, g[e], e)
                         IN IF answer = "onward" THEN f[<<tree[g[e]], e + 1>>] ELSE answer
    BY <1>4, <2>2
  <2> QED BY <2>1, <2>3
<1>6. 0 \in S
  <2>1. e - 0 = e
    BY <1>2
  <2> QED BY <1>2, <1>5, <2>1
<1>7. ASSUME NEW j \in 1 .. e, j - 1 \in S PROVE j \in S
  <2> DEFINE k == e - j
  <2>1. k \in 0 .. e /\ k \in 0 .. e - 1 /\ k + 1 = e - (j - 1) /\ k < LastHop /\ k \in 0 .. LastHop
        /\ j \in 0 .. e
    BY <1>2
  <2>2. f[<<g[k + 1], k + 1>>] = "allow"
    BY <1>7, <2>1
  <2> HIDE DEF k
  <2>3. Passes(tree, scope, g[k], g[k + 1], k)
    BY <2>1 DEF Path
  <2>4. g[k + 1] = tree[g[k]]
    BY <2>3 DEF Passes
  <2>5. D!AtHop(tree, scope, g[k], k) = "onward"
    BY <1>3, <2>1, <2>3, <2>4, PassesOnward
  <2>6. f[<<g[k], k>>] = "allow"
    BY <1>4, <2>1, <2>2, <2>4, <2>5
  <2> QED BY <2>1, <2>6 DEF k
<1>8. e \in S
  <2> HIDE DEF S
  <2>1. \A j \in 0 .. e : j \in S
    BY <1>2, <1>6, <1>7, AfterSteps
  <2> QED BY <1>2, <2>1
<1>9. e - e = 0
  BY <1>2
<1> QED BY <1>1, <1>8, <1>9

LEMMA AllowedHasPath ==
  ASSUME NEW tree \in Trees, NEW scope \in D!ScopeType, NEW n \in D!AnyNode,
         D!ScopeEvaluator(tree, scope, n) = "allow"
  PROVE  \E e \in 0 .. LastHop : \E g : g[0] = n /\ Path(tree, scope, g, 0, e)
<1>1. PICK f : /\ IsWalk(f, tree, scope)
               /\ \A x : D!ScopeEvaluator(tree, scope, x) = f[<<x, 0>>]
  BY WalkExists
<1> DEFINE M == LastHop
           Has(d) == \A x \in D!AnyNode : f[<<x, d>>] = "allow" =>
                       \E e \in d .. M : \E g : g[d] = x /\ Path(tree, scope, g, d, e)
           S == {j \in 0 .. M : Has(M - j)}
<1>2. M \in Nat
  BY HopsType
<1>3. ASSUME NEW d \in 0 .. M, d < M => Has(d + 1) PROVE Has(d)
  <2> SUFFICES ASSUME NEW x \in D!AnyNode, f[<<x, d>>] = "allow"
               PROVE  \E e \in d .. M : \E g : g[d] = x /\ Path(tree, scope, g, d, e)
    OBVIOUS
  <2> DEFINE at == D!AtHop(tree, scope, x, d)
  <2>1. f[<<x, d>>] = IF at = "onward" THEN f[<<tree[x], d + 1>>] ELSE at
    BY <1>1 DEF IsWalk
  <2>2. CASE at # "onward"
    <3>1. x = scope.root /\ x \notin scope.exclude /\ ~D!TooDeep(scope, d)
      BY <2>1, <2>2, PassesOnward
    <3> DEFINE g == [k \in {d} |-> x]
    <3>2. g[d] = x /\ \A k \in d .. d : g[k] = x
      BY <1>2
    <3>3. d .. d - 1 = {} /\ d \in d .. M
      BY <1>2
    <3> HIDE DEF g, M
    <3>4. Path(tree, scope, g, d, d)
      BY <3>1, <3>2, <3>3 DEF Path
    <3> QED BY <3>2, <3>3, <3>4
  <2>3. CASE at = "onward"
    <3>1. Passes(tree, scope, x, tree[x], d) /\ d < M
      BY <2>3, PassesOnward
    <3>2. tree[x] \in D!AnyNode /\ f[<<tree[x], d + 1>>] = "allow"
      BY <2>1, <2>3, <3>1 DEF Passes
    <3>3. \E e \in d + 1 .. M : \E g : g[d + 1] = tree[x] /\ Path(tree, scope, g, d + 1, e)
      BY <1>3, <3>1, <3>2
    <3>4. PICK e \in d + 1 .. M : \E g : g[d + 1] = tree[x] /\ Path(tree, scope, g, d + 1, e)
      BY <3>3
    <3>5. PICK g : g[d + 1] = tree[x] /\ Path(tree, scope, g, d + 1, e)
      BY <3>4
    <3> DEFINE h == [k \in d .. e |-> IF k = d THEN x ELSE g[k]]
    <3> HIDE DEF M
    <3>6. e \in d .. M /\ e # d /\ d \in d .. e /\ e \in d .. e /\ e \in Nat
      BY <1>2
    <3>7. h[d] = x /\ \A k \in d + 1 .. e : h[k] = g[k]
      BY <1>2, <3>6
    <3> HIDE DEF h
    <3>8. \A k \in d .. e : h[k] \in D!AnyNode
      <4>1. \A k \in d .. e : k = d \/ k \in d + 1 .. e
        BY <1>2, <3>6
      <4> QED BY <3>5, <3>7, <4>1 DEF Path
    <3>9. ASSUME NEW k \in d .. e - 1 PROVE Passes(tree, scope, h[k], h[k + 1], k)
      <4>1. CASE k = d
        <5>1. h[k + 1] = tree[x]
          BY <1>2, <3>5, <3>6, <3>7, <4>1
        <5> QED BY <3>1, <3>7, <4>1, <5>1
      <4>2. CASE k # d
        <5>1. k \in d + 1 .. e - 1 /\ k \in d + 1 .. e /\ k + 1 \in d + 1 .. e
          BY <1>2, <3>6, <4>2
        <5> QED BY <3>5, <3>7, <5>1 DEF Path
      <4> QED BY <4>1, <4>2
    <3>10. h[e] = g[e]
      BY <3>6, <3>7
    <3>11. Path(tree, scope, h, d, e)
      BY <3>5, <3>8, <3>9, <3>10 DEF Path
    <3> QED BY <3>6, <3>7, <3>11
  <2> QED BY <2>2, <2>3
<1> HIDE DEF Has
<1>4. 0 \in S
  <2> HIDE DEF M
  <2>1. M \in 0 .. M /\ M - 0 = M /\ ~(M < M)
    BY <1>2
  <2> QED BY <1>2, <1>3, <2>1
<1>5. ASSUME NEW j \in 1 .. M, j - 1 \in S PROVE j \in S
  <2> HIDE DEF M
  <2>1. M - j \in 0 .. M /\ (M - j) + 1 = M - (j - 1) /\ j \in 0 .. M
    BY <1>2
  <2>2. Has(M - (j - 1))
    BY <1>5
  <2> QED BY <1>3, <2>1, <2>2
<1>6. Has(0)
  <2> HIDE DEF M
  <2>1. M \in S
    <3> HIDE DEF S
    <3>1. \A j \in 0 .. M : j \in S
      BY <1>2, <1>4, <1>5, AfterSteps
    <3> QED BY <1>2, <3>1
  <2>2. M - M = 0
    BY <1>2
  <2> QED BY <2>1, <2>2
<1> QED BY <1>1, <1>6 DEF Has

\* The nodes of a path are distinct, so that it has no more hops than there are nodes.
LEMMA PathsAreShort ==
  ASSUME NEW tree \in Trees, NEW scope \in D!ScopeType, NEW e \in Nat, NEW g,
         Path(tree, scope, g, 0, e)
  PROVE  e \in 0 .. LastHop
<1>1. /\ LastHop \in Nat /\ LastHop = Cardinality(ScopeNodes) + 1 /\ IsFiniteSet(ScopeNodes)
      /\ Cardinality(ScopeNodes) \in Nat
  BY HopsType, MCAuthAssumption, SameFiniteSets, FS_CardinalityType DEF D!Assumptions, D!NodesAssumption
<1> SUFFICES ASSUME e > Cardinality(ScopeNodes) PROVE FALSE
  BY <1>1
<1> DEFINE Hops == 0 .. e - 1
           at == [k \in Hops |-> g[k]]
<1>2. \A k \in Hops : Passes(tree, scope, g[k], g[k + 1], k)
  BY DEF Path
<1>3. at \in [Hops -> ScopeNodes]
  BY <1>2 DEF Passes
<1>4. IsFiniteSet(Hops) /\ Cardinality(Hops) = e
  <2>1. 0 \in Int /\ e - 1 \in Int
    OBVIOUS
  <2>2. IsFiniteSet(Hops) /\ Cardinality(Hops) = IF 0 <= e - 1 THEN (e - 1) - 0 + 1 ELSE 0
    BY <2>1, FS_Interval
  <2> QED BY <1>1, <2>2
<1>5. PICK i, j \in Hops : i # j /\ at[i] = at[j]
  <2> HIDE DEF Hops, at
  <2> QED BY <1>1, <1>3, <1>4, FS_PigeonHole
<1>6. ASSUME NEW a \in Hops, NEW b \in Hops, a < b, g[a] = g[b] PROVE FALSE
  <2> DEFINE n == e - b
             S == {t \in 0 .. n : g[a + t] = g[b + t]}
  <2>0. a \in Nat /\ b \in Nat /\ b <= e - 1 /\ a < b
    BY <1>6
  <2>1. n \in Nat /\ a \in Nat /\ b \in Nat /\ b + n = e /\ a + n \in Hops
    BY <2>0
  <2>2. 0 \in S
    <3>1. a + 0 = a /\ b + 0 = b
      OBVIOUS
    <3> QED BY <1>6, <2>1, <3>1
  <2>3. ASSUME NEW t \in 1 .. n, t - 1 \in S PROVE t \in S
    <3>1. a + (t - 1) \in Hops /\ b + (t - 1) \in Hops /\ t \in 0 .. n
          /\ a + (t - 1) + 1 = a + t /\ b + (t - 1) + 1 = b + t
      BY <1>6, <2>1
    <3> DEFINE x == a + (t - 1)
               y == b + (t - 1)
    <3>2. g[x] = g[y]
      BY <2>3
    <3>3. x \in Hops /\ y \in Hops /\ x + 1 = a + t /\ y + 1 = b + t
      BY <3>1
    <3> HIDE DEF x, y, Hops
    <3>4. g[x + 1] = tree[g[x]] /\ g[y + 1] = tree[g[y]]
      BY <1>2, <3>3 DEF Passes
    <3>5. g[a + t] = g[b + t]
      BY <3>2, <3>3, <3>4
    <3> QED BY <3>1, <3>5
  <2>4. g[a + n] = g[b + n]
    <3>1. n \in S
      <4> HIDE DEF S, n
      <4>1. \A t \in 0 .. n : t \in S
        BY <2>1, <2>2, <2>3, AfterSteps
      <4> QED BY <2>1, <4>1
    <3> QED BY <3>1
  <2>5. g[a + n] = scope.root
    <3>1. g[e] = scope.root
      BY DEF Path
    <3> QED BY <2>1, <2>4, <3>1
  <2> HIDE DEF Hops, n
  <2> QED BY <1>2, <2>1, <2>5 DEF Passes
<1>7. i < j \/ j < i
  BY <1>5
<1>8. g[i] = g[j]
  BY <1>5
<1> HIDE DEF Hops
<1> QED BY <1>6, <1>7, <1>8

-----------------------------------------------------------------------------
(* A delegated token allows what its proof allows.                         *)

LEMMA NoDeeper ==
  ASSUME NEW proof \in D!ScopeType, NEW delegated \in D!ScopeType, NEW d \in Nat,
         \A m \in proof.maxDepth :
           delegated.maxDepth # {} /\ \A k \in delegated.maxDepth : k <= m,
         ~D!TooDeep(delegated, d)
  PROVE  ~D!TooDeep(proof, d)
<1> SUFFICES ASSUME NEW m \in proof.maxDepth PROVE ~(d > m)
  BY DEF D!TooDeep
<1>1. PICK k \in delegated.maxDepth : k <= m
  OBVIOUS
<1>2. m \in Nat /\ k \in Nat
  BY DEF D!ScopeType
<1>3. ~(d > k)
  BY DEF D!TooDeep
<1> QED BY <1>1, <1>2, <1>3

\* A path to the root of the delegated scope is, or continues as, a path to the root of the
\* scope of the proof.
LEMMA ScopeWithin ==
  ASSUME NEW tree \in Trees, NEW proof \in D!ScopeType, NEW delegated \in D!ScopeType,
         NEW n \in D!AnyNode, ~D!IsDocWideScope(proof), D!WithinScope(tree, proof, delegated),
         D!ScopeEvaluator(tree, delegated, n) = "allow"
  PROVE  D!ScopeEvaluator(tree, proof, n) = "allow"
<1>1. /\ \/ delegated.root = proof.root
         \/ /\ proof.maxDepth = {}
            /\ D!ScopeEvaluator(tree, proof, delegated.root) = "allow"
      /\ \A m \in proof.maxDepth :
           delegated.maxDepth # {} /\ \A k \in delegated.maxDepth : k <= m
      /\ proof.exclude \subseteq delegated.exclude
  BY DEF D!WithinScope
<1>2. PICK e \in 0 .. LastHop : \E g : g[0] = n /\ Path(tree, delegated, g, 0, e)
  BY AllowedHasPath
<1>3. PICK g : g[0] = n /\ Path(tree, delegated, g, 0, e)
  BY <1>2
<1>4. e \in Nat
  BY HopsType
<1>5. CASE delegated.root = proof.root
  <2>1. \A d \in Nat : ~D!TooDeep(delegated, d) => ~D!TooDeep(proof, d)
    BY <1>1, NoDeeper
  <2>2. ASSUME NEW k \in 0 .. e - 1 PROVE Passes(tree, proof, g[k], g[k + 1], k)
    <3>1. Passes(tree, delegated, g[k], g[k + 1], k)
      BY <1>3 DEF Path
    <3>2. k + 1 \in Nat
      BY <1>4
    <3> QED BY <1>1, <1>5, <2>1, <3>1, <3>2 DEF Passes
  <2>3. Path(tree, proof, g, 0, e)
    BY <1>1, <1>3, <1>4, <1>5, <2>1, <2>2 DEF Path
  <2> QED BY <1>3, <2>3, PathIsAllowed
<1>6. CASE delegated.root # proof.root
  <2>1. proof.maxDepth = {} /\ D!ScopeEvaluator(tree, proof, delegated.root) = "allow"
        /\ delegated.root \in D!AnyNode
    BY <1>1, <1>6 DEF D!ScopeType
  <2>2. PICK r \in 0 .. LastHop : \E h : h[0] = delegated.root /\ Path(tree, proof, h, 0, r)
    BY <2>1, AllowedHasPath
  <2>3. PICK h : h[0] = delegated.root /\ Path(tree, proof, h, 0, r)
    BY <2>2
  <2>4. r \in Nat
    BY HopsType
  <2> DEFINE c == [k \in 0 .. e + r |-> IF k <= e THEN g[k] ELSE h[k - e]]
  <2>5. \A k \in 0 .. e : c[k] = g[k]
    BY <1>4, <2>4
  <2>6. \A k \in 0 .. r : c[e + k] = h[k]
    <3> SUFFICES ASSUME NEW k \in 0 .. r PROVE c[e + k] = h[k]
      OBVIOUS
    <3>1. CASE k = 0
      <4>1. e + k = e /\ e \in 0 .. e
        BY <1>4, <3>1
      <4>2. g[e] = delegated.root
        BY <1>3 DEF Path
      <4> HIDE DEF c
      <4> QED BY <2>3, <2>5, <3>1, <4>1, <4>2
    <3>2. CASE k # 0
      <4>1. e + k \in 0 .. e + r /\ ~(e + k <= e) /\ (e + k) - e = k
        BY <1>4, <2>4, <3>2
      <4> QED BY <4>1
    <3> QED BY <3>1, <3>2
  <2> HIDE DEF c
  <2> DEFINE Z == {k \in 0 .. e + r : c[k] = proof.root}
  <2>7. e + r \in Z
    BY <1>4, <2>3, <2>4, <2>6 DEF Path
  <2>8. PICK z \in Z : \A k \in Z : z <= k
    <3>1. Z \in SUBSET Nat /\ Z # {}
      BY <2>7
    <3> HIDE DEF Z
    <3> QED BY <3>1, LeastNumber
  <2>9. z \in Nat /\ z <= e + r /\ c[z] = proof.root
    BY <2>8
  <2>10. \A k \in 0 .. z - 1 : k \in 0 .. e + r /\ c[k] # proof.root
    BY <1>4, <2>4, <2>8, <2>9
  <2> HIDE DEF Z
  <2>11. \A d : ~D!TooDeep(proof, d)
    BY <2>1 DEF D!TooDeep
  <2>12. ASSUME NEW k \in 0 .. z - 1
         PROVE  Passes(tree, proof, c[k], c[k + 1], k) /\ c[k] \in D!AnyNode
    <3>1. CASE k < e
      <4>1. k \in 0 .. e - 1 /\ k \in 0 .. e /\ k + 1 \in 0 .. e
        BY <1>4, <2>9, <3>1
      <4>2. Passes(tree, delegated, g[k], g[k + 1], k) /\ g[k] \in D!AnyNode
        BY <1>3, <4>1 DEF Path
      <4> QED BY <1>1, <2>5, <2>10, <2>11, <4>1, <4>2 DEF Passes
    <3>2. CASE ~(k < e)
      <4> DEFINE i == k - e
      <4>1. i \in 0 .. r - 1 /\ i \in 0 .. r /\ i + 1 \in 0 .. r /\ e + i = k /\ e + (i + 1) = k + 1
        BY <1>4, <2>4, <2>9, <3>2
      <4> HIDE DEF i
      <4>2. Passes(tree, proof, h[i], h[i + 1], i) /\ h[i] \in D!AnyNode
        BY <2>3, <4>1 DEF Path
      <4>3. c[k] = h[i] /\ c[k + 1] = h[i + 1]
        BY <2>6, <4>1
      <4> QED BY <2>11, <4>2, <4>3 DEF Passes
    <3> QED BY <3>1, <3>2
  <2>13. Path(tree, proof, c, 0, z)
    <3>1. proof.root \in D!AnyNode
      BY DEF D!ScopeType
    <3>2. \A k \in 0 .. z : c[k] \in D!AnyNode
      <4>1. \A k \in 0 .. z : k = z \/ k \in 0 .. z - 1
        BY <2>9
      <4> QED BY <2>9, <2>12, <3>1, <4>1
    <3>3. proof.root \notin proof.exclude
      BY <2>3 DEF Path
    <3> QED BY <2>9, <2>11, <2>12, <3>2, <3>3 DEF Path
  <2>14. z \in 0 .. LastHop
    BY <2>9, <2>13, PathsAreShort
  <2>15. c[0] = n
    BY <1>3, <1>4, <2>5
  <2> QED BY <2>13, <2>14, <2>15, PathIsAllowed
<1> QED BY <1>5, <1>6

\* The root of the document is in no scope but its own.
LEMMA OnlyRootAllowsRoot ==
  ASSUME NEW tree \in Trees, NEW scope \in D!ScopeType,
         D!ScopeEvaluator(tree, scope, ROOT) = "allow"
  PROVE  scope.root = ROOT
<1>1. ROOT \in D!AnyNode /\ ROOT \notin ScopeNodes
  BY MCAuthAssumption DEF D!AnyNode, D!Assumptions, D!NodesAssumption
<1>2. PICK e \in 0 .. LastHop : \E g : g[0] = ROOT /\ Path(tree, scope, g, 0, e)
  BY <1>1, AllowedHasPath
<1>3. PICK g : g[0] = ROOT /\ Path(tree, scope, g, 0, e)
  BY <1>2
<1>4. e = 0
  <2> SUFFICES ASSUME e # 0 PROVE FALSE
    OBVIOUS
  <2>1. 0 \in 0 .. e - 1
    BY HopsType
  <2>2. g[0] \in ScopeNodes
    BY <1>3, <2>1 DEF Path, Passes
  <2> QED BY <1>1, <1>3, <2>2
<1> QED BY <1>3, <1>4 DEF Path

\* assertDelegatedGrantWithinProof for one capability and the one of the proof it is
\* compared with.
LEMMA CapWithin ==
  ASSUME NEW tree \in Trees, NEW pc \in D!CapType, NEW dc \in D!CapType, NEW n \in D!AnyNode,
         NEW required,
         D!ExpandCapabilityActions(dc.actions) \subseteq D!ExpandCapabilityActions(pc.actions),
         D!WithinScope(tree, pc.scope, dc.scope),
         D!CapAllowsNode(tree, dc, n, required) = "allow"
  PROVE  D!CapAllowsNode(tree, pc, n, required) = "allow"
<1>1. required \subseteq D!ExpandCapabilityActions(dc.actions)
  BY DEF D!CapAllowsNode
<1>2. required \subseteq D!ExpandCapabilityActions(pc.actions)
  BY <1>1
<1>3. pc.scope \in D!ScopeType /\ dc.scope \in D!ScopeType
  BY DEF D!CapType
<1>4. CASE n = pc.scope.root \/ D!IsDocWideScope(pc.scope)
  BY <1>2, <1>4 DEF D!CapAllowsNode
<1>5. CASE ~(n = pc.scope.root \/ D!IsDocWideScope(pc.scope))
  <2>1. D!CapAllowsNode(tree, pc, n, required) = D!ScopeEvaluator(tree, pc.scope, n)
    BY <1>2, <1>5 DEF D!CapAllowsNode
  <2>2. /\ \/ dc.scope.root = pc.scope.root
           \/ /\ pc.scope.maxDepth = {}
              /\ D!ScopeEvaluator(tree, pc.scope, dc.scope.root) = "allow"
        /\ \A m \in pc.scope.maxDepth : dc.scope.maxDepth # {}
        /\ pc.scope.exclude \subseteq dc.scope.exclude
    BY <1>5 DEF D!WithinScope
  <2>3. ~D!IsDocWideScope(dc.scope)
    <3> SUFFICES ASSUME D!IsDocWideScope(dc.scope) PROVE FALSE
      OBVIOUS
    <3>1. dc.scope.root = ROOT /\ dc.scope.maxDepth = {} /\ dc.scope.exclude = {}
      BY DEF D!IsDocWideScope
    <3>2. pc.scope.maxDepth = {} /\ pc.scope.exclude = {}
      BY <2>2, <3>1
    <3>3. pc.scope.root = ROOT
      BY <1>3, <2>2, <3>1, OnlyRootAllowsRoot
    <3> QED BY <1>5, <3>2, <3>3 DEF D!IsDocWideScope
  <2>4. CASE n = dc.scope.root
    BY <1>5, <2>1, <2>2, <2>4
  <2>5. CASE n # dc.scope.root
    <3>1. D!ScopeEvaluator(tree, dc.scope, n) = "allow"
      BY <1>1, <2>3, <2>5 DEF D!CapAllowsNode
    <3> QED BY <1>3, <1>5, <2>1, <3>1, ScopeWithin
  <2> QED BY <2>4, <2>5
<1> QED BY <1>4, <1>5

LEMMA SomeCapAllows ==
  ASSUME NEW tree, NEW caps, NEW n, NEW required
  PROVE  D!CapsAllowsNodeAccess(tree, caps, n, required) = "allow" <=>
           \E i \in DOMAIN caps : D!CapAllowsNode(tree, caps[i], n, required) = "allow"
<1>1. \A S : D!TriOr(S) = "allow" <=> "allow" \in S
  BY DEF D!TriOr
<1> QED BY <1>1 DEF D!CapsAllowsNodeAccess

LEMMA GrantWithin ==
  ASSUME NEW tree \in Trees, NEW proof, NEW delegated,
         proof.caps \in Seq(D!CapType), delegated.caps \in Seq(D!CapType),
         D!AssertDelegatedGrantWithinProof(tree, proof, delegated),
         NEW n \in D!AnyNode, NEW required,
         D!CapsAllowsNodeAccess(tree, delegated.caps, n, required) = "allow"
  PROVE  D!CapsAllowsNodeAccess(tree, proof.caps, n, required) = "allow"
<1>1. PICK i \in DOMAIN delegated.caps :
        D!CapAllowsNode(tree, delegated.caps[i], n, required) = "allow"
  BY SomeCapAllows
<1> DEFINE d == delegated.caps[i]
           fit == {j \in DOMAIN proof.caps :
                     /\ "grant" \in proof.caps[j].actions
                     /\ D!ExpandCapabilityActions(d.actions)
                          \subseteq D!ExpandCapabilityActions(proof.caps[j].actions)}
           j == D!Min(fit)
<1>2. fit # {} /\ D!WithinScope(tree, proof.caps[j].scope, d.scope)
  BY DEF D!AssertDelegatedGrantWithinProof
<1>3. DOMAIN proof.caps \subseteq Nat /\ d \in D!CapType
      /\ \A k \in DOMAIN proof.caps : proof.caps[k] \in D!CapType
  <2>1. /\ DOMAIN proof.caps = 1 .. Len(proof.caps) /\ Len(proof.caps) \in Nat
        /\ DOMAIN delegated.caps = 1 .. Len(delegated.caps)
    BY LenProperties
  <2> QED BY <2>1, ElementOfSeq
<1>4. j \in fit
  <2>1. fit \in SUBSET Nat /\ fit # {}
    BY <1>2, <1>3
  <2> HIDE DEF fit, d
  <2>2. \E m \in fit : \A k \in fit : m <= k
    BY <2>1, LeastNumber
  <2> QED BY <2>2 DEF D!Min
<1>5. /\ j \in DOMAIN proof.caps /\ proof.caps[j] \in D!CapType
      /\ D!ExpandCapabilityActions(d.actions) \subseteq D!ExpandCapabilityActions(proof.caps[j].actions)
  BY <1>3, <1>4
<1> HIDE DEF j, fit, d
<1>6. D!CapAllowsNode(tree, d, n, required) = "allow"
  BY <1>1 DEF d
<1>7. D!CapAllowsNode(tree, proof.caps[j], n, required) = "allow"
  BY <1>2, <1>3, <1>5, <1>6, CapWithin
<1> QED BY <1>5, <1>7, SomeCapAllows


-----------------------------------------------------------------------------
(* The chains of delegated tokens and the trees the verifier meets.        *)

IsDelegated(t, i) ==
  \E caps \in Seq(D!CapType), w \in Windows : t = D!Token(i, caps, w)

DelegatedTokens ==
  [id : Nat, signer : Nat, subject : Nat, caps : Seq(D!CapType),
   exp : {w.exp : w \in Windows}, nbf : {w.nbf : w \in Windows}]

\* What makes a token with capabilities of a window.
LEMMA TokenIsDelegated ==
  ASSUME NEW i \in Nat, NEW caps \in Seq(D!CapType), NEW w \in Windows
  PROVE  D!Token(i, caps, w) \in DelegatedTokens /\ IsDelegated(D!Token(i, caps, w), i)
<1>1. D!Token(i, caps, w) \in DelegatedTokens
  BY DEF DelegatedTokens, D!Token
<1>2. IsDelegated(D!Token(i, caps, w), i)
  BY Zenon DEF IsDelegated
<1> QED BY <1>1, <1>2

DInv ==
  /\ dview \in Trees
  /\ dchain \in Seq(DelegatedTokens)
  /\ \A i \in DOMAIN dchain : IsDelegated(dchain[i], i)

LEMMA DInit == D!Init => DInv
<1> SUFFICES ASSUME D!Init PROVE DInv
  OBVIOUS
<1>1. dview \in Trees
  BY DEF D!Init, Trees
<1>2. dchain \in Seq(DelegatedTokens) /\ DOMAIN dchain = {}
  BY DEF D!Init
<1> QED BY <1>1, <1>2 DEF DInv

\* The places of a chain.
LEMMA ChainDomain ==
  ASSUME DInv
  PROVE  Len(dchain) \in Nat /\ DOMAIN dchain = 1 .. Len(dchain)
BY LenProperties DEF DInv

LEMMA DNext ==
  ASSUME DInv, [D!Next]_dvars
  PROVE  DInv'
<1> DEFINE n == Len(dchain)
<1>0. n \in Nat /\ DOMAIN dchain = 1 .. n
  BY ChainDomain
<1>1. ASSUME NEW m \in ScopeNodes, NEW p \in D!AnyNode \cup {Null},
             D!LearnRow(m, p) \/ D!MoveRow(m, p)
      PROVE  DInv'
  <2>1. dview' = [dview EXCEPT ![m] = p] /\ dchain' = dchain
    BY <1>1 DEF D!LearnRow, D!MoveRow
  <2>2. dview' \in Trees
    BY <2>1 DEF DInv, Trees
  <2> QED BY <2>1, <2>2 DEF DInv
<1>2. CASE D!Tick \/ UNCHANGED dvars
  <2>1. dview' = dview /\ dchain' = dchain
    BY <1>2 DEF D!Tick, dvars
  <2> QED BY <2>1 DEF DInv
<1>3. ASSUME NEW cs \in RootCaps, NEW w \in Windows, D!IssueToken(cs, w)
      PROVE  DInv'
  <2> DEFINE t == D!Token(1, cs, w)
  <2>1. dchain' = <<t>> /\ dview' = dview
    BY <1>3 DEF D!IssueToken
  <2>2. cs \in Seq(D!CapType)
    BY MCAuthAssumption DEF D!Assumptions
  <2>3. t \in DelegatedTokens /\ IsDelegated(t, 1)
    BY <2>2, TokenIsDelegated
  <2> HIDE DEF t
  <2>4. dchain' \in Seq(DelegatedTokens) /\ DOMAIN dchain' = 1 .. 1 /\ dchain'[1] = t
    BY <2>1, <2>3
  <2>5. \A i \in DOMAIN dchain' : IsDelegated(dchain'[i], i)
    BY <2>3, <2>4
  <2> QED BY <2>1, <2>4, <2>5 DEF DInv
<1>4. ASSUME NEW c \in Caps, NEW w \in Windows, D!DelegateToken(c, w)
      PROVE  DInv'
  <2> DEFINE t == D!Token(n + 1, <<c>>, w)
  <2>1. dchain' = Append(dchain, t) /\ dview' = dview
    BY <1>4 DEF D!DelegateToken
  <2>2. <<c>> \in Seq(D!CapType)
    BY MCAuthAssumption DEF D!Assumptions
  <2>3. t \in DelegatedTokens /\ IsDelegated(t, n + 1)
    <3>1. n + 1 \in Nat
      BY <1>0
    <3> HIDE DEF n
    <3> QED BY <2>2, <3>1, TokenIsDelegated
  <2> HIDE DEF t
  <2>4. /\ dchain' \in Seq(DelegatedTokens)
        /\ Len(dchain') = n + 1
        /\ \A i \in 1 .. n : dchain'[i] = dchain[i]
        /\ dchain'[n + 1] = t
    BY <2>1, <2>3, AppendProperties DEF DInv
  <2>5. DOMAIN dchain' = 1 .. n + 1
    BY <2>4, LenProperties
  <2> HIDE DEF n
  <2>6. ASSUME NEW i \in 1 .. n + 1 PROVE IsDelegated(dchain'[i], i)
    <3>1. CASE i = n + 1
      BY <2>3, <2>4, <3>1
    <3>2. CASE i # n + 1
      BY <1>0, <2>4, <3>2 DEF DInv
    <3> QED BY <3>1, <3>2
  <2> QED BY <2>1, <2>4, <2>5, <2>6 DEF DInv
<1> QED BY <1>1, <1>2, <1>3, <1>4 DEF D!Next

LEMMA DInvariance == Spec => []DInv
<1>1. Start => DInv
  BY DInit DEF Start
<1>2. DInv /\ [Move]_allvars => DInv'
  <2> SUFFICES ASSUME DInv, [Move]_allvars PROVE DInv'
    OBVIOUS
  <2>1. [D!Next]_dvars
    BY DEF Move, allvars, dvars
  <2> QED BY <2>1, DNext
<1> QED BY <1>1, <1>2, PTL DEF Spec

\* The verdict on one token, from the verdict on its proof.
VerdictStep(at, i, before) ==
  LET t == dchain[i]
  IN IF at - i > MaxChain THEN "error"
     ELSE IF t.id \in {} THEN "revoked"
     ELSE IF \E key \in {1} : D!SignedBy(t, key)
       THEN (IF D!InWindow(t, dnow) THEN "ok" ELSE "error")
     ELSE IF before # "ok" THEN before
     ELSE IF /\ D!SignedBy(t, dchain[i - 1].subject)
             /\ D!InWindow(t, dnow)
             /\ D!AssertDelegatedGrantWithinProof(dview, dchain[i - 1], t)
       THEN "ok" ELSE "error"

\* The verdicts on the tokens of a chain follow from each other.
LEMMA VerdictsExist ==
  ASSUME NEW at \in Nat
  PROVE  \E f : /\ D!Verdict(at) = f[at]
                /\ f[0] = "unknown_issuer"
                /\ \A i \in 1 .. at : f[i] = VerdictStep(at, i, f[i - 1])
<1> DEFINE S == {"ok", "error", "revoked", "unknown_issuer"}
           f == D!Verdicts(dchain, at, dview, dnow, {}, {1})
           step == [q \in (1 .. at) \X S |-> VerdictStep(at, q[1], q[2])]
<1>1. D!Verdict(at) = f[at]
  BY DEF D!Verdict, D!ParseAndVerify
<1>2. \A i \in 1 .. at, before \in S : VerdictStep(at, i, before) \in S
  BY DEF VerdictStep
<1>3. step \in [(1 .. at) \X S -> S]
  <2>1. ASSUME NEW q \in (1 .. at) \X S PROVE VerdictStep(at, q[1], q[2]) \in S
    <3>1. q[1] \in 1 .. at /\ q[2] \in S
      OBVIOUS
    <3> QED BY <1>2, <3>1
  <2> HIDE DEF S
  <2> QED BY <2>1
<1>4. PICK g \in [0 .. at -> S] : Takes(g, at, "unknown_issuer", step)
  <2>1. "unknown_issuer" \in S
    OBVIOUS
  <2> HIDE DEF S, step
  <2> QED BY <1>3, <2>1, StepsExist
<1>5. g[0] = "unknown_issuer" /\ \A i \in 1 .. at : g[i] = VerdictStep(at, i, g[i - 1])
  <2>1. ASSUME NEW i \in 1 .. at PROVE step[<<i, g[i - 1]>>] = VerdictStep(at, i, g[i - 1])
    <3> DEFINE before == g[i - 1]
    <3>1. before \in S
      BY <1>4
    <3> HIDE DEF S, before
    <3>2. step[<<i, before>>] = VerdictStep(at, i, before)
      BY <3>1
    <3> QED BY <3>2 DEF before
  <2> HIDE DEF step
  <2> QED BY <1>4, <2>1 DEF Takes
<1>6. g = [i \in 0 .. at |-> IF i = 0 THEN "unknown_issuer" ELSE VerdictStep(at, i, g[i - 1])]
  <2>1. g = [i \in 0 .. at |-> g[i]]
    BY <1>4
  <2>2. \A i \in 0 .. at :
          g[i] = IF i = 0 THEN "unknown_issuer" ELSE VerdictStep(at, i, g[i - 1])
    <3>1. \A i \in 0 .. at : i # 0 => i \in 1 .. at
      OBVIOUS
    <3> QED BY <1>5, <3>1
  <2> QED BY <2>1, <2>2
<1>7. f = [i \in 0 .. at |-> IF i = 0 THEN "unknown_issuer" ELSE VerdictStep(at, i, f[i - 1])]
  <2>1. \E h : h = [i \in 0 .. at |->
                      IF i = 0 THEN "unknown_issuer" ELSE VerdictStep(at, i, h[i - 1])]
    BY <1>6
  <2>2. f = CHOOSE h : h = [i \in 0 .. at |->
                      IF i = 0 THEN "unknown_issuer" ELSE VerdictStep(at, i, h[i - 1])]
    BY DEF D!Verdicts, VerdictStep
  <2> HIDE DEF f
  <2> QED BY <2>1, <2>2
<1> HIDE DEF f
<1>8. f[0] = "unknown_issuer" /\ \A i \in 1 .. at : f[i] = VerdictStep(at, i, f[i - 1])
  <2>1. 0 \in 0 .. at /\ \A i \in 1 .. at : i \in 0 .. at /\ i # 0
    OBVIOUS
  <2> QED BY <1>7, <2>1
<1> QED BY <1>1, <1>8

\* A token that is accepted is in its window, and unless it is the issuer's so is its proof,
\* whose rights contain its own.
LEMMA AcceptedWithin ==
  ASSUME DInv, NEW at \in Nat, NEW i \in DOMAIN dchain, NEW before,
         VerdictStep(at, i, before) = "ok"
  PROVE  /\ D!InWindow(dchain[i], dnow)
         /\ i # 1 => /\ before = "ok"
                     /\ D!AssertDelegatedGrantWithinProof(dview, dchain[i - 1], dchain[i])
<1>1. PICK caps \in Seq(D!CapType) : \E w \in Windows : dchain[i] = D!Token(i, caps, w)
  BY DEF DInv, IsDelegated
<1>2. dchain[i].signer = i
  BY <1>1 DEF D!Token
<1> QED BY <1>2 DEF VerdictStep, D!SignedBy

LEMMA RightsWithin ==
  ASSUME DInv, NEW i \in DOMAIN dchain, i # 1,
         D!AssertDelegatedGrantWithinProof(dview, dchain[i - 1], dchain[i])
  PROVE  D!Rights(dchain[i]) \subseteq D!Rights(dchain[i - 1])
<1>1. i \in DOMAIN dchain /\ i - 1 \in DOMAIN dchain
  BY ChainDomain
<1>2. \A k \in DOMAIN dchain : dchain[k].caps \in Seq(D!CapType)
  BY DEF DInv, IsDelegated, D!Token
<1>3. dview \in Trees
  BY DEF DInv
<1>4. ASSUME NEW n \in D!AnyNode, NEW required,
             D!CapsAllowsNodeAccess(dview, dchain[i].caps, n, required) = "allow"
      PROVE  D!CapsAllowsNodeAccess(dview, dchain[i - 1].caps, n, required) = "allow"
  BY <1>1, <1>2, <1>3, <1>4, GrantWithin
<1>5. ASSUME NEW r \in D!Rights(dchain[i]) PROVE r \in D!Rights(dchain[i - 1])
  <2>1. r \in D!AnyNode \X D!Actions /\ r[1] \in D!AnyNode
    BY DEF D!Rights
  <2>2. D!CapsAllowsNodeAccess(dview, dchain[i].caps, r[1], {r[2]}) = "allow"
    BY DEF D!Rights
  <2>3. D!CapsAllowsNodeAccess(dview, dchain[i - 1].caps, r[1], {r[2]}) = "allow"
    BY <1>4, <2>1, <2>2
  <2> QED BY <2>1, <2>3 DEF D!Rights
<1> QED BY <1>5

\* From an accepted token down the chain to each token it rests on.
LEMMA ChainWithin ==
  ASSUME DInv, NEW i \in DOMAIN dchain, D!Verdict(i) = "ok", NEW j \in 1 .. i - 1
  PROVE  D!Rights(dchain[i]) \subseteq D!Rights(dchain[j]) /\ D!InWindow(dchain[j], dnow)
<1> DEFINE n == Len(dchain)
<1>0. n \in Nat /\ DOMAIN dchain = 1 .. n
  BY ChainDomain
<1> HIDE DEF n
<1>1. i \in Nat /\ i \in 1 .. n
  BY <1>0
<1>2. PICK f : /\ D!Verdict(i) = f[i]
               /\ f[0] = "unknown_issuer"
               /\ \A k \in 1 .. i : f[k] = VerdictStep(i, k, f[k - 1])
  BY <1>1, VerdictsExist
<1> DEFINE Fine(k) == f[k] = "ok" /\ D!Rights(dchain[i]) \subseteq D!Rights(dchain[k])
           S == {m \in 0 .. i - 1 : Fine(i - m)}
<1>3. 0 \in S
  <2>1. i - 0 = i /\ 0 \in 0 .. i - 1 /\ Fine(i)
    BY <1>1, <1>2
  <2> HIDE DEF Fine
  <2> QED BY <2>1
<1>4. ASSUME NEW k \in 1 .. i, Fine(k)
      PROVE  D!InWindow(dchain[k], dnow) /\ (k # 1 => Fine(k - 1))
  <2> DEFINE before == f[k - 1]
  <2>1. k \in DOMAIN dchain /\ VerdictStep(i, k, before) = "ok"
    BY <1>0, <1>1, <1>2, <1>4
  <2> HIDE DEF before
  <2>2. /\ D!InWindow(dchain[k], dnow)
        /\ k # 1 => /\ before = "ok"
                    /\ D!AssertDelegatedGrantWithinProof(dview, dchain[k - 1], dchain[k])
    BY <1>1, <2>1, AcceptedWithin
  <2>3. k # 1 => D!Rights(dchain[k]) \subseteq D!Rights(dchain[k - 1])
    BY <2>1, <2>2, RightsWithin
  <2> QED BY <1>4, <2>2, <2>3 DEF before
<1>5. ASSUME NEW m \in 1 .. i - 1, m - 1 \in S PROVE m \in S
  <2>1. /\ i - (m - 1) \in 1 .. i /\ i - (m - 1) # 1 /\ (i - (m - 1)) - 1 = i - m
        /\ m \in 0 .. i - 1
    BY <1>1
  <2> HIDE DEF Fine
  <2>2. Fine(i - (m - 1))
    BY <1>5
  <2>3. Fine((i - (m - 1)) - 1)
    BY <1>4, <2>1, <2>2
  <2> QED BY <2>1, <2>3
<1>6. \A m \in 0 .. i - 1 : m \in S
  <2>1. i - 1 \in Nat
    BY <1>1
  <2> HIDE DEF S
  <2> QED BY <1>3, <1>5, <2>1, AfterSteps
<1>7. i - j \in 0 .. i - 1 /\ i - (i - j) = j /\ j \in 1 .. i
  BY <1>1
<1>8. Fine(j)
  <2> HIDE DEF Fine
  <2>1. i - j \in S
    <3> HIDE DEF S
    <3> QED BY <1>6, <1>7
  <2> QED BY <1>7, <2>1
<1>9. D!InWindow(dchain[j], dnow)
  <2> HIDE DEF Fine
  <2> QED BY <1>4, <1>7, <1>8
<1> QED BY <1>8, <1>9

-----------------------------------------------------------------------------
(* Theorems about delegation.                                              *)

(* assertDelegatedGrantWithinProof compares root, depth, exclude list,     *)
(* actions and window of a token and its proof, and does not look at the   *)
(* nodes.  That is enough: in every tree, however incomplete, and for      *)
(* chains of every length, an accepted token allows nothing that a token   *)
(* it rests on does not allow.                                             *)
THEOREM DelegatedRightsAttenuate == Spec => []DelegationAttenuates
<1>1. DInv => DelegationAttenuates
  <2> SUFFICES ASSUME DInv PROVE D!DelegationAttenuates
    BY DEF DelegationAttenuates
  <2> QED BY ChainWithin DEF D!DelegationAttenuates
<1> QED BY <1>1, DInvariance, PTL

(* A verdict of the scope evaluator that is not "unknown" survives every   *)
(* step that only adds rows to the tree.                                   *)
THEOREM LearntRowsOnlyDecide == Spec => LearningOnlyDecides
<1>1. DInv /\ DInv' =>
        \A c \in Caps, n \in D!AnyNode :
          (\A m \in ScopeNodes : dview[m] # Missing => dview'[m] = dview[m])
            => LET before == D!ScopeEvaluator(dview, c.scope, n)
               IN before # "unknown" => D!ScopeEvaluator(dview', c.scope, n) = before
  <2> SUFFICES ASSUME DInv, DInv', NEW c \in Caps, NEW n \in D!AnyNode,
                      \A m \in ScopeNodes : dview[m] # Missing => dview'[m] = dview[m],
                      D!ScopeEvaluator(dview, c.scope, n) # "unknown"
               PROVE  D!ScopeEvaluator(dview', c.scope, n) = D!ScopeEvaluator(dview, c.scope, n)
    OBVIOUS
  <2>1. dview \in Trees /\ dview' \in Trees
    BY DEF DInv, Trees, D!AnyNode
  <2>2. c.scope \in D!ScopeType
    BY MCAuthAssumption DEF D!Assumptions, D!CapType
  <2>3. Extends(dview, dview')
    BY DEF Extends
  <2> QED BY <2>1, <2>2, <2>3, MoreRowsDecide
<1>2. DInv /\ DInv' =>
        [\A c \in Caps, n \in D!AnyNode :
          (\A m \in ScopeNodes : dview[m] # Missing => dview'[m] = dview[m])
            => LET before == D!ScopeEvaluator(dview, c.scope, n)
               IN before # "unknown" => D!ScopeEvaluator(dview', c.scope, n) = before]_(D!vars)
  BY <1>1
<1> QED BY <1>2, DInvariance, PTL DEF LearningOnlyDecides, D!LearningOnlyDecides

=============================================================================
