------------------------- MODULE SyncSessionProofs -------------------------
(***************************************************************************)
(* Proofs about SyncSession, for every set of operations, any stores, any  *)
(* bounds on batches, codewords and calls, and whatever a peer refuses.    *)
(*                                                                         *)
(* A call of syncOnce that may still return is in one of seven phases:     *)
(* Greeting until the responder answered its Hello, then Direct, ToUpload  *)
(* or Reconciling by that answer, Decoded while the status is on its way,  *)
(* and Uploading or Finishing.  A phase says what is in the channels and   *)
(* queues of the call and in which order: the status before the batches,   *)
(* the done last, an error before the acknowledgement.  SessionInv joins   *)
(* the phases; what is known of a call is what its number selects, so that *)
(* late messages of an earlier call change nothing.  The proof goes step   *)
(* by step: lemmas named ...Step say what an action does, field by field,  *)
(* lemmas named ...Keeps that it keeps the invariant.                      *)
(***************************************************************************)
EXTENDS SyncSession, SequenceTheorems, FiniteSetTheorems, TLAPS

\* The responder lists only what it may send: the listing of a scoped filter is
\* narrowed, and one of everything needs a peer that may see everything.
NothingHidden == ~FilterIsAll \/ Op \subseteq Sendable["r"]

-----------------------------------------------------------------------------
(* What a channel s holds of the call id, and how a message that is sent or *)
(* taken changes it.                                                       *)

Is(m, type, id) == m.type = type /\ m.id = id
Got(s, type, id) == {s[k] : k \in {j \in 1 .. Len(s) : Is(s[j], type, id)}}
One(s, type, id) ==
    \A j, k \in 1 .. Len(s) : Is(s[j], type, id) /\ Is(s[k], type, id) => j = k

\* The acknowledgement of an upload.
Bare(m) == m.done /\ m.ops = {}

\* The status comes before the batches, the done after the other batches, and an
\* error before the acknowledgement.
StatusFirst(s, id) ==
    \A j, k \in 1 .. Len(s) : Is(s[j], "ribltStatus", id) /\ Is(s[k], "opsBatch", id) => j < k
DoneLast(s, id) ==
    \A j, k \in 1 .. Len(s) :
        Is(s[j], "opsBatch", id) /\ s[j].done /\ Is(s[k], "opsBatch", id) => k <= j
ErrorFirst(s, id) ==
    \E k \in 1 .. Len(s) :
        /\ Is(s[k], "error", id)
        /\ \A j \in 1 .. k - 1 : ~(Is(s[j], "opsBatch", id) /\ Bare(s[j]))

\* What a channel holds of a call after a message is sent on it.
LEMMA AppendGot ==
  ASSUME NEW M, NEW s \in Seq(M), NEW m \in M, NEW type, NEW id
  PROVE  Got(Append(s, m), type, id) =
           IF Is(m, type, id) THEN Got(s, type, id) \cup {m} ELSE Got(s, type, id)
<1> DEFINE n == Len(s)
           t == Append(s, m)
<1>1. /\ n \in Nat /\ Len(t) = n + 1
      /\ \A k \in 1 .. n : t[k] = s[k]
      /\ t[n + 1] = m
  BY AppendProperties, LenProperties
<1>2. 1 .. Len(t) = 1 .. n \cup {n + 1} /\ n + 1 \notin 1 .. n
  BY <1>1
<1> HIDE DEF n, t
<1>3. \A x : x \in Got(t, type, id) <=> \E k \in 1 .. Len(t) : x = t[k] /\ Is(t[k], type, id)
  BY DEF Got
<1>4. \A x : x \in Got(s, type, id) <=> \E k \in 1 .. n : x = s[k] /\ Is(s[k], type, id)
  BY DEF Got, n
<1>5. \A x : x \in Got(t, type, id) <=> x \in Got(s, type, id) \/ (x = m /\ Is(m, type, id))
  BY <1>1, <1>2, <1>3, <1>4
<1>6. Is(m, type, id) => Got(t, type, id) = Got(s, type, id) \cup {m}
  BY <1>5
<1>7. ~Is(m, type, id) => Got(t, type, id) = Got(s, type, id)
  BY <1>5
<1> QED BY <1>6, <1>7 DEF t

\* The order of a channel's messages of a call after a message is sent on it.
LEMMA AppendChannel ==
  ASSUME NEW M, NEW s \in Seq(M), NEW m \in M, NEW id, NEW t, t = Append(s, m)
  PROVE  /\ \A type : One(s, type, id) /\ (Is(m, type, id) => Got(s, type, id) = {})
                        => One(t, type, id)
         /\ StatusFirst(s, id) /\ (Is(m, "ribltStatus", id) => Got(s, "opsBatch", id) = {})
              => StatusFirst(t, id)
         /\ DoneLast(s, id) /\ (Is(m, "opsBatch", id) => \A b \in Got(s, "opsBatch", id) : ~b.done)
              => DoneLast(t, id)
         /\ ErrorFirst(s, id) => ErrorFirst(t, id)
         /\ Is(m, "error", id) /\ (\A b \in Got(s, "opsBatch", id) : ~Bare(b))
              => ErrorFirst(t, id)
<1> DEFINE n == Len(s)
<1>1. /\ n \in Nat /\ Len(t) = n + 1
      /\ \A k \in 1 .. n : t[k] = s[k]
      /\ t[n + 1] = m
  BY AppendProperties, LenProperties
<1>2. 1 .. Len(t) = 1 .. n \cup {n + 1} /\ n + 1 \notin 1 .. n
  BY <1>1
<1> HIDE DEF n
<1>3. ASSUME NEW type
      PROVE  One(s, type, id) /\ (Is(m, type, id) => Got(s, type, id) = {}) => One(t, type, id)
  <2>1. Got(s, type, id) = {} => \A k \in 1 .. n : ~Is(s[k], type, id)
    BY DEF Got, n
  <2> QED BY <1>1, <1>2, <2>1 DEF One, n
<1>4. StatusFirst(s, id) /\ (Is(m, "ribltStatus", id) => Got(s, "opsBatch", id) = {})
        => StatusFirst(t, id)
  <2>1. \A k \in 1 .. n : Is(s[k], "opsBatch", id) => Got(s, "opsBatch", id) # {}
    BY DEF Got, n
  <2>2. ~(Is(m, "ribltStatus", id) /\ Is(m, "opsBatch", id))
    BY DEF Is
  <2>3. \A k \in 1 .. n : k < n + 1
    BY <1>1
  <2> QED BY <1>1, <1>2, <2>1, <2>2, <2>3 DEF StatusFirst, n
<1>5. DoneLast(s, id) /\ (Is(m, "opsBatch", id) => \A b \in Got(s, "opsBatch", id) : ~b.done)
        => DoneLast(t, id)
  <2>1. \A k \in 1 .. n : Is(s[k], "opsBatch", id) => s[k] \in Got(s, "opsBatch", id)
    BY DEF Got, n
  <2>2. \A k \in 1 .. n + 1 : k <= n + 1
    BY <1>1
  <2> QED BY <1>1, <1>2, <2>1, <2>2 DEF DoneLast, n
<1>6. ErrorFirst(s, id) => ErrorFirst(t, id)
  <2> SUFFICES ASSUME ErrorFirst(s, id) PROVE ErrorFirst(t, id)
    OBVIOUS
  <2>1. PICK k \in 1 .. n : /\ Is(s[k], "error", id)
                            /\ \A j \in 1 .. k - 1 : ~(Is(s[j], "opsBatch", id) /\ Bare(s[j]))
    BY DEF ErrorFirst, n
  <2>2. \A j \in 1 .. k - 1 : j \in 1 .. n
    BY <1>1, <2>1
  <2> QED BY <1>1, <1>2, <2>1, <2>2 DEF ErrorFirst
<1>7. Is(m, "error", id) /\ (\A b \in Got(s, "opsBatch", id) : ~Bare(b)) => ErrorFirst(t, id)
  <2>1. \A k \in 1 .. n : Is(s[k], "opsBatch", id) => s[k] \in Got(s, "opsBatch", id)
    BY DEF Got, n
  <2>2. n + 1 \in 1 .. Len(t) /\ (n + 1) - 1 = n
    BY <1>1
  <2> QED BY <1>1, <2>1, <2>2 DEF ErrorFirst
<1> QED BY <1>3, <1>4, <1>5, <1>6, <1>7

\* What a channel holds of a call, and in which order, after its first message is taken.
LEMMA TailChannel ==
  ASSUME NEW M, NEW s \in Seq(M), s # <<>>, NEW id
  PROVE  /\ \A type : Is(Head(s), type, id) =>
                        Got(s, type, id) = Got(Tail(s), type, id) \cup {Head(s)}
         /\ \A type : ~Is(Head(s), type, id) => Got(Tail(s), type, id) = Got(s, type, id)
         /\ \A type : One(s, type, id) =>
                        /\ One(Tail(s), type, id)
                        /\ Is(Head(s), type, id) => Got(Tail(s), type, id) = {}
         /\ StatusFirst(s, id) =>
              /\ StatusFirst(Tail(s), id)
              /\ Is(Head(s), "opsBatch", id) => Got(s, "ribltStatus", id) = {}
         /\ DoneLast(s, id) =>
              /\ DoneLast(Tail(s), id)
              /\ Is(Head(s), "opsBatch", id) /\ Head(s).done => Got(Tail(s), "opsBatch", id) = {}
         /\ ErrorFirst(s, id) =>
              /\ ~(Is(Head(s), "opsBatch", id) /\ Bare(Head(s)))
              /\ ~Is(Head(s), "error", id) => ErrorFirst(Tail(s), id)
<1> DEFINE t == Tail(s)
           n == Len(t)
<1>1. /\ n \in Nat /\ Len(s) = n + 1 /\ Head(s) = s[1]
      /\ \A k \in 1 .. n : t[k] = s[k + 1]
  BY HeadTailProperties, LenProperties
<1>2. /\ \A k \in 1 .. Len(s) : k = 1 \/ \E j \in 1 .. n : k = j + 1
      /\ \A j \in 1 .. n : j + 1 \in 1 .. Len(s) /\ j + 1 # 1
      /\ 1 \in 1 .. Len(s)
  <2>1. \A k \in 1 .. Len(s) : k = 1 \/ (k - 1 \in 1 .. n /\ k = (k - 1) + 1)
    BY <1>1
  <2>2. \A k \in 1 .. Len(s) : k = 1 \/ \E j \in 1 .. n : k = j + 1
    BY <2>1
  <2> QED BY <1>1, <2>2
<1> HIDE DEF n, t
<1>3. ASSUME NEW type
      PROVE  /\ Got(s, type, id) =
                  Got(t, type, id) \cup (IF Is(Head(s), type, id) THEN {Head(s)} ELSE {})
             /\ One(s, type, id) =>
                  One(t, type, id) /\ (Is(Head(s), type, id) => Got(t, type, id) = {})
  <2>1. \A x : x \in Got(s, type, id) <=> \E k \in 1 .. Len(s) : x = s[k] /\ Is(s[k], type, id)
    BY DEF Got
  <2>2. \A x : x \in Got(t, type, id) <=> \E k \in 1 .. n : x = t[k] /\ Is(t[k], type, id)
    BY DEF Got, n
  <2>3. Got(s, type, id) = Got(t, type, id) \cup (IF Is(Head(s), type, id) THEN {Head(s)} ELSE {})
    <3>1. ASSUME NEW x \in Got(s, type, id)
          PROVE  x \in Got(t, type, id) \/ (x = Head(s) /\ Is(Head(s), type, id))
      BY <1>1, <1>2, <2>1, <2>2
    <3>2. ASSUME NEW x \in Got(t, type, id)
          PROVE  x \in Got(s, type, id)
      BY <1>1, <1>2, <2>1, <2>2
    <3>3. Is(Head(s), type, id) => Head(s) \in Got(s, type, id)
      BY <1>1, <1>2, <2>1
    <3> QED BY <3>1, <3>2, <3>3
  <2>4. One(s, type, id) => One(t, type, id)
    <3> SUFFICES ASSUME One(s, type, id), NEW j \in 1 .. n, NEW k \in 1 .. n,
                        Is(t[j], type, id), Is(t[k], type, id)
                 PROVE  j = k
      BY DEF One, n
    <3>1. j + 1 = k + 1
      BY <1>1, <1>2 DEF One
    <3> QED BY <3>1
  <2>5. One(s, type, id) /\ Is(Head(s), type, id) => Got(t, type, id) = {}
    BY <1>1, <1>2, <2>2 DEF One
  <2> QED BY <2>3, <2>4, <2>5
<1>4. StatusFirst(s, id) =>
        StatusFirst(t, id) /\ (Is(Head(s), "opsBatch", id) => Got(s, "ribltStatus", id) = {})
  <2> SUFFICES ASSUME StatusFirst(s, id)
               PROVE  StatusFirst(t, id) /\ (Is(Head(s), "opsBatch", id) => Got(s, "ribltStatus", id) = {})
    OBVIOUS
  <2>1. StatusFirst(t, id)
    <3> SUFFICES ASSUME NEW j \in 1 .. n, NEW k \in 1 .. n,
                        Is(t[j], "ribltStatus", id), Is(t[k], "opsBatch", id)
                 PROVE  j < k
      BY DEF StatusFirst, n
    <3>1. j + 1 < k + 1
      BY <1>1, <1>2 DEF StatusFirst
    <3> QED BY <3>1
  <2>2. Is(Head(s), "opsBatch", id) => \A k \in 1 .. Len(s) : ~Is(s[k], "ribltStatus", id)
    <3>1. \A k \in 1 .. Len(s) : ~(k < 1)
      BY <1>1
    <3> QED BY <1>1, <1>2, <3>1 DEF StatusFirst
  <2>3. Is(Head(s), "opsBatch", id) => Got(s, "ribltStatus", id) = {}
    BY <2>2 DEF Got
  <2> QED BY <2>1, <2>3
<1>5. DoneLast(s, id) =>
        /\ DoneLast(t, id)
        /\ Is(Head(s), "opsBatch", id) /\ Head(s).done => Got(t, "opsBatch", id) = {}
  <2> SUFFICES ASSUME DoneLast(s, id)
               PROVE  /\ DoneLast(t, id)
                      /\ Is(Head(s), "opsBatch", id) /\ Head(s).done => Got(t, "opsBatch", id) = {}
    OBVIOUS
  <2>1. DoneLast(t, id)
    <3> SUFFICES ASSUME NEW j \in 1 .. n, NEW k \in 1 .. n,
                        Is(t[j], "opsBatch", id), t[j].done, Is(t[k], "opsBatch", id)
                 PROVE  k <= j
      BY DEF DoneLast, n
    <3>1. k + 1 <= j + 1
      BY <1>1, <1>2 DEF DoneLast
    <3> QED BY <3>1
  <2>2. Is(Head(s), "opsBatch", id) /\ Head(s).done => \A k \in 1 .. n : ~Is(t[k], "opsBatch", id)
    <3>1. \A k \in 1 .. n : ~(k + 1 <= 1)
      BY <1>1
    <3> QED BY <1>1, <1>2, <3>1 DEF DoneLast
  <2>3. Is(Head(s), "opsBatch", id) /\ Head(s).done => Got(t, "opsBatch", id) = {}
    BY <2>2 DEF Got, n
  <2> QED BY <2>1, <2>3
<1>6. ErrorFirst(s, id) =>
        /\ ~(Is(Head(s), "opsBatch", id) /\ Bare(Head(s)))
        /\ ~Is(Head(s), "error", id) => ErrorFirst(t, id)
  <2> SUFFICES ASSUME ErrorFirst(s, id)
               PROVE  /\ ~(Is(Head(s), "opsBatch", id) /\ Bare(Head(s)))
                      /\ ~Is(Head(s), "error", id) => ErrorFirst(t, id)
    OBVIOUS
  <2>1. PICK k \in 1 .. Len(s) :
                /\ Is(s[k], "error", id)
                /\ \A j \in 1 .. k - 1 : ~(Is(s[j], "opsBatch", id) /\ Bare(s[j]))
    BY DEF ErrorFirst
  <2>2. CASE k = 1
    BY <1>1, <2>1, <2>2 DEF Is
  <2>3. CASE k # 1
    <3>1. 1 \in 1 .. k - 1
      BY <1>1, <2>3
    <3>2. PICK l \in 1 .. n : k = l + 1
      BY <1>2, <2>3
    <3>3. Is(t[l], "error", id)
      BY <1>1, <2>1, <3>2
    <3>4. \A j \in 1 .. l - 1 : ~(Is(t[j], "opsBatch", id) /\ Bare(t[j]))
      <4>1. \A j \in 1 .. l - 1 : j \in 1 .. n /\ j + 1 \in 1 .. k - 1
        BY <1>1, <3>2
      <4> QED BY <1>1, <2>1, <4>1
    <3>5. ErrorFirst(t, id)
      BY <3>3, <3>4 DEF ErrorFirst, n
    <3> QED BY <1>1, <2>1, <3>1, <3>5
  <2> QED BY <2>2, <2>3
<1> QED BY <1>3, <1>4, <1>5, <1>6 DEF t

(* The same of a queue of batches. *)

Elems(q) == {q[k] : k \in 1 .. Len(q)}
LastIsDone(q) == \A k \in 1 .. Len(q) : q[k].done => k = Len(q)

\* A batch put at the end of a queue.
LEMMA AppendQueue ==
  ASSUME NEW M, NEW q \in Seq(M), NEW m \in M
  PROVE  /\ Elems(Append(q, m)) = Elems(q) \cup {m}
         /\ LastIsDone(q) /\ (\A b \in Elems(q) : ~b.done) => LastIsDone(Append(q, m))
<1> DEFINE t == Append(q, m)
           n == Len(q)
<1>1. /\ n \in Nat /\ Len(t) = n + 1 /\ t[n + 1] = m
      /\ \A k \in 1 .. n : t[k] = q[k]
  BY AppendProperties, LenProperties
<1>2. 1 .. Len(t) = 1 .. n \cup {n + 1}
  BY <1>1
<1>3. \A k \in 1 .. n : q[k] \in Elems(q)
  BY DEF Elems
<1> HIDE DEF t, n
<1>4. Elems(t) = Elems(q) \cup {m}
  <2>1. \A x : x \in Elems(q) <=> \E k \in 1 .. n : x = q[k]
    BY DEF Elems, n
  <2>2. \A x : x \in Elems(t) <=> \E k \in 1 .. Len(t) : x = t[k]
    BY DEF Elems
  <2> QED BY <1>1, <1>2, <2>1, <2>2
<1>5. (\A b \in Elems(q) : ~b.done) => LastIsDone(t)
  BY <1>1, <1>2, <1>3 DEF LastIsDone
<1> QED BY <1>4, <1>5 DEF t

\* The first batch taken from a queue.
LEMMA TailQueue ==
  ASSUME NEW M, NEW q \in Seq(M), q # <<>>
  PROVE  /\ Elems(q) = Elems(Tail(q)) \cup {Head(q)}
         /\ LastIsDone(q) => LastIsDone(Tail(q)) /\ (Head(q).done => Elems(Tail(q)) = {})
<1> DEFINE t == Tail(q)
           n == Len(t)
<1>1. /\ n \in Nat /\ Len(q) = n + 1 /\ Head(q) = q[1]
      /\ \A k \in 1 .. n : t[k] = q[k + 1]
  BY HeadTailProperties, LenProperties
<1>2. \A k \in 1 .. Len(q) : k = 1 \/ (k - 1 \in 1 .. n /\ k = (k - 1) + 1)
  BY <1>1
<1>3. /\ \A j \in 1 .. n : j + 1 \in 1 .. Len(q)
      /\ 1 \in 1 .. Len(q)
  BY <1>1
<1> HIDE DEF t, n
<1>4. Elems(q) = Elems(t) \cup {Head(q)}
  <2>1. \A x : x \in Elems(q) <=> \E k \in 1 .. Len(q) : x = q[k]
    BY DEF Elems
  <2>2. \A x : x \in Elems(t) <=> \E k \in 1 .. n : x = t[k]
    BY DEF Elems, n
  <2>3. ASSUME NEW x \in Elems(q), x # Head(q)
        PROVE  x \in Elems(t)
    <3>1. PICK k \in 1 .. Len(q) : x = q[k]
      BY <2>1, <2>3
    <3>2. x = t[k - 1] /\ k - 1 \in 1 .. n
      BY <1>1, <1>2, <2>3, <3>1
    <3> QED BY <2>2, <3>2
  <2>4. ASSUME NEW x \in Elems(t)
        PROVE  x \in Elems(q)
    BY <1>1, <1>3, <2>1, <2>2, <2>4
  <2> QED BY <1>1, <1>3, <2>1, <2>3, <2>4
<1>5. LastIsDone(q) => LastIsDone(t)
  <2> SUFFICES ASSUME LastIsDone(q), NEW k \in 1 .. n, t[k].done
               PROVE  k = n
    BY DEF LastIsDone, n
  <2>1. k + 1 = Len(q)
    BY <1>1, <1>3 DEF LastIsDone
  <2> QED BY <1>1, <2>1
<1>6. LastIsDone(q) /\ Head(q).done => Elems(t) = {}
  <2>1. LastIsDone(q) /\ Head(q).done => n = 0
    BY <1>1, <1>3 DEF LastIsDone
  <2> QED BY <1>1, <2>1 DEF Elems, n
<1> QED BY <1>4, <1>5, <1>6 DEF t

\* A queue without batches is empty.
LEMMA EmptyQueue ==
  ASSUME NEW M, NEW q \in Seq(M)
  PROVE  q = <<>> <=> Elems(q) = {}
<1>1. q # <<>> => q[1] \in Elems(q)
  <2>1. q # <<>> => 1 \in 1 .. Len(q)
    BY EmptySeq
  <2> QED BY <2>1 DEF Elems
<1>2. q = <<>> => Elems(q) = {}
  BY DEF Elems
<1> QED BY <1>1, <1>2

\* The orders hold of messages that are not there.
LEMMA NothingGot ==
  ASSUME NEW s, NEW id
  PROVE  /\ \A type : Got(s, type, id) = {} => One(s, type, id)
         /\ Got(s, "ribltStatus", id) = {} \/ Got(s, "opsBatch", id) = {} => StatusFirst(s, id)
         /\ Got(s, "opsBatch", id) = {} => DoneLast(s, id)
         /\ ErrorFirst(s, id) => Got(s, "error", id) # {}
<1>1. ASSUME NEW type, NEW k \in 1 .. Len(s), Is(s[k], type, id)
      PROVE  Got(s, type, id) # {}
  BY <1>1 DEF Got
<1>2. \A type : Got(s, type, id) = {} => One(s, type, id)
  BY <1>1 DEF One
<1>3. Got(s, "ribltStatus", id) = {} \/ Got(s, "opsBatch", id) = {} => StatusFirst(s, id)
  BY <1>1 DEF StatusFirst
<1>4. Got(s, "opsBatch", id) = {} => DoneLast(s, id)
  BY <1>1 DEF DoneLast
<1>5. ErrorFirst(s, id) => Got(s, "error", id) # {}
  BY <1>1 DEF ErrorFirst
<1> QED BY <1>2, <1>3, <1>4, <1>5

\* Channel t is as s is for the call id.
Alike(s, t, id) ==
    /\ \A type : Got(t, type, id) = Got(s, type, id)
    /\ \A type : One(s, type, id) => One(t, type, id)
    /\ StatusFirst(s, id) => StatusFirst(t, id)
    /\ DoneLast(s, id) => DoneLast(t, id)
    /\ ErrorFirst(s, id) => ErrorFirst(t, id)

\* A message sent for another call.
LEMMA AppendAlike ==
  ASSUME NEW M, NEW s \in Seq(M), NEW m \in M, NEW id, m.id # id
  PROVE  Alike(s, Append(s, m), id)
<1> DEFINE t == Append(s, m)
<1>0. t = Append(s, m)
  OBVIOUS
<1> HIDE DEF t
<1>1. \A type : ~Is(m, type, id)
  BY DEF Is
<1>2. ASSUME NEW type
      PROVE  /\ Got(t, type, id) = Got(s, type, id)
             /\ One(s, type, id) => One(t, type, id)
  <2>1. Got(t, type, id) = Got(s, type, id)
    BY <1>0, <1>1, AppendGot
  <2>2. One(s, type, id) /\ (Is(m, type, id) => Got(s, type, id) = {}) => One(t, type, id)
    BY <1>0, AppendChannel
  <2> QED BY <1>1, <2>1, <2>2
<1>4. StatusFirst(s, id) => StatusFirst(t, id)
  BY <1>0, <1>1, AppendChannel
<1>5. DoneLast(s, id) => DoneLast(t, id)
  BY <1>0, <1>1, AppendChannel
<1>6. ErrorFirst(s, id) => ErrorFirst(t, id)
  BY <1>0, AppendChannel
<1>3. Alike(s, t, id)
  BY <1>2, <1>4, <1>5, <1>6 DEF Alike
<1> QED BY <1>3 DEF t

\* A message taken that is of another call.
LEMMA TailAlike ==
  ASSUME NEW M, NEW s \in Seq(M), s # <<>>, NEW id, Head(s).id # id
  PROVE  Alike(s, Tail(s), id)
<1> DEFINE t == Tail(s)
<1>1. \A type : ~Is(Head(s), type, id)
  BY DEF Is
<1>2. /\ \A type : ~Is(Head(s), type, id) => Got(t, type, id) = Got(s, type, id)
      /\ \A type : One(s, type, id) => One(t, type, id)
      /\ StatusFirst(s, id) => StatusFirst(t, id)
      /\ DoneLast(s, id) => DoneLast(t, id)
      /\ ErrorFirst(s, id) => (~Is(Head(s), "error", id) => ErrorFirst(t, id))
  BY TailChannel
<1> HIDE DEF t
<1>3. \A type : Got(t, type, id) = Got(s, type, id)
  BY <1>1, <1>2
<1>4. Alike(s, t, id)
  BY <1>1, <1>2, <1>3 DEF Alike
<1> QED BY <1>4 DEF t

-----------------------------------------------------------------------------
(* The inductive invariant: types.                                         *)

Message ==
    [type : {"hello"}, id : Id, request : BOOLEAN]
    \cup [type : {"helloAck"}, id : Id, accepted : BOOLEAN, mode : {"direct", "empty", "riblt"}]
    \cup [type : {"ribltCodewords"}, id : Id, start : Int, n : Int, refs : SUBSET Op]
    \cup [type : {"ribltStatus"}, id : Id, kind : {"more", "decoded", "failed"},
          missing : SUBSET Op]
    \cup [type : {"opsBatch"}, id : Id, ops : SUBSET Op, done : BOOLEAN]
    \cup [type : {"error"}, id : 0 .. MaxSyncs]
MessageType == {"hello", "helloAck", "ribltCodewords", "ribltStatus", "opsBatch", "error"}
BatchMessage == [type : {"opsBatch"}, id : Id, ops : SUBSET Op, done : BOOLEAN]

PromiseValue == {"pending", "resolved", "rejected"}
StatusValue == {"pending", "decoded", "failed", "rejected"}
Call ==
    [id : 0 .. MaxSyncs, at : {"none", "ack", "riblt", "upload", "receive", "ok", "failed"},
     empty : BOOLEAN, mode : {"direct", "empty", "riblt"}, refs : SUBSET Op,
     ack : PromiseValue, status : StatusValue, received : PromiseValue,
     missing : SUBSET Op, credits : Int, next : Int, awaitingUploadAck : BOOLEAN,
     done : BOOLEAN]
ResponderSession ==
    [local : SUBSET Op, expected : Int, incoming : BOOLEAN, open : BOOLEAN]

TypeOK ==
    /\ store \in [Peer -> SUBSET Op]
    /\ chan \in [Peer -> Seq(Message)]
    /\ call \in Call
    /\ sessions \in [Id -> ResponderSession]
    /\ awaiting \subseteq Id
    /\ sending \in [Id -> [refs : SUBSET Op, active : BOOLEAN]]
    /\ queue \in [Peer -> [Id -> Seq(BatchMessage)]]
    /\ promised \in [Peer -> SUBSET Op]

-----------------------------------------------------------------------------
(* The inductive invariant: the calls that are over or to come.            *)

\* Only a call whose Hello was accepted goes on, and only one that received returns.
GoesOnAccepted ==
    /\ call.at # "none" => call.id \in Id
    /\ call.at = "ok" => call.received = "resolved"
    /\ call.ack # "resolved" => call.at \in {"none", "ack", "failed"}

\* Nothing is known of a call that was not made.
Fresh(id) ==
    /\ sessions[id] = NoSession /\ id \notin awaiting /\ ~sending[id].active
    /\ \A p \in Peer : queue[p][id] = <<>> /\ \A type \in MessageType : Got(chan[p], type, id) = {}
FutureIsFresh == \A id \in Id : id > call.id => Fresh(id)

\* The responder sends what it may, and has nothing left when it stops.
SendsWhatItMay ==
    \A id \in Id :
        /\ sessions[id].local \subseteq Sendable["r"] /\ sending[id].refs \subseteq Sendable["r"]
        /\ ~sending[id].active => sending[id].refs = {}

-----------------------------------------------------------------------------
(* The inductive invariant: the current call.                              *)

Session == sessions[call.id]
Sending == sending[call.id]
Hellos == Got(chan["r"], "hello", call.id)
Codes == Got(chan["r"], "ribltCodewords", call.id)
Acks == Got(chan["i"], "helloAck", call.id)
Statuses == Got(chan["i"], "ribltStatus", call.id)
Errors == Got(chan["i"], "error", call.id)
Refusals == Got(chan["i"], "error", 0)

\* The batches of the call on their way to a peer, in its channel or its queue.
Batches(p) == Got(chan[p], "opsBatch", call.id)
Queued(p) == Elems(queue[p][call.id])
Stream(p) == Batches(p) \cup Queued(p)
OnTheWay(p) == UNION {m.ops : m \in Stream(p)}

\* The responder has done nothing for the call, whose Hello was not answered or refused.
Greeting ==
    /\ call.at = "ack" /\ call.ack = "pending" /\ call.received = "pending"
    /\ call.status = "pending" /\ ~call.done /\ call.credits = 1 /\ ~call.awaitingUploadAck
    /\ Session = NoSession /\ call.id \notin awaiting /\ ~Sending.active
    /\ Stream("i") = {} /\ Stream("r") = {} /\ Codes = {} /\ Statuses = {} /\ Errors = {}
    /\ \A m \in Acks : ~m.accepted
    /\ promised = [p \in Peer |-> {}]

\* There is one Hello, that of the current call, or one error that it was answered with.
OneHello ==
    /\ \A id \in Id : id # call.id => Got(chan["r"], "hello", id) = {}
    /\ \A m \in Hellos : m.request = call.empty
    /\ One(chan["r"], "hello", call.id) /\ One(chan["i"], "error", 0)
    /\ Hellos = {} \/ Refusals = {}
    /\ Hellos # {} \/ Refusals # {} => Greeting /\ Acks = {}

\* The call may still return.
Alive == call.at \notin {"none", "failed"} /\ call.ack # "rejected" /\ call.received # "rejected"

Accepted(mode) ==
    /\ \A m \in Acks : m.accepted /\ m.mode = mode
    /\ call.ack = "resolved" => call.mode = mode

\* What the call is to bring the initiator is there or on its way.
Downloading ==
    Invalid["i"] = {} => promised["i"] \subseteq store["i"] \cup OnTheWay("i") \cup Sending.refs

\* The responder sends everything.
Direct ==
    /\ Accepted("direct") /\ call.empty /\ call.at \in {"ack", "receive", "ok"}
    /\ Session = NoSession /\ call.id \notin awaiting
    /\ Stream("r") = {} /\ Codes = {} /\ Statuses = {} /\ Errors = {}

\* The responder is empty and awaits the upload.
ToUpload ==
    /\ Accepted("empty") /\ call.at = "ack" /\ call.received = "pending"
    /\ Session = NoSession /\ call.id \in awaiting /\ ~Sending.active
    /\ Stream("i") = {} /\ Stream("r") = {} /\ Codes = {} /\ Statuses = {} /\ Errors = {}
    /\ promised["i"] = {}

\* Codewords go one way and credits the other.
Reconciling ==
    /\ Accepted("riblt") /\ call.at \in {"ack", "riblt"} /\ call.received = "pending"
    /\ call.status # "decoded" /\ (call.status = "pending" <=> ~call.done)
    /\ call.id \notin awaiting /\ ~Sending.active /\ ~Session.incoming
    /\ Session.open => promised["i"] \subseteq Session.local
    /\ Stream("i") = {} /\ Stream("r") = {} /\ Errors = {}
    /\ One(chan["r"], "ribltCodewords", call.id) /\ One(chan["i"], "ribltStatus", call.id)
    /\ Codes = {} \/ Statuses = {}
    /\ Codes # {} \/ Statuses # {} =>
         call.credits = 0 /\ call.at = "riblt" /\ call.status = "pending"
    /\ call.credits <= 1
    /\ \A m \in Codes : m.refs = call.refs
    /\ \A m \in Statuses : m.kind # "decoded" /\ m.missing = {}
    /\ call.at = "riblt" => call.refs \subseteq store["i"] \cap Sendable["i"]

\* Neither is the acknowledgement of an upload sent, nor has the call its last batch.
NotAcknowledged == (\A m \in Stream("i") : ~Bare(m)) /\ call.received = "pending"

\* The status is on its way, and batches behind it.
Decoded(missing) ==
    /\ call.at = "riblt" /\ call.received = "pending"
    /\ call.status = "pending" /\ ~call.done /\ call.credits = 0
    /\ call.id \notin awaiting /\ Stream("r") = {} /\ Codes = {} /\ Errors = {}
    /\ One(chan["i"], "ribltStatus", call.id) /\ StatusFirst(chan["i"], call.id)
    /\ Queued("i") = {}
    /\ Statuses = {Status(call.id, "decoded", missing)}
    /\ missing \subseteq Sendable["i"]
    /\ IF missing = {}
       THEN Session.open => ~Session.incoming /\ Sending.active
       ELSE /\ Session.open /\ Session.incoming /\ NotAcknowledged
            /\ Sending.active => Sending.refs # {}

\* The responder misses nothing.
Finishing ==
    /\ call.at \in {"riblt", "upload", "receive", "ok"}
    /\ call.done /\ call.missing = {}
    /\ call.id \notin awaiting /\ (Session.open => ~Session.incoming /\ Sending.active)
    /\ Codes = {} /\ Statuses = {} /\ Errors = {} /\ OnTheWay("r") = {}

\* A batch of the upload was refused, and the call will hear of it first.
Refused ==
    ErrorFirst(chan["i"], call.id) /\ call.received = "pending" /\ \A m \in Queued("i") : ~Bare(m)

\* The responder is to acknowledge the upload.
ToAcknowledge == Session.open \/ call.id \in awaiting
UploadEnds == \E m \in Stream("r") : m.done

\* The initiator uploads what the responder misses and waits for the acknowledgement.
Uploading ==
    /\ call.at \in {"riblt", "upload", "receive", "ok"} /\ call.awaitingUploadAck
    /\ Codes = {} /\ Statuses = {}
    /\ Session.open => Session.incoming /\ call.id \notin awaiting
    /\ Sending.active => Sending.refs # {}
    /\ promised["r"] \subseteq Sendable["i"]
    /\ call.at = "riblt" => call.done
    /\ call.at \in {"receive", "ok"} => call.missing = {}
    /\ promised["r"] \subseteq store["r"] \cup OnTheWay("r") \cup call.missing \/ Refused
    /\ Errors # {} => Refused
    /\ DoneLast(chan["r"], call.id) /\ LastIsDone(queue["r"][call.id])
    /\ (\E m \in Queued("r") : m.done) => Batches("r") = {}
    /\ call.at \in {"riblt", "upload"} => ~UploadEnds
    /\ call.at \in {"riblt", "upload"} \/ UploadEnds => ToAcknowledge /\ NotAcknowledged
    /\ call.at \in {"receive", "ok"} /\ ~UploadEnds =>
         Stream("r") = {} /\ (~ToAcknowledge \/ Refused)

\* A call that may still return is in one of these phases.
Phases ==
    /\ call.at = "ok" => call.received = "resolved"
    /\ Reconciling \/ Downloading
    /\ \/ /\ ~call.awaitingUploadAck /\ promised["r"] = {}
          /\ \/ Greeting \/ Direct \/ ToUpload \/ Reconciling
             \/ (\E missing \in SUBSET Op : Decoded(missing)) \/ Finishing
       \/ Uploading

SessionInv ==
    TypeOK /\ GoesOnAccepted /\ FutureIsFresh /\ SendsWhatItMay /\ OneHello /\ (Alive => Phases)

-----------------------------------------------------------------------------
(* What the actions do, channel by channel.                                *)

\* What the handlers send are messages.
LEMMA MessageTypes ==
  ASSUME NEW id \in Id, NEW ops \in SUBSET Op, NEW done \in BOOLEAN
  PROVE  /\ Batch(id, ops, done) \in Message /\ Batch(id, ops, done) \in BatchMessage
         /\ \A kind \in {"more", "decoded", "failed"} : Status(id, kind, ops) \in Message
         /\ [type |-> "error", id |-> id] \in Message
BY DEF Message, BatchMessage, Batch, Status, Id

\* A message sent to a peer is the last of its channel.
LEMMA SendOne ==
  ASSUME TypeOK, NEW p \in Peer, NEW m \in Message
  PROVE  /\ SendTo(p, << m >>)[p] = Append(chan[p], m)
         /\ SendTo(p, << m >>)[Other(p)] = chan[Other(p)]
         /\ SendTo(p, << m >>) \in [Peer -> Seq(Message)]
         /\ SendTo(p, <<>>) = chan
<1>1. chan \in [Peer -> Seq(Message)]
  BY DEF TypeOK
<1>2. chan[p] \o << m >> = Append(chan[p], m) /\ Append(chan[p], m) \in Seq(Message)
  BY <1>1, AppendIsConcat, AppendProperties
<1>3. chan[p] \o <<>> = chan[p]
  BY <1>1, ConcatEmptySeq
<1>4. Other(p) # p /\ Other(p) \in Peer
  BY DEF Other, Peer
<1>5. SendTo(p, << m >>) = [chan EXCEPT ![p] = Append(chan[p], m)]
  BY <1>1, <1>2 DEF SendTo
<1>6. SendTo(p, <<>>) = chan
  BY <1>1, <1>3 DEF SendTo
<1> QED BY <1>1, <1>2, <1>4, <1>5, <1>6

\* A reply takes the first message of a channel and appends to the other one.
LEMMA ReplyAny ==
  ASSUME TypeOK, NEW p \in Peer, chan[p] # <<>>, NEW msgs,
         chan[Other(p)] \o msgs \in Seq(Message)
  PROVE  /\ Reply(p, msgs)[p] = Tail(chan[p])
         /\ Reply(p, msgs)[Other(p)] = chan[Other(p)] \o msgs
         /\ Reply(p, msgs) \in [Peer -> Seq(Message)]
<1> DEFINE q == Other(p)
<1>1. chan \in [Peer -> Seq(Message)]
  BY DEF TypeOK
<1>2. q # p /\ q \in Peer
  BY DEF Other, Peer
<1>3. Tail(chan[p]) \in Seq(Message)
  BY <1>1, HeadTailProperties
<1> HIDE DEF q
<1>4. Reply(p, msgs) = [x \in Peer |-> IF x = p THEN Tail(chan[p])
                                       ELSE IF x = q THEN chan[q] \o msgs ELSE chan[x]]
  BY <1>1, <1>2 DEF Reply, q
<1>5. chan[q] \o msgs \in Seq(Message)
  BY DEF q
<1>6. /\ Reply(p, msgs)[p] = Tail(chan[p]) /\ Reply(p, msgs)[q] = chan[q] \o msgs
      /\ Reply(p, msgs) \in [Peer -> Seq(Message)]
  BY <1>1, <1>2, <1>3, <1>4, <1>5
<1> QED BY <1>6 DEF q

\* A reply of no message, or of one.
LEMMA ReplyWith ==
  ASSUME TypeOK, NEW p \in Peer, chan[p] # <<>>
  PROVE  /\ Reply(p, <<>>)[p] = Tail(chan[p]) /\ Reply(p, <<>>)[Other(p)] = chan[Other(p)]
         /\ Reply(p, <<>>) \in [Peer -> Seq(Message)]
         /\ \A m \in Message :
              /\ Reply(p, << m >>)[p] = Tail(chan[p])
              /\ Reply(p, << m >>)[Other(p)] = Append(chan[Other(p)], m)
              /\ Reply(p, << m >>) \in [Peer -> Seq(Message)]
<1>1. chan[Other(p)] \in Seq(Message)
  BY DEF TypeOK, Other, Peer
<1>2. chan[Other(p)] \o <<>> = chan[Other(p)]
  BY <1>1, ConcatEmptySeq
<1>3. \A m \in Message : chan[Other(p)] \o << m >> = Append(chan[Other(p)], m)
                         /\ Append(chan[Other(p)], m) \in Seq(Message)
  BY <1>1, AppendIsConcat, AppendProperties
<1>4. /\ Reply(p, <<>>)[p] = Tail(chan[p]) /\ Reply(p, <<>>)[Other(p)] = chan[Other(p)]
      /\ Reply(p, <<>>) \in [Peer -> Seq(Message)]
  BY <1>1, <1>2, ReplyAny
<1>5. \A m \in Message :
        /\ Reply(p, << m >>)[p] = Tail(chan[p])
        /\ Reply(p, << m >>)[Other(p)] = Append(chan[Other(p)], m)
        /\ Reply(p, << m >>) \in [Peer -> Seq(Message)]
  BY <1>3, ReplyAny
<1> QED BY <1>4, <1>5

\* A reply of two messages.
LEMMA ReplyTwo ==
  ASSUME TypeOK, NEW p \in Peer, chan[p] # <<>>, NEW m \in Message, NEW n \in Message
  PROVE  /\ Reply(p, << m, n >>)[p] = Tail(chan[p])
         /\ Reply(p, << m, n >>)[Other(p)] = Append(Append(chan[Other(p)], m), n)
         /\ Reply(p, << m, n >>) \in [Peer -> Seq(Message)]
<1> DEFINE q == Other(p)
<1>1. chan[q] \in Seq(Message)
  BY DEF TypeOK, Other, Peer
<1>2. chan[q] \o << m >> = Append(chan[q], m) /\ Append(chan[q], m) \in Seq(Message)
  BY <1>1, AppendIsConcat, AppendProperties
<1>3. /\ chan[q] \o << m, n >> = Append(Append(chan[q], m), n)
      /\ Append(Append(chan[q], m), n) \in Seq(Message)
  <2>1. << m >> \in Seq(Message) /\ << n >> \in Seq(Message) /\ << m >> \o << n >> = << m, n >>
    <3>1. << m >> \in Seq(Message) /\ << n >> \in Seq(Message)
      OBVIOUS
    <3>2. << m >> \o << n >> = Append(<< m >>, n)
      BY <3>1, AppendIsConcat
    <3>3. Append(<< m >>, n) = << m, n >>
      <4>1. << m, n >> \in Seq(Message) /\ Len(<< m, n >>) = 2 /\ Len(<< m >>) = 1
        OBVIOUS
      <4>2. /\ Append(<< m >>, n) \in Seq(Message) /\ Len(Append(<< m >>, n)) = 2
            /\ Append(<< m >>, n)[1] = m /\ Append(<< m >>, n)[2] = n
        BY <3>1, <4>1, AppendProperties
      <4>3. \A k \in 1 .. 2 : Append(<< m >>, n)[k] = << m, n >>[k]
        <5>1. \A k \in 1 .. 2 : k = 1 \/ k = 2
          OBVIOUS
        <5> QED BY <4>2, <5>1
      <4> QED BY <4>1, <4>2, <4>3, SeqEqual
    <3> QED BY <3>1, <3>2, <3>3
  <2>2. chan[q] \o (<< m >> \o << n >>) = (chan[q] \o << m >>) \o << n >>
    BY <1>1, <2>1, ConcatAssociative
  <2>3. Append(chan[q], m) \o << n >> = Append(Append(chan[q], m), n)
        /\ Append(Append(chan[q], m), n) \in Seq(Message)
    BY <1>2, AppendIsConcat, AppendProperties
  <2> QED BY <1>2, <2>1, <2>2, <2>3
<1>4. /\ Reply(p, << m, n >>)[p] = Tail(chan[p])
      /\ Reply(p, << m, n >>)[q] = chan[q] \o << m, n >>
      /\ Reply(p, << m, n >>) \in [Peer -> Seq(Message)]
  BY <1>3, ReplyAny
<1> QED BY <1>3, <1>4

\* Min of two numbers is a number.
LEMMA MinOfTwo ==
  ASSUME NEW a \in Int, NEW b \in Int
  PROVE  Min({a, b}) \in Int
<1>1. \E x \in {a, b} : \A y \in {a, b} : x <= y
  <2>1. CASE a <= b
    BY <2>1
  <2>2. CASE ~(a <= b)
    <3>1. b <= a
      BY <2>2
    <3> QED BY <3>1
  <2> QED BY <2>1, <2>2
<1>2. Min({a, b}) \in {a, b}
  BY <1>1 DEF Min
<1> QED BY <1>2

\* The call after a step, field by field.
Becomes(at, mode, refs, ack, status, received, missing, credits, awaitingUploadAck, done) ==
    /\ call' \in Call /\ call'.id = call.id /\ call'.empty = call.empty
    /\ call'.at = at /\ call'.mode = mode /\ call'.refs = refs
    /\ call'.ack = ack /\ call'.status = status /\ call'.received = received
    /\ call'.missing = missing /\ call'.credits = credits
    /\ call'.awaitingUploadAck = awaitingUploadAck /\ call'.done = done

\* The state of a new call has its type.
LEMMA NewCallType ==
  ASSUME NEW id \in 0 .. MaxSyncs, NEW empty \in BOOLEAN
  PROVE  NewCall(id, empty) \in Call
BY DEF NewCall, Call, PromiseValue, StatusValue

\* The initial states have their types.
LEMMA InitIsTyped == Init /\ Assumptions => TypeOK
<1> SUFFICES ASSUME Init, Assumptions PROVE TypeOK
  OBVIOUS
<1>1. 0 \in 0 .. MaxSyncs
  BY DEF Assumptions
<1>2. call \in Call
  <2> DEFINE c == NewCall(0, TRUE)
  <2>1. c \in Call
    BY <1>1, NewCallType
  <2>2. call = [c EXCEPT !.at = "none"]
    BY DEF Init
  <2> HIDE DEF c
  <2> QED BY <2>1, <2>2 DEF Call
<1>3. NoSession \in ResponderSession
  BY DEF NoSession, ResponderSession
<1>4. store \in [Peer -> SUBSET Op]
  BY DEF Init, Assumptions, Peer
<1> QED BY <1>2, <1>3, <1>4 DEF Init, TypeOK

(* Each action keeps the types, and sends or takes these messages. *)

\* What syncOnce does up to the ack it awaits.
LEMMA SyncOnceStep ==
  ASSUME TypeOK, SyncOnce, MaxSyncs \in Nat
  PROVE  /\ TypeOK' /\ call.id + 1 \in Id /\ call'.id = call.id + 1
         /\ call.at \in {"none", "ok", "failed"}
         /\ call'.at = "ack" /\ call'.ack = "pending" /\ call'.received = "pending"
         /\ call'.status = "pending" /\ ~call'.done /\ call'.credits = 1
         /\ ~call'.awaitingUploadAck
         /\ promised' = [p \in Peer |-> {}]
         /\ UNCHANGED <<store, sessions, awaiting, sending, queue>>
         /\ \E m \in Message : /\ Is(m, "hello", call'.id) /\ m.request = call'.empty
                               /\ chan'["r"] = Append(chan["r"], m)
         /\ chan'["i"] = chan["i"]
<1> DEFINE id == call.id + 1
           empty == store["i"] = {}
           m == [type |-> "hello", id |-> id, request |-> empty]
<1>1. id \in Id /\ id \in 0 .. MaxSyncs /\ call.at \in {"none", "ok", "failed"}
  BY DEF SyncOnce, TypeOK, Call, Id
<1>2. m \in Message
  BY <1>1 DEF Message
<1>3. call' = NewCall(id, empty) /\ chan' = SendTo("r", << m >>)
      /\ promised' = [p \in Peer |-> {}]
      /\ UNCHANGED <<store, sessions, awaiting, sending, queue>>
  BY DEF SyncOnce
<1>4. call' \in Call /\ call'.id = id /\ call'.empty = empty
  BY <1>1, <1>3, NewCallType DEF NewCall
<1>5. /\ call'.at = "ack" /\ call'.ack = "pending" /\ call'.received = "pending"
      /\ call'.status = "pending" /\ ~call'.done /\ call'.credits = 1
      /\ ~call'.awaitingUploadAck
  BY <1>3 DEF NewCall
<1>6. /\ chan'["r"] = Append(chan["r"], m) /\ chan'["i"] = chan["i"]
      /\ chan' \in [Peer -> Seq(Message)]
  BY <1>2, <1>3, SendOne DEF Peer, Other
<1>7. TypeOK'
  BY <1>3, <1>4, <1>6 DEF TypeOK
<1>8. Is(m, "hello", call'.id) /\ m.request = call'.empty
  BY <1>4 DEF Is
<1> QED BY <1>1, <1>2, <1>3, <1>4, <1>5, <1>6, <1>7, <1>8

\* What syncOnce does after the ack.
LEMMA AfterAckStep ==
  ASSUME TypeOK, AfterAck, Sendable \in [Peer -> SUBSET Op]
  PROVE  /\ TypeOK' /\ call.at = "ack" /\ call.ack = "resolved"
         /\ UNCHANGED <<store, chan, sessions, awaiting, sending, queue>>
         /\ \/ /\ call.empty /\ call.mode = "direct" /\ promised' = promised
               /\ Becomes("receive", call.mode, call.refs, call.ack, call.status, call.received,
                          call.missing, call.credits, call.awaitingUploadAck, call.done)
            \/ /\ call.mode = "empty" /\ \E refs \in SUBSET Op :
                  /\ refs = store["i"] \cap Sendable["i"]
                  /\ promised'["i"] = promised["i"] /\ promised'["r"] = refs
                  /\ Becomes("upload", call.mode, refs, call.ack, call.status, call.received,
                             refs, call.credits, TRUE, call.done)
            \/ /\ call.mode # "empty" /\ ~(call.empty /\ call.mode = "direct")
               /\ promised' = promised
               /\ \E refs \in SUBSET Op :
                  /\ refs = store["i"] \cap Sendable["i"]
                  /\ Becomes("riblt", call.mode, refs, call.ack, call.status, call.received,
                             call.missing, call.credits, call.awaitingUploadAck, call.done)
<1> DEFINE refs == store["i"] \cap Sendable["i"]
<1>1. refs \in SUBSET Op /\ call \in Call /\ promised \in [Peer -> SUBSET Op]
  BY DEF TypeOK, Peer
<1>2. call.at = "ack" /\ call.ack = "resolved"
      /\ UNCHANGED <<store, chan, sessions, awaiting, sending, queue>>
  BY DEF AfterAck
<1> HIDE DEF refs
<1>3. CASE call.empty /\ call.mode = "direct"
  <2>1. call' = [call EXCEPT !.at = "receive"] /\ promised' = promised
    BY <1>3 DEF AfterAck
  <2>2. Becomes("receive", call.mode, call.refs, call.ack, call.status, call.received,
                call.missing, call.credits, call.awaitingUploadAck, call.done)
    BY <1>1, <2>1 DEF Call, Becomes
  <2>3. TypeOK'
    BY <1>2, <2>1, <2>2 DEF TypeOK, Becomes
  <2> QED BY <1>2, <1>3, <2>1, <2>2, <2>3
<1>4. CASE call.mode = "empty"
  <2>1. call' = [call EXCEPT !.at = "upload", !.refs = refs, !.missing = refs,
                             !.awaitingUploadAck = TRUE]
        /\ promised' = [promised EXCEPT !["r"] = refs]
    BY <1>4 DEF AfterAck, refs
  <2>2. Becomes("upload", call.mode, refs, call.ack, call.status, call.received,
                refs, call.credits, TRUE, call.done)
    BY <1>1, <2>1 DEF Call, Becomes
  <2>3. promised' \in [Peer -> SUBSET Op] /\ promised'["i"] = promised["i"]
        /\ promised'["r"] = refs
    BY <1>1, <2>1 DEF Peer
  <2>4. TypeOK'
    BY <1>2, <2>2, <2>3 DEF TypeOK, Becomes
  <2> QED BY <1>1, <1>2, <1>4, <2>2, <2>3, <2>4 DEF refs
<1>5. CASE call.mode # "empty" /\ ~(call.empty /\ call.mode = "direct")
  <2>1. call' = [call EXCEPT !.at = "riblt", !.refs = refs] /\ promised' = promised
    BY <1>5 DEF AfterAck, refs
  <2>2. Becomes("riblt", call.mode, refs, call.ack, call.status, call.received,
                call.missing, call.credits, call.awaitingUploadAck, call.done)
    BY <1>1, <2>1 DEF Call, Becomes
  <2>3. TypeOK'
    BY <1>2, <2>1, <2>2 DEF TypeOK, Becomes
  <2> QED BY <1>1, <1>2, <1>5, <2>1, <2>2, <2>3 DEF refs
<1> QED BY <1>3, <1>4, <1>5

\* What a message of codewords does.
LEMMA SendCodewordsStep ==
  ASSUME TypeOK, SendCodewords, GoesOnAccepted, PerMessage \in Int, MaxCodewords \in [Peer -> Int]
  PROVE  /\ TypeOK' /\ call.at = "riblt" /\ ~call.done /\ call.credits > 0 /\ call.id \in Id
         /\ UNCHANGED <<store, sessions, awaiting, sending, queue, promised>>
         /\ Becomes(call.at, call.mode, call.refs, call.ack, call.status, call.received,
                    call.missing, call.credits - 1, call.awaitingUploadAck, call.done)
         /\ \E m \in Message : /\ Is(m, "ribltCodewords", call.id) /\ m.refs = call.refs
                               /\ chan'["r"] = Append(chan["r"], m)
         /\ chan'["i"] = chan["i"]
<1> DEFINE n == Min({PerMessage, MaxCodewords["i"] - call.next})
           m == [type |-> "ribltCodewords", id |-> call.id, start |-> call.next, n |-> n,
                 refs |-> call.refs]
<1>1. call \in Call /\ call.next \in Int /\ call.credits \in Int /\ call.refs \in SUBSET Op
      /\ call.id \in Id
  BY DEF TypeOK, Call, SendCodewords, GoesOnAccepted
<1>2. n \in Int
  <2>1. MaxCodewords["i"] - call.next \in Int
    BY <1>1 DEF Peer
  <2> QED BY <2>1, MinOfTwo
<1> HIDE DEF n
<1>3. m \in Message
  BY <1>1, <1>2 DEF Message
<1>4. call' = [call EXCEPT !.credits = @ - 1, !.next = @ + n] /\ chan' = SendTo("r", << m >>)
      /\ call.at = "riblt" /\ ~call.done /\ call.credits > 0
      /\ UNCHANGED <<store, sessions, awaiting, sending, queue, promised>>
  BY DEF SendCodewords, HasCredit, n
<1>5. Becomes(call.at, call.mode, call.refs, call.ack, call.status, call.received,
              call.missing, call.credits - 1, call.awaitingUploadAck, call.done)
  <2> DEFINE credits == call.credits - 1
             next == call.next + n
  <2>1. credits \in Int /\ next \in Int
    BY <1>1, <1>2
  <2>2. call' = [call EXCEPT !.credits = credits, !.next = next]
    BY <1>4
  <2> HIDE DEF credits, next
  <2>3. Becomes(call.at, call.mode, call.refs, call.ack, call.status, call.received,
                call.missing, credits, call.awaitingUploadAck, call.done)
    BY <1>1, <2>1, <2>2 DEF Call, Becomes
  <2> QED BY <2>3 DEF credits
<1>6. /\ chan'["r"] = Append(chan["r"], m) /\ chan'["i"] = chan["i"]
      /\ chan' \in [Peer -> Seq(Message)]
  BY <1>3, <1>4, SendOne DEF Peer, Other
<1>7. TypeOK'
  BY <1>4, <1>5, <1>6 DEF Becomes, TypeOK
<1>8. Is(m, "ribltCodewords", call.id) /\ m.refs = call.refs
  BY DEF Is
<1> QED BY <1>1, <1>3, <1>4, <1>5, <1>6, <1>7, <1>8

\* The channels c after a chunk of refs is sent by p.
Carries(c, p, id, chunk, refs) ==
    /\ chunk \subseteq refs /\ c \in [Peer -> Seq(Message)] /\ c[p] = chan[p]
    /\ \/ /\ chunk # refs /\ chunk \cap Sendable[p] = {}
          /\ c[Other(p)] = chan[Other(p)]
       \/ \E m \in Message :
            /\ m = Batch(id, chunk \cap Sendable[p], chunk = refs)
            /\ c[Other(p)] = Append(chan[Other(p)], m)

\* A chunk is a set of what is to be sent; its messages carry what may be sent of it.
LEMMA ChunkSent ==
  ASSUME TypeOK, Sendable \in [Peer -> SUBSET Op], NEW p \in Peer, NEW id \in Id,
         NEW refs, refs \subseteq Op, NEW chunk \in Chunks(refs)
  PROVE  Carries(SendTo(Other(p), ChunkMessages(p, id, chunk, refs)), p, id, chunk, refs)
<1> DEFINE q == Other(p)
           m == Batch(id, chunk \cap Sendable[p], chunk = refs)
           c == SendTo(Other(p), ChunkMessages(p, id, chunk, refs))
<1>1. chunk \subseteq refs
  BY DEF Chunks, kSubset
<1>2. q \in Peer /\ Other(q) = p /\ chan \in [Peer -> Seq(Message)]
  BY DEF Other, Peer, TypeOK
<1>3. m \in Message
  <2>1. chunk \cap Sendable[p] \in SUBSET Op /\ (chunk = refs) \in BOOLEAN
    BY <1>1
  <2> QED BY <2>1, MessageTypes
<1>4. \/ /\ chunk # refs /\ chunk \cap Sendable[p] = {}
         /\ c = SendTo(q, <<>>)
      \/ c = SendTo(q, << m >>)
  BY DEF ChunkMessages
<1> HIDE DEF m, q, c
<1>5. /\ SendTo(q, << m >>)[q] = Append(chan[q], m)
      /\ SendTo(q, << m >>)[p] = chan[p]
      /\ SendTo(q, << m >>) \in [Peer -> Seq(Message)]
      /\ SendTo(q, <<>>) = chan
  BY <1>2, <1>3, SendOne
<1>6. Carries(c, p, id, chunk, refs)
  BY <1>1, <1>2, <1>3, <1>4, <1>5 DEF m, q, Carries
<1> QED BY <1>6 DEF c

\* What a chunk of the upload does.
LEMMA UploadStep ==
  ASSUME TypeOK, Upload, GoesOnAccepted, Sendable \in [Peer -> SUBSET Op]
  PROVE  \E chunk \in SUBSET call.missing :
           /\ TypeOK' /\ call.at = "upload" /\ call.id \in Id /\ chan'["i"] = chan["i"]
           /\ UNCHANGED <<store, sessions, awaiting, sending, queue, promised>>
           /\ Becomes(IF chunk = call.missing THEN "receive" ELSE "upload", call.mode, call.refs,
                      call.ack, call.status, call.received, call.missing \ chunk,
                      call.credits, call.awaitingUploadAck, call.done)
           /\ \/ /\ chunk # call.missing /\ chunk \cap Sendable["i"] = {}
                 /\ chan'["r"] = chan["r"]
              \/ \E m \in Message :
                    /\ m = Batch(call.id, chunk \cap Sendable["i"], chunk = call.missing)
                    /\ chan'["r"] = Append(chan["r"], m)
<1>1. call \in Call /\ call.id \in Id /\ call.missing \in SUBSET Op
  BY DEF TypeOK, Call, Upload, GoesOnAccepted
<1>2. PICK chunk \in Chunks(call.missing) :
          /\ chan' = SendTo("r", ChunkMessages("i", call.id, chunk, call.missing))
          /\ call' = [call EXCEPT !.missing = @ \ chunk,
                                  !.at = IF chunk = call.missing THEN "receive" ELSE "upload"]
  BY DEF Upload
<1>3. "i" \in Peer /\ Other("i") = "r" /\ chan' = SendTo(Other("i"), ChunkMessages("i", call.id, chunk, call.missing))
  BY <1>2 DEF Peer, Other
<1> DEFINE c == chan'
<1>4. c = SendTo(Other("i"), ChunkMessages("i", call.id, chunk, call.missing))
  BY <1>3
<1> HIDE DEF c
<1>5. /\ chunk \subseteq call.missing /\ c \in [Peer -> Seq(Message)]
      /\ c["i"] = chan["i"]
      /\ \/ /\ chunk # call.missing /\ chunk \cap Sendable["i"] = {}
            /\ c[Other("i")] = chan[Other("i")]
         \/ \E m \in Message :
              /\ m = Batch(call.id, chunk \cap Sendable["i"], chunk = call.missing)
              /\ c[Other("i")] = Append(chan[Other("i")], m)
  <2>1. call.missing \subseteq Op
    BY <1>1
  <2>2. Carries(c, "i", call.id, chunk, call.missing)
    BY <1>1, <1>3, <1>4, <2>1, ChunkSent
  <2> QED BY <2>2 DEF Carries
<1>6. Becomes(IF chunk = call.missing THEN "receive" ELSE "upload", call.mode, call.refs,
              call.ack, call.status, call.received, call.missing \ chunk,
              call.credits, call.awaitingUploadAck, call.done)
  <2> DEFINE at == IF chunk = call.missing THEN "receive" ELSE "upload"
             missing == call.missing \ chunk
  <2>1. call' = [call EXCEPT !.missing = missing, !.at = at] /\ missing \in SUBSET Op
        /\ at \in {"receive", "upload"}
    BY <1>1, <1>2
  <2> HIDE DEF at, missing
  <2>2. Becomes(at, call.mode, call.refs, call.ack, call.status, call.received, missing,
                call.credits, call.awaitingUploadAck, call.done)
    BY <1>1, <2>1 DEF Call, Becomes
  <2> QED BY <2>2 DEF at, missing
<1>7. call.at = "upload" /\ UNCHANGED <<store, sessions, awaiting, sending, queue, promised>>
  BY DEF Upload
<1>8. TypeOK'
  BY <1>5, <1>6, <1>7 DEF Becomes, TypeOK, c
<1> QED BY <1>1, <1>3, <1>5, <1>6, <1>7, <1>8 DEF c

\* The steps that only move syncOnce on.
LEMMA PlaceStep ==
  ASSUME TypeOK, GiveUp \/ AfterStatus \/ Return
  PROVE  /\ TypeOK'
         /\ UNCHANGED <<store, chan, sessions, awaiting, sending, queue, promised>>
         /\ \E at \in {"failed", "upload", "ok"} :
              /\ Becomes(at, call.mode, call.refs, call.ack, call.status, call.received,
                         call.missing, call.credits, call.awaitingUploadAck, call.done)
              /\ at = "upload" => AfterStatus
              /\ at = "ok" => call.at = "receive" /\ call.received = "resolved"
<1>1. call \in Call
  BY DEF TypeOK
<1>2. PICK at \in {"failed", "upload", "ok"} :
            /\ call' = [call EXCEPT !.at = at]
            /\ at = "upload" => AfterStatus
            /\ at = "ok" => call.at = "receive" /\ call.received = "resolved"
  BY DEF GiveUp, AfterStatus, Return
<1>3. Becomes(at, call.mode, call.refs, call.ack, call.status, call.received,
              call.missing, call.credits, call.awaitingUploadAck, call.done)
  BY <1>1, <1>2 DEF Call, Becomes
<1>4. UNCHANGED <<store, chan, sessions, awaiting, sending, queue, promised>>
  BY DEF GiveUp, AfterStatus, Return
<1>5. TypeOK'
  BY <1>3, <1>4 DEF TypeOK, Becomes
<1> QED BY <1>2, <1>3, <1>4, <1>5

\* The message at the head of a channel.
LEMMA HeadMessage ==
  ASSUME TypeOK, NEW p \in Peer, NEW type, Head_(p, type)
  PROVE  \E m \in Message :
           /\ chan[p] # <<>> /\ m = Head(chan[p]) /\ m.type = type /\ Is(m, type, m.id)
           /\ type # "error" => m.id \in Id
           /\ type = "helloAck" => m.accepted \in BOOLEAN /\ m.mode \in {"direct", "empty", "riblt"}
           /\ type = "ribltCodewords" => m.n \in Int /\ m.refs \in SUBSET Op
           /\ type = "ribltStatus" =>
                m.kind \in {"more", "decoded", "failed"} /\ m.missing \in SUBSET Op
           /\ type = "opsBatch" => m \in BatchMessage
<1>1. chan[p] # <<>> /\ Head(chan[p]).type = type
  BY DEF Head_
<1>2. chan[p] \in Seq(Message)
  BY DEF TypeOK
<1>3. Head(chan[p]) \in Message
  BY <1>1, <1>2, HeadTailProperties
<1> DEFINE m == Head(chan[p])
<1> HIDE DEF m
<1>4. m \in Message /\ m.type = type
  BY <1>1, <1>3 DEF m
<1>5. /\ type # "error" => m.id \in Id
      /\ type = "helloAck" => m.accepted \in BOOLEAN /\ m.mode \in {"direct", "empty", "riblt"}
      /\ type = "ribltCodewords" => m.n \in Int /\ m.refs \in SUBSET Op
      /\ type = "ribltStatus" =>
           m.kind \in {"more", "decoded", "failed"} /\ m.missing \in SUBSET Op
      /\ type = "opsBatch" => m \in BatchMessage
  BY <1>4 DEF Message, BatchMessage
<1> QED BY <1>1, <1>4, <1>5 DEF m, Is

\* What a refused Hello does.
LEMMA RefuseHelloStep ==
  ASSUME TypeOK, RefuseHello, MaxSyncs \in Nat
  PROVE  /\ TypeOK' /\ UNCHANGED <<store, call, sessions, awaiting, sending, queue, promised>>
         /\ \E m, n \in Message :
              /\ chan["r"] # <<>> /\ m = Head(chan["r"]) /\ Is(m, "hello", m.id) /\ m.id \in Id
              /\ chan'["r"] = Tail(chan["r"]) /\ chan'["i"] = Append(chan["i"], n)
              /\ Is(n, "error", 0) \/ (Is(n, "helloAck", m.id) /\ ~n.accepted)
<1>1. "r" \in Peer /\ Other("r") = "i" /\ Head_("r", "hello")
      /\ UNCHANGED <<store, call, sessions, awaiting, sending, queue, promised>>
  BY DEF RefuseHello, Peer, Other
<1>2. PICK m \in Message : /\ chan["r"] # <<>> /\ m = Head(chan["r"]) /\ Is(m, "hello", m.id)
                           /\ m.id \in Id
  BY <1>1, HeadMessage
<1>3. PICK n : /\ n \in { [type |-> "error", id |-> 0],
                          [type |-> "helloAck", id |-> m.id, accepted |-> FALSE, mode |-> "riblt"] }
               /\ chan' = Reply("r", << n >>)
  BY <1>2 DEF RefuseHello
<1>4. n \in Message
  <2>1. CASE n = [type |-> "error", id |-> 0]
    <3>1. 0 \in 0 .. MaxSyncs
      OBVIOUS
    <3> QED BY <2>1, <3>1 DEF Message
  <2>2. CASE n = [type |-> "helloAck", id |-> m.id, accepted |-> FALSE, mode |-> "riblt"]
    BY <1>2, <2>2 DEF Message
  <2> QED BY <1>3, <2>1, <2>2
<1>5. /\ chan'["r"] = Tail(chan["r"]) /\ chan'["i"] = Append(chan["i"], n)
      /\ chan' \in [Peer -> Seq(Message)]
  BY <1>1, <1>2, <1>3, <1>4, ReplyWith
<1>6. Is(n, "error", 0) \/ (Is(n, "helloAck", m.id) /\ ~n.accepted)
  BY <1>3 DEF Is
<1>7. TypeOK'
  BY <1>1, <1>5 DEF TypeOK
<1> QED BY <1>1, <1>2, <1>4, <1>5, <1>6, <1>7

\* What an accepted Hello does.
LEMMA OnHelloStep ==
  ASSUME TypeOK, OnHello, NothingHidden, Sendable \in [Peer -> SUBSET Op]
  PROVE  /\ TypeOK' /\ UNCHANGED <<store, call, queue>>
         /\ promised'["i"] = store["r"] \cap Sendable["r"] /\ promised'["r"] = promised["r"]
         /\ \E m, n \in Message, refs \in SUBSET Sendable["r"] :
              /\ chan["r"] # <<>> /\ m = Head(chan["r"]) /\ Is(m, "hello", m.id) /\ m.id \in Id
              /\ chan'["r"] = Tail(chan["r"]) /\ chan'["i"] = Append(chan["i"], n)
              /\ Is(n, "helloAck", m.id) /\ n.accepted
              /\ refs = store["r"] \cap Sendable["r"]
              /\ \/ /\ n.mode = "direct" /\ m.request
                    /\ sending' = [sending EXCEPT ![m.id] = [refs |-> refs, active |-> TRUE]]
                    /\ UNCHANGED <<sessions, awaiting>>
                 \/ /\ n.mode = "empty" /\ refs = {}
                    /\ awaiting' = awaiting \cup {m.id}
                    /\ UNCHANGED <<sessions, sending>>
                 \/ /\ n.mode = "riblt"
                    /\ sessions' = [sessions EXCEPT ![m.id] =
                                      [local |-> refs, expected |-> 0,
                                       incoming |-> FALSE, open |-> TRUE]]
                    /\ UNCHANGED <<awaiting, sending>>
<1> DEFINE refs == store["r"] \cap Sendable["r"]
           Ack(m, mode) == [type |-> "helloAck", id |-> m.id, accepted |-> TRUE, mode |-> mode]
<1>1. "r" \in Peer /\ "i" \in Peer /\ Other("r") = "i" /\ Head_("r", "hello")
      /\ UNCHANGED <<store, call, queue>> /\ promised' = [promised EXCEPT !["i"] = refs]
  BY DEF OnHello, Peer, Other
<1>2. PICK m \in Message : /\ chan["r"] # <<>> /\ m = Head(chan["r"]) /\ Is(m, "hello", m.id)
                           /\ m.id \in Id
  BY <1>1, HeadMessage
<1>3. refs \in SUBSET Sendable["r"] /\ refs \in SUBSET Op /\ LocalRefs = refs
  BY <1>1 DEF TypeOK, NothingHidden, LocalRefs
<1> HIDE DEF refs
<1>4. PICK mode \in {"direct", "empty", "riblt"} :
        /\ chan' = Reply("r", << Ack(m, mode) >>)
        /\ \/ /\ mode = "direct" /\ m.request
              /\ sending' = [sending EXCEPT ![m.id] = [refs |-> refs, active |-> TRUE]]
              /\ UNCHANGED <<sessions, awaiting>>
           \/ /\ mode = "empty" /\ refs = {}
              /\ awaiting' = awaiting \cup {m.id}
              /\ UNCHANGED <<sessions, sending>>
           \/ /\ mode = "riblt"
              /\ sessions' = [sessions EXCEPT ![m.id] =
                                [local |-> refs, expected |-> 0,
                                 incoming |-> FALSE, open |-> TRUE]]
              /\ UNCHANGED <<awaiting, sending>>
  BY <1>2, <1>3 DEF OnHello
<1> DEFINE n == Ack(m, mode)
<1>5. n \in Message /\ Is(n, "helloAck", m.id) /\ n.accepted /\ n.mode = mode
      /\ chan' = Reply("r", << n >>)
  BY <1>2, <1>4 DEF Message, Is
<1> HIDE DEF n
<1>6. /\ chan'["r"] = Tail(chan["r"]) /\ chan'["i"] = Append(chan["i"], n)
      /\ chan' \in [Peer -> Seq(Message)]
  BY <1>1, <1>2, <1>5, ReplyWith
<1>7. promised' \in [Peer -> SUBSET Op] /\ promised'["i"] = refs /\ promised'["r"] = promised["r"]
  BY <1>1, <1>3 DEF TypeOK, Peer
<1>8. /\ sessions' \in [Id -> ResponderSession]
      /\ awaiting' \subseteq Id
      /\ sending' \in [Id -> [refs : SUBSET Op, active : BOOLEAN]]
  <2>1. [local |-> refs, expected |-> 0, incoming |-> FALSE, open |-> TRUE] \in ResponderSession
        /\ [refs |-> refs, active |-> TRUE] \in [refs : SUBSET Op, active : BOOLEAN]
    BY <1>3 DEF ResponderSession
  <2>2. /\ sessions \in [Id -> ResponderSession] /\ awaiting \subseteq Id
        /\ sending \in [Id -> [refs : SUBSET Op, active : BOOLEAN]]
    BY DEF TypeOK
  <2>3. sessions' \in [Id -> ResponderSession]
    BY <1>4, <2>1, <2>2
  <2>4. awaiting' \subseteq Id
    BY <1>2, <1>4, <2>2
  <2>5. sending' \in [Id -> [refs : SUBSET Op, active : BOOLEAN]]
    BY <1>4, <2>1, <2>2
  <2> QED BY <2>3, <2>4, <2>5
<1>9. TypeOK'
  BY <1>1, <1>6, <1>7, <1>8 DEF TypeOK
<1> QED BY <1>1, <1>2, <1>3, <1>4, <1>5, <1>6, <1>7, <1>9 DEF refs

\* What the handler of a HelloAck does.
LEMMA OnHelloAckStep ==
  ASSUME TypeOK, OnHelloAck
  PROVE  /\ TypeOK' /\ UNCHANGED <<store, sessions, awaiting, sending, queue, promised>>
         /\ \E m \in Message :
              /\ chan["i"] # <<>> /\ m = Head(chan["i"]) /\ Is(m, "helloAck", m.id) /\ m.id \in Id
              /\ chan'["i"] = Tail(chan["i"]) /\ chan'["r"] = chan["r"]
              /\ \/ /\ call' = call /\ ~Registered(m.id)
                 \/ /\ Registered(m.id)
                    /\ Becomes(call.at, m.mode, call.refs,
                               Settle(call.ack, IF m.accepted THEN "resolved" ELSE "rejected"),
                               call.status, call.received, call.missing, call.credits,
                               call.awaitingUploadAck, call.done)
<1>1. "i" \in Peer /\ Other("i") = "r" /\ Head_("i", "helloAck") /\ chan' = Reply("i", <<>>)
      /\ UNCHANGED <<store, sessions, awaiting, sending, queue, promised>>
  BY DEF OnHelloAck, Peer, Other
<1>2. PICK m \in Message : /\ chan["i"] # <<>> /\ m = Head(chan["i"]) /\ Is(m, "helloAck", m.id)
                           /\ m.id \in Id /\ m.accepted \in BOOLEAN
                           /\ m.mode \in {"direct", "empty", "riblt"}
  BY <1>1, HeadMessage
<1>3. /\ chan'["i"] = Tail(chan["i"]) /\ chan'["r"] = chan["r"]
      /\ chan' \in [Peer -> Seq(Message)]
  BY <1>1, <1>2, ReplyWith
<1> DEFINE ack == Settle(call.ack, IF m.accepted THEN "resolved" ELSE "rejected")
           mode == m.mode
<1>4. call' = call \/ call' = [call EXCEPT !.ack = ack, !.mode = mode]
  BY <1>2 DEF OnHelloAck
<1>5. call \in Call /\ ack \in PromiseValue /\ mode \in {"direct", "empty", "riblt"}
  BY <1>2 DEF TypeOK, Settle, Call, PromiseValue
<1> HIDE DEF ack, mode
<1>6. CASE ~Registered(m.id)
  <2>1. call' = call
    BY <1>2, <1>6 DEF OnHelloAck
  <2>2. TypeOK'
    BY <1>1, <1>3, <2>1 DEF TypeOK
  <2> QED BY <1>1, <1>2, <1>3, <1>6, <2>1, <2>2
<1>7. CASE Registered(m.id)
  <2>1. call' = [call EXCEPT !.ack = ack, !.mode = mode]
    BY <1>2, <1>7 DEF OnHelloAck, ack, mode
  <2>2. Becomes(call.at, mode, call.refs, ack, call.status, call.received, call.missing,
                call.credits, call.awaitingUploadAck, call.done)
    BY <1>5, <2>1 DEF Call, Becomes
  <2>3. TypeOK'
    BY <1>1, <1>3, <2>2 DEF TypeOK, Becomes
  <2> QED BY <1>1, <1>2, <1>3, <1>7, <2>2, <2>3 DEF ack, mode
<1> QED BY <1>6, <1>7

\* The four answers to codewords: none without a session, a status that is not
\* terminal or a failure, the status and the done of sets that do not differ, and the
\* status before what the initiator misses.
AnswersNothing(m) ==
    ~sessions[m.id].open /\ UNCHANGED <<sessions, sending>> /\ chan'["i"] = chan["i"]
AnswersFurther(m) ==
    /\ sessions[m.id].open /\ UNCHANGED sending
    /\ \E n \in Message, kind \in {"failed", "more"} :
          n = Status(m.id, kind, {}) /\ chan'["i"] = Append(chan["i"], n)
    /\ \/ sessions' = [sessions EXCEPT ![m.id] = NoSession]
       \/ \E e \in Int : sessions' = [sessions EXCEPT ![m.id].expected = e]
AnswersSame(m) ==
    /\ sessions[m.id].open /\ sessions[m.id].local = m.refs
    /\ \E n, b \in Message : /\ n = Status(m.id, "decoded", {}) /\ b = Batch(m.id, {}, TRUE)
                             /\ chan'["i"] = Append(Append(chan["i"], n), b)
    /\ sending' = [sending EXCEPT ![m.id] = [refs |-> {}, active |-> FALSE]]
    /\ sessions' = [sessions EXCEPT ![m.id] = NoSession]
AnswersMissing(m, missing, refs) ==
    /\ sessions[m.id].open /\ (missing # {} \/ refs # {})
    /\ missing = m.refs \ sessions[m.id].local /\ refs = sessions[m.id].local \ m.refs
    /\ \E n \in Message : n = Status(m.id, "decoded", missing) /\ chan'["i"] = Append(chan["i"], n)
    /\ sending' = [sending EXCEPT ![m.id] = [refs |-> refs, active |-> refs # {}]]
    /\ \E e \in Int : sessions' = [sessions EXCEPT ![m.id] =
                          [sessions[m.id] EXCEPT !.expected = e, !.incoming = missing # {}]]

\* What the handler of codewords does.
LEMMA OnRibltCodewordsStep ==
  ASSUME TypeOK, OnRibltCodewords, MaxCodewords \in [Peer -> Int]
  PROVE  /\ TypeOK' /\ UNCHANGED <<store, call, awaiting, queue, promised>>
         /\ \E m \in Message :
              /\ chan["r"] # <<>> /\ m = Head(chan["r"]) /\ Is(m, "ribltCodewords", m.id)
              /\ m.id \in Id /\ m.refs \in SUBSET Op /\ chan'["r"] = Tail(chan["r"])
              /\ \/ AnswersNothing(m) \/ AnswersFurther(m) \/ AnswersSame(m)
                 \/ \E missing, refs \in SUBSET Op : AnswersMissing(m, missing, refs)
<1>1. "r" \in Peer /\ "i" \in Peer /\ Other("r") = "i" /\ Head_("r", "ribltCodewords")
      /\ UNCHANGED <<store, call, awaiting, queue, promised>>
  BY DEF OnRibltCodewords, Peer, Other
<1>2. PICK m \in Message : /\ chan["r"] # <<>> /\ m = Head(chan["r"]) /\ Is(m, "ribltCodewords", m.id)
                           /\ m.id \in Id /\ m.n \in Int /\ m.refs \in SUBSET Op
  BY <1>1, HeadMessage
<1> DEFINE s == sessions[m.id]
           missing == m.refs \ s.local
           refs == s.local \ m.refs
           e == Min({s.expected + m.n, MaxCodewords["r"]})
<1>3. /\ sessions \in [Id -> ResponderSession] /\ s \in ResponderSession
      /\ sending \in [Id -> [refs : SUBSET Op, active : BOOLEAN]]
  BY <1>2 DEF TypeOK
<1>4. s.expected \in Int /\ missing \in SUBSET Op /\ refs \in SUBSET Op
  BY <1>2, <1>3 DEF ResponderSession
<1>5. e \in Int
  <2>1. s.expected + m.n \in Int /\ MaxCodewords["r"] \in Int
    BY <1>1, <1>2, <1>4
  <2> QED BY <2>1, MinOfTwo
<1>6. NoSession \in ResponderSession
  BY DEF NoSession, ResponderSession
<1>7. /\ \A kind \in {"more", "decoded", "failed"}, ops \in SUBSET Op :
            Status(m.id, kind, ops) \in Message
      /\ Batch(m.id, {}, TRUE) \in Message
  BY <1>2, MessageTypes
<1>8. \/ /\ ~s.open /\ chan' = Reply("r", <<>>) /\ UNCHANGED <<sessions, sending>>
      \/ /\ s.open /\ UNCHANGED sending
         /\ chan' = Reply("r", << Status(m.id, "failed", {}) >>)
         /\ sessions' = [sessions EXCEPT ![m.id] = NoSession]
      \/ /\ s.open /\ UNCHANGED sending
         /\ chan' = Reply("r", << Status(m.id, "more", {}) >>)
         /\ sessions' = [sessions EXCEPT ![m.id].expected = e]
      \/ /\ s.open /\ missing = {} /\ refs = {}
         /\ chan' = Reply("r", << Status(m.id, "decoded", missing), Batch(m.id, {}, TRUE) >>)
         /\ sending' = [sending EXCEPT ![m.id] = [refs |-> refs, active |-> refs # {}]]
         /\ sessions' = [sessions EXCEPT ![m.id] = NoSession]
      \/ /\ s.open /\ (missing # {} \/ refs # {})
         /\ chan' = Reply("r", << Status(m.id, "decoded", missing) >>)
         /\ sending' = [sending EXCEPT ![m.id] = [refs |-> refs, active |-> refs # {}]]
         /\ sessions' = [sessions EXCEPT ![m.id] =
                           [s EXCEPT !.expected = e, !.incoming = missing # {}]]
  BY <1>2 DEF OnRibltCodewords
<1> HIDE DEF e
<1>9. CASE ~s.open /\ chan' = Reply("r", <<>>) /\ UNCHANGED <<sessions, sending>>
  <2>1. /\ chan'["r"] = Tail(chan["r"]) /\ chan'["i"] = chan["i"]
        /\ chan' \in [Peer -> Seq(Message)]
    BY <1>1, <1>2, <1>9, ReplyWith
  <2>2. TypeOK'
    BY <1>1, <1>9, <2>1 DEF TypeOK
  <2> QED BY <1>1, <1>2, <1>9, <2>1, <2>2 DEF AnswersNothing
<1>10. ASSUME s.open, UNCHANGED sending, NEW kind \in {"failed", "more"},
              chan' = Reply("r", << Status(m.id, kind, {}) >>),
              \/ sessions' = [sessions EXCEPT ![m.id] = NoSession]
              \/ sessions' = [sessions EXCEPT ![m.id].expected = e]
       PROVE  /\ TypeOK' /\ chan'["r"] = Tail(chan["r"])
              /\ \E n \in Message : n = Status(m.id, kind, {}) /\ chan'["i"] = Append(chan["i"], n)
  <2> DEFINE n == Status(m.id, kind, {})
  <2>1. n \in Message /\ chan' = Reply("r", << n >>)
    BY <1>7, <1>10
  <2> HIDE DEF n
  <2>2. /\ chan'["r"] = Tail(chan["r"]) /\ chan'["i"] = Append(chan["i"], n)
        /\ chan' \in [Peer -> Seq(Message)]
    BY <1>1, <1>2, <2>1, ReplyWith
  <2>3. sessions' \in [Id -> ResponderSession]
    <3>1. CASE sessions' = [sessions EXCEPT ![m.id] = NoSession]
      BY <1>3, <1>6, <3>1
    <3>2. CASE sessions' = [sessions EXCEPT ![m.id].expected = e]
      <4>1. [s EXCEPT !.expected = e] \in ResponderSession
        BY <1>3, <1>5 DEF ResponderSession
      <4>2. sessions' = [sessions EXCEPT ![m.id] = [s EXCEPT !.expected = e]]
        BY <3>2
      <4> QED BY <1>3, <4>1, <4>2
    <3> QED BY <1>10, <3>1, <3>2
  <2>4. TypeOK'
    BY <1>1, <1>10, <2>2, <2>3 DEF TypeOK
  <2> QED BY <2>1, <2>2, <2>4 DEF n
<1>11. CASE /\ s.open /\ missing = {} /\ refs = {}
            /\ chan' = Reply("r", << Status(m.id, "decoded", missing), Batch(m.id, {}, TRUE) >>)
            /\ sending' = [sending EXCEPT ![m.id] = [refs |-> refs, active |-> refs # {}]]
            /\ sessions' = [sessions EXCEPT ![m.id] = NoSession]
  <2> DEFINE n == Status(m.id, "decoded", {})
             b == Batch(m.id, {}, TRUE)
  <2>7. sending' = [sending EXCEPT ![m.id] = [refs |-> {}, active |-> FALSE]]
    BY <1>11
  <2>1. n \in Message /\ b \in Message /\ chan' = Reply("r", << n, b >>)
    BY <1>7, <1>11
  <2> HIDE DEF n, b
  <2>2. /\ chan'["r"] = Tail(chan["r"]) /\ chan'["i"] = Append(Append(chan["i"], n), b)
        /\ chan' \in [Peer -> Seq(Message)]
    <3>1. chan["r"] # <<>> /\ "r" \in Peer /\ Other("r") = "i"
      BY <1>1, <1>2
    <3>2. /\ Reply("r", << n, b >>)["r"] = Tail(chan["r"])
          /\ Reply("r", << n, b >>)[Other("r")] = Append(Append(chan[Other("r")], n), b)
          /\ Reply("r", << n, b >>) \in [Peer -> Seq(Message)]
      BY <2>1, <3>1, ReplyTwo
    <3> QED BY <2>1, <3>1, <3>2
  <2>3. sessions' \in [Id -> ResponderSession]
    BY <1>3, <1>6, <1>11
  <2>4. sending' \in [Id -> [refs : SUBSET Op, active : BOOLEAN]]
    BY <1>3, <2>7
  <2>5. TypeOK'
    BY <1>1, <2>2, <2>3, <2>4 DEF TypeOK
  <2>6. s.local = m.refs
    BY <1>11
  <2>8. AnswersSame(m)
    BY <1>11, <2>7, <2>1, <2>2, <2>6 DEF n, b, AnswersSame
  <2> QED BY <1>1, <1>2, <2>2, <2>5, <2>8
<1>12. CASE /\ s.open /\ (missing # {} \/ refs # {})
            /\ chan' = Reply("r", << Status(m.id, "decoded", missing) >>)
            /\ sending' = [sending EXCEPT ![m.id] = [refs |-> refs, active |-> refs # {}]]
            /\ sessions' = [sessions EXCEPT ![m.id] =
                              [s EXCEPT !.expected = e, !.incoming = missing # {}]]
  <2> DEFINE n == Status(m.id, "decoded", missing)
             t == [s EXCEPT !.expected = e, !.incoming = missing # {}]
  <2>1. n \in Message /\ chan' = Reply("r", << n >>)
    BY <1>4, <1>7, <1>12
  <2> HIDE DEF n
  <2>2. /\ chan'["r"] = Tail(chan["r"]) /\ chan'["i"] = Append(chan["i"], n)
        /\ chan' \in [Peer -> Seq(Message)]
    BY <1>1, <1>2, <2>1, ReplyWith
  <2>3. t \in ResponderSession
    BY <1>3, <1>5 DEF ResponderSession
  <2>4. sessions' \in [Id -> ResponderSession]
    <3> HIDE DEF t
    <3>1. sessions' = [sessions EXCEPT ![m.id] = t]
      BY <1>12 DEF t
    <3> QED BY <1>3, <2>3, <3>1
  <2>5. sending' \in [Id -> [refs : SUBSET Op, active : BOOLEAN]]
    <3>1. [refs |-> refs, active |-> refs # {}] \in [refs : SUBSET Op, active : BOOLEAN]
      BY <1>4
    <3> QED BY <1>3, <1>12, <3>1
  <2>6. TypeOK'
    BY <1>1, <2>2, <2>4, <2>5 DEF TypeOK
  <2>7. AnswersMissing(m, missing, refs)
    BY <1>5, <1>12, <2>1, <2>2 DEF n, AnswersMissing
  <2> HIDE DEF missing, refs
  <2> QED BY <1>1, <1>2, <1>4, <2>2, <2>6, <2>7
<1>13. CASE \/ /\ s.open /\ UNCHANGED sending
               /\ chan' = Reply("r", << Status(m.id, "failed", {}) >>)
               /\ sessions' = [sessions EXCEPT ![m.id] = NoSession]
            \/ /\ s.open /\ UNCHANGED sending
               /\ chan' = Reply("r", << Status(m.id, "more", {}) >>)
               /\ sessions' = [sessions EXCEPT ![m.id].expected = e]
  <2>1. PICK kind \in {"failed", "more"} : chan' = Reply("r", << Status(m.id, kind, {}) >>)
    BY <1>13
  <2>2. AnswersFurther(m) /\ TypeOK' /\ chan'["r"] = Tail(chan["r"])
    BY <1>5, <1>10, <1>13, <2>1 DEF AnswersFurther
  <2> QED BY <1>1, <1>2, <2>2
<1> QED BY <1>8, <1>9, <1>11, <1>12, <1>13 DEF e

\* What a chunk of the responder's batches does.
LEMMA SendMissingStep ==
  ASSUME TypeOK, NEW id \in Id, SendMissing(id), Sendable \in [Peer -> SUBSET Op]
  PROVE  \E chunk \in SUBSET sending[id].refs :
           /\ TypeOK' /\ sending[id].active /\ chan'["r"] = chan["r"]
           /\ UNCHANGED <<store, call, awaiting, queue, promised>>
           /\ sending' = [sending EXCEPT ![id] = [refs |-> sending[id].refs \ chunk,
                                                  active |-> chunk # sending[id].refs]]
           /\ sessions' = IF chunk = sending[id].refs /\ ~sessions[id].incoming
                          THEN [sessions EXCEPT ![id] = NoSession] ELSE sessions
           /\ \/ /\ chunk # sending[id].refs /\ chunk \cap Sendable["r"] = {}
                 /\ chan'["i"] = chan["i"]
              \/ \E m \in Message :
                    /\ m = Batch(id, chunk \cap Sendable["r"], chunk = sending[id].refs)
                    /\ chan'["i"] = Append(chan["i"], m)
<1> DEFINE refs == sending[id].refs
<1>1. /\ sending \in [Id -> [refs : SUBSET Op, active : BOOLEAN]] /\ refs \in SUBSET Op
      /\ refs \subseteq Op /\ sessions \in [Id -> ResponderSession]
  BY DEF TypeOK
<1>2. PICK chunk \in Chunks(refs) :
        /\ chan' = SendTo("i", ChunkMessages("r", id, chunk, refs))
        /\ sending' = [sending EXCEPT ![id] = [refs |-> refs \ chunk, active |-> chunk # refs]]
        /\ sessions' = IF chunk = refs /\ ~sessions[id].incoming
                       THEN [sessions EXCEPT ![id] = NoSession] ELSE sessions
  BY <1>1 DEF SendMissing
<1>3. sending[id].active /\ UNCHANGED <<store, call, awaiting, queue, promised>>
  BY DEF SendMissing
<1> HIDE DEF refs
<1> DEFINE c == chan'
<1>4. "r" \in Peer /\ Other("r") = "i" /\ c = SendTo(Other("r"), ChunkMessages("r", id, chunk, refs))
  BY <1>2 DEF Peer, Other
<1> HIDE DEF c
<1>5. Carries(c, "r", id, chunk, refs)
  <2>1. Carries(SendTo(Other("r"), ChunkMessages("r", id, chunk, refs)), "r", id, chunk, refs)
    <3>1. "r" \in Peer
      BY <1>4
    <3> QED BY <1>1, <1>2, <3>1, ChunkSent
  <2> QED BY <1>4, <2>1
<1>6. /\ chunk \subseteq refs /\ c \in [Peer -> Seq(Message)] /\ c["r"] = chan["r"]
      /\ \/ /\ chunk # refs /\ chunk \cap Sendable["r"] = {} /\ c["i"] = chan["i"]
         \/ \E m \in Message : /\ m = Batch(id, chunk \cap Sendable["r"], chunk = refs)
                               /\ c["i"] = Append(chan["i"], m)
  BY <1>4, <1>5 DEF Carries
<1>7. sending' \in [Id -> [refs : SUBSET Op, active : BOOLEAN]]
  <2>1. [refs |-> refs \ chunk, active |-> chunk # refs] \in [refs : SUBSET Op, active : BOOLEAN]
    BY <1>1
  <2> QED BY <1>1, <1>2, <2>1
<1>8. sessions' \in [Id -> ResponderSession]
  <2>1. NoSession \in ResponderSession
    BY DEF NoSession, ResponderSession
  <2> QED BY <1>1, <1>2, <2>1
<1>9. TypeOK'
  BY <1>3, <1>6, <1>7, <1>8 DEF TypeOK, c
<1> QED BY <1>2, <1>3, <1>6, <1>9 DEF refs, c

\* What the handler of a status does.
LEMMA OnRibltStatusStep ==
  ASSUME TypeOK, OnRibltStatus
  PROVE  /\ TypeOK' /\ UNCHANGED <<store, sessions, awaiting, sending, queue>>
         /\ \E m \in Message :
              /\ chan["i"] # <<>> /\ m = Head(chan["i"]) /\ Is(m, "ribltStatus", m.id) /\ m.id \in Id
              /\ m.kind \in {"more", "decoded", "failed"} /\ m.missing \in SUBSET Op
              /\ chan'["i"] = Tail(chan["i"]) /\ chan'["r"] = chan["r"]
              /\ promised'["i"] = promised["i"]
              /\ \/ call' = call /\ promised' = promised /\ (~Registered(m.id) \/ call.done)
                 \/ /\ Registered(m.id) /\ ~call.done /\ m.kind = "more" /\ promised' = promised
                    /\ Becomes(call.at, call.mode, call.refs, call.ack, call.status,
                               call.received, call.missing, call.credits + 1,
                               call.awaitingUploadAck, call.done)
                 \/ /\ Registered(m.id) /\ ~call.done /\ m.kind # "more"
                    /\ promised'["r"] = IF m.kind = "decoded" THEN m.missing ELSE promised["r"]
                    /\ Becomes(call.at, call.mode, call.refs, call.ack, Settle(call.status, m.kind),
                               call.received, m.missing, call.credits, m.missing # {}, TRUE)
<1>1. "i" \in Peer /\ Other("i") = "r" /\ Head_("i", "ribltStatus") /\ chan' = Reply("i", <<>>)
      /\ UNCHANGED <<store, sessions, awaiting, sending, queue>>
  BY DEF OnRibltStatus, Peer, Other
<1>2. PICK m \in Message : /\ chan["i"] # <<>> /\ m = Head(chan["i"]) /\ Is(m, "ribltStatus", m.id)
                           /\ m.id \in Id /\ m.kind \in {"more", "decoded", "failed"}
                           /\ m.missing \in SUBSET Op
  BY <1>1, HeadMessage
<1>3. /\ chan'["i"] = Tail(chan["i"]) /\ chan'["r"] = chan["r"]
      /\ chan' \in [Peer -> Seq(Message)]
  BY <1>1, <1>2, ReplyWith
<1>4. call \in Call /\ call.credits \in Int /\ promised \in [Peer -> SUBSET Op]
  BY DEF TypeOK, Call
<1>5. promised' = IF Registered(m.id) /\ ~call.done /\ m.kind = "decoded"
                  THEN [promised EXCEPT !["r"] = m.missing] ELSE promised
  BY <1>2 DEF OnRibltStatus
<1>6. promised' \in [Peer -> SUBSET Op] /\ promised'["i"] = promised["i"]
  BY <1>2, <1>4, <1>5 DEF Peer
<1>7. CASE ~Registered(m.id) \/ call.done
  <2>1. call' = call /\ promised' = promised
    BY <1>2, <1>5, <1>7 DEF OnRibltStatus
  <2>2. TypeOK'
    BY <1>1, <1>3, <1>6, <2>1 DEF TypeOK
  <2> QED BY <1>1, <1>2, <1>3, <1>6, <1>7, <2>1, <2>2
<1>8. CASE Registered(m.id) /\ ~call.done /\ m.kind = "more"
  <2> DEFINE credits == call.credits + 1
  <2>1. call' = [call EXCEPT !.credits = credits] /\ promised' = promised
    BY <1>2, <1>5, <1>8 DEF OnRibltStatus, Credited
  <2>2. credits \in Int
    BY <1>4
  <2> HIDE DEF credits
  <2>3. Becomes(call.at, call.mode, call.refs, call.ack, call.status, call.received, call.missing,
                credits, call.awaitingUploadAck, call.done)
    BY <1>4, <2>1, <2>2 DEF Call, Becomes
  <2>4. TypeOK'
    BY <1>1, <1>3, <1>6, <2>3 DEF TypeOK, Becomes
  <2> QED BY <1>1, <1>2, <1>3, <1>6, <1>8, <2>1, <2>3, <2>4 DEF credits
<1>9. CASE Registered(m.id) /\ ~call.done /\ m.kind # "more"
  <2> DEFINE status == Settle(call.status, m.kind)
             missing == m.missing
  <2>1. call' = [call EXCEPT !.done = TRUE, !.missing = missing, !.status = status,
                             !.awaitingUploadAck = missing # {}]
    BY <1>2, <1>9 DEF OnRibltStatus
  <2>2. status \in StatusValue /\ missing \in SUBSET Op
    BY <1>2, <1>4, <1>9 DEF Settle, Call, StatusValue
  <2> HIDE DEF status, missing
  <2>3. Becomes(call.at, call.mode, call.refs, call.ack, status, call.received, missing,
                call.credits, missing # {}, TRUE)
    BY <1>4, <2>1, <2>2 DEF Call, Becomes
  <2>4. TypeOK'
    BY <1>1, <1>3, <1>6, <2>3 DEF TypeOK, Becomes
  <2>5. promised'["r"] = IF m.kind = "decoded" THEN m.missing ELSE promised["r"]
    BY <1>4, <1>5, <1>9 DEF Peer
  <2> QED BY <1>1, <1>2, <1>3, <1>6, <1>9, <2>3, <2>4, <2>5 DEF status, missing
<1> QED BY <1>2, <1>7, <1>8, <1>9

\* What the arrival of a batch does.
LEMMA EnqueueStep ==
  ASSUME TypeOK, NEW p \in Peer, EnqueueOpsBatch(p)
  PROVE  /\ TypeOK' /\ UNCHANGED <<store, call, sessions, awaiting, sending, promised>>
         /\ \E m \in BatchMessage :
              /\ m \in Message /\ chan[p] # <<>> /\ m = Head(chan[p]) /\ Is(m, "opsBatch", m.id)
              /\ m.id \in Id
              /\ chan'[p] = Tail(chan[p]) /\ chan'[Other(p)] = chan[Other(p)]
              /\ queue'[Other(p)] = queue[Other(p)]
              /\ queue'[p][m.id] = Append(queue[p][m.id], m)
              /\ \A id \in Id : id # m.id => queue'[p][id] = queue[p][id]
<1>1. Head_(p, "opsBatch") /\ queue' = Enqueued(p, Head(chan[p])) /\ chan' = Reply(p, <<>>)
      /\ UNCHANGED <<store, call, sessions, awaiting, sending, promised>>
  BY DEF EnqueueOpsBatch
<1>2. PICK m \in Message : /\ chan[p] # <<>> /\ m = Head(chan[p]) /\ Is(m, "opsBatch", m.id)
                           /\ m.id \in Id /\ m \in BatchMessage
  BY <1>1, HeadMessage
<1>3. /\ chan'[p] = Tail(chan[p]) /\ chan'[Other(p)] = chan[Other(p)]
      /\ chan' \in [Peer -> Seq(Message)]
  BY <1>1, <1>2, ReplyWith
<1>4. queue \in [Peer -> [Id -> Seq(BatchMessage)]] /\ Other(p) \in Peer /\ Other(p) # p
  BY DEF TypeOK, Other, Peer
<1> DEFINE q == [queue[p] EXCEPT ![m.id] = Append(queue[p][m.id], m)]
<1>5. Append(queue[p][m.id], m) \in Seq(BatchMessage)
  BY <1>2, <1>4, AppendProperties
<1>6. q \in [Id -> Seq(BatchMessage)] /\ q[m.id] = Append(queue[p][m.id], m)
      /\ \A id \in Id : id # m.id => q[id] = queue[p][id]
  BY <1>2, <1>4, <1>5
<1>7. queue' = [queue EXCEPT ![p] = q]
  BY <1>1, <1>2, <1>4 DEF Enqueued
<1> HIDE DEF q
<1>8. queue' \in [Peer -> [Id -> Seq(BatchMessage)]] /\ queue'[p] = q
      /\ queue'[Other(p)] = queue[Other(p)]
  BY <1>4, <1>6, <1>7
<1>9. TypeOK'
  BY <1>1, <1>3, <1>8 DEF TypeOK
<1> QED BY <1>1, <1>2, <1>3, <1>6, <1>8, <1>9

\* A batch is taken from a queue.
LEMMA Dequeued ==
  ASSUME TypeOK, NEW p \in Peer, NEW id \in Id, queue[p][id] # <<>>,
         queue' = [queue EXCEPT ![p][id] = Tail(@)]
  PROVE  /\ queue' \in [Peer -> [Id -> Seq(BatchMessage)]]
         /\ queue'[p][id] = Tail(queue[p][id]) /\ queue'[Other(p)] = queue[Other(p)]
         /\ \A x \in Id : x # id => queue'[p][x] = queue[p][x]
         /\ Head(queue[p][id]) \in BatchMessage
<1>1. queue \in [Peer -> [Id -> Seq(BatchMessage)]] /\ Other(p) \in Peer /\ Other(p) # p
  BY DEF TypeOK, Other, Peer
<1>2. queue[p][id] \in Seq(BatchMessage)
  BY <1>1
<1>3. Tail(queue[p][id]) \in Seq(BatchMessage) /\ Head(queue[p][id]) \in BatchMessage
  BY <1>2, HeadTailProperties
<1> DEFINE q == [queue[p] EXCEPT ![id] = Tail(queue[p][id])]
<1>4. queue' = [queue EXCEPT ![p] = q]
  BY <1>1
<1>5. q \in [Id -> Seq(BatchMessage)] /\ q[id] = Tail(queue[p][id])
      /\ \A x \in Id : x # id => q[x] = queue[p][x]
  BY <1>1, <1>3
<1> HIDE DEF q
<1>6. queue' \in [Peer -> [Id -> Seq(BatchMessage)]] /\ queue'[p] = q
      /\ queue'[Other(p)] = queue[Other(p)]
  BY <1>1, <1>4, <1>5
<1> QED BY <1>3, <1>5, <1>6

\* The session is rejected.
LEMMA RejectStep ==
  ASSUME call \in Call, call' = RejectCall
  PROVE  Becomes(call.at, call.mode, call.refs, Settle(call.ack, "rejected"),
                 Settle(call.status, "rejected"), Settle(call.received, "rejected"),
                 call.missing, call.credits, call.awaitingUploadAck, TRUE)
<1> DEFINE ack == Settle(call.ack, "rejected")
           status == Settle(call.status, "rejected")
           received == Settle(call.received, "rejected")
<1>1. ack \in PromiseValue /\ status \in StatusValue /\ received \in PromiseValue
  BY DEF Call, Settle, PromiseValue, StatusValue
<1>2. call' = [call EXCEPT !.done = TRUE, !.ack = ack, !.status = status, !.received = received]
  BY DEF RejectCall
<1> HIDE DEF ack, status, received
<1>3. Becomes(call.at, call.mode, call.refs, ack, status, received, call.missing, call.credits,
              call.awaitingUploadAck, TRUE)
  BY <1>1, <1>2 DEF Call, Becomes
<1> QED BY <1>3 DEF ack, status, received

\* What applying or refusing a batch does at the responder.
LEMMA OnOpsBatchResponderStep ==
  ASSUME TypeOK, NEW id \in Id, OnOpsBatchResponder(id)
  PROVE  /\ TypeOK' /\ UNCHANGED <<call, sending, promised>>
         /\ store'["i"] = store["i"] /\ chan'["r"] = chan["r"] /\ queue'["i"] = queue["i"]
         /\ queue["r"][id] # <<>> /\ queue'["r"][id] = Tail(queue["r"][id])
         /\ \A x \in Id : x # id => queue'["r"][x] = queue["r"][x]
         /\ \E m \in BatchMessage :
              /\ m = Head(queue["r"][id])
              /\ \/ /\ m.ops \cap Invalid["r"] # {} /\ UNCHANGED <<store, sessions, awaiting>>
                    /\ \E n \in Message : Is(n, "error", id) /\ chan'["i"] = Append(chan["i"], n)
                 \/ /\ m.ops \cap Invalid["r"] = {} /\ store'["r"] = store["r"] \cup m.ops
                    /\ awaiting' = IF m.done /\ ~sessions[id].open THEN awaiting \ {id} ELSE awaiting
                    /\ sessions' = IF m.done /\ sessions[id].open
                                   THEN [sessions EXCEPT ![id] = NoSession] ELSE sessions
                    /\ IF m.done /\ (IF sessions[id].open THEN sessions[id].incoming
                                     ELSE id \in awaiting)
                       THEN \E n \in Message : /\ n = Batch(id, {}, TRUE)
                                               /\ chan'["i"] = Append(chan["i"], n)
                       ELSE chan'["i"] = chan["i"]
<1> DEFINE m == Head(queue["r"][id])
           acknowledge == m.done /\ (IF sessions[id].open THEN sessions[id].incoming
                                     ELSE id \in awaiting)
<1>1. queue["r"][id] # <<>> /\ queue' = [queue EXCEPT !["r"][id] = Tail(@)]
      /\ UNCHANGED <<call, sending, promised>> /\ "r" \in Peer /\ "i" \in Peer
  BY DEF OnOpsBatchResponder, Peer
<1>2. /\ queue' \in [Peer -> [Id -> Seq(BatchMessage)]]
      /\ queue'["r"][id] = Tail(queue["r"][id]) /\ queue'[Other("r")] = queue[Other("r")]
      /\ \A x \in Id : x # id => queue'["r"][x] = queue["r"][x]
      /\ m \in BatchMessage
  BY <1>1, Dequeued
<1>3. m.ops \in SUBSET Op /\ m.done \in BOOLEAN
  BY <1>2 DEF BatchMessage
<1>4. queue'["i"] = queue["i"]
  BY <1>2 DEF Other
<1>5. /\ \A n \in Message : /\ SendTo("i", << n >>)["i"] = Append(chan["i"], n)
                            /\ SendTo("i", << n >>)["r"] = chan["r"]
                            /\ SendTo("i", << n >>) \in [Peer -> Seq(Message)]
  <2>1. \A n \in Message : /\ SendTo("i", << n >>)["i"] = Append(chan["i"], n)
                           /\ SendTo("i", << n >>)[Other("i")] = chan[Other("i")]
                           /\ SendTo("i", << n >>) \in [Peer -> Seq(Message)]
    BY <1>1, SendOne
  <2> QED BY <2>1 DEF Other
<1>6. /\ [type |-> "error", id |-> id] \in Message /\ Is([type |-> "error", id |-> id], "error", id)
      /\ Batch(id, {}, TRUE) \in Message
  BY MessageTypes DEF Is
<1>7. CASE m.ops \cap Invalid["r"] # {}
  <2> DEFINE n == [type |-> "error", id |-> id]
  <2>1. chan' = SendTo("i", << n >>) /\ UNCHANGED <<store, sessions, awaiting>>
    BY <1>7 DEF OnOpsBatchResponder
  <2>2. n \in Message /\ Is(n, "error", id)
    BY <1>6
  <2> HIDE DEF n, m
  <2>3. chan'["i"] = Append(chan["i"], n) /\ chan'["r"] = chan["r"] /\ chan' \in [Peer -> Seq(Message)]
    BY <1>5, <2>1, <2>2
  <2>4. TypeOK'
    BY <1>1, <1>2, <2>1, <2>3 DEF TypeOK
  <2> QED BY <1>1, <1>2, <1>4, <1>7, <2>1, <2>2, <2>3, <2>4 DEF m
<1>8. CASE m.ops \cap Invalid["r"] = {}
  <2> DEFINE n == Batch(id, {}, TRUE)
  <2>1. /\ store' = [store EXCEPT !["r"] = @ \cup m.ops]
        /\ chan' = IF acknowledge THEN SendTo("i", << n >>) ELSE chan
        /\ awaiting' = IF m.done /\ ~sessions[id].open THEN awaiting \ {id} ELSE awaiting
        /\ sessions' = IF m.done /\ sessions[id].open
                       THEN [sessions EXCEPT ![id] = NoSession] ELSE sessions
    BY <1>8 DEF OnOpsBatchResponder, Closed
  <2>2. n \in Message
    BY <1>6
  <2> HIDE DEF n, m
  <2>3. /\ IF acknowledge THEN chan'["i"] = Append(chan["i"], n) ELSE chan'["i"] = chan["i"]
        /\ chan'["r"] = chan["r"] /\ chan' \in [Peer -> Seq(Message)]
    BY <1>5, <2>1, <2>2 DEF TypeOK
  <2>4. store' \in [Peer -> SUBSET Op] /\ store'["i"] = store["i"]
        /\ store'["r"] = store["r"] \cup m.ops
    BY <1>1, <1>3, <2>1 DEF TypeOK
  <2>5. sessions' \in [Id -> ResponderSession] /\ awaiting' \subseteq Id
    <3>1. NoSession \in ResponderSession
      BY DEF NoSession, ResponderSession
    <3> QED BY <2>1, <3>1 DEF TypeOK
  <2>6. TypeOK'
    BY <1>1, <1>2, <2>3, <2>4, <2>5 DEF TypeOK
  <2> QED BY <1>1, <1>2, <1>4, <1>8, <2>1, <2>2, <2>3, <2>4, <2>6 DEF m, n
<1> QED BY <1>7, <1>8

\* What applying or refusing a batch does at the initiator.
LEMMA OnOpsBatchInitiatorStep ==
  ASSUME TypeOK, NEW id \in Id, OnOpsBatchInitiator(id)
  PROVE  /\ TypeOK' /\ UNCHANGED <<sessions, awaiting, sending, promised>>
         /\ store'["r"] = store["r"] /\ chan'["i"] = chan["i"] /\ queue'["r"] = queue["r"]
         /\ queue["i"][id] # <<>> /\ queue'["i"][id] = Tail(queue["i"][id])
         /\ \A x \in Id : x # id => queue'["i"][x] = queue["i"][x]
         /\ \E m \in BatchMessage :
              /\ m = Head(queue["i"][id])
              /\ \/ /\ m.ops \cap Invalid["i"] # {} /\ UNCHANGED store
                    /\ \E n \in Message : Is(n, "error", id) /\ chan'["r"] = Append(chan["r"], n)
                    /\ \/ Registered(id) /\
                            Becomes(call.at, call.mode, call.refs, Settle(call.ack, "rejected"),
                                    Settle(call.status, "rejected"),
                                    Settle(call.received, "rejected"), call.missing, call.credits,
                                    call.awaitingUploadAck, TRUE)
                       \/ ~Registered(id) /\ call' = call
                 \/ /\ m.ops \cap Invalid["i"] = {} /\ store'["i"] = store["i"] \cup m.ops
                    /\ chan'["r"] = chan["r"]
                    /\ \/ Registered(id) /\ CompletesCall(m) /\
                            Becomes(call.at, call.mode, call.refs, call.ack, call.status,
                                    Settle(call.received, "resolved"), call.missing, call.credits,
                                    call.awaitingUploadAck, call.done)
                       \/ ~(Registered(id) /\ CompletesCall(m)) /\ call' = call
<1> DEFINE m == Head(queue["i"][id])
<1>1. queue["i"][id] # <<>> /\ queue' = [queue EXCEPT !["i"][id] = Tail(@)]
      /\ UNCHANGED <<sessions, awaiting, sending, promised>> /\ "r" \in Peer /\ "i" \in Peer
  BY DEF OnOpsBatchInitiator, Peer
<1>2. /\ queue' \in [Peer -> [Id -> Seq(BatchMessage)]]
      /\ queue'["i"][id] = Tail(queue["i"][id]) /\ queue'[Other("i")] = queue[Other("i")]
      /\ \A x \in Id : x # id => queue'["i"][x] = queue["i"][x]
      /\ m \in BatchMessage
  BY <1>1, Dequeued
<1>3. m.ops \in SUBSET Op /\ m.done \in BOOLEAN /\ call \in Call
  BY <1>2 DEF BatchMessage, TypeOK
<1>4. queue'["r"] = queue["r"]
  BY <1>2 DEF Other
<1>5. CASE m.ops \cap Invalid["i"] # {}
  <2> DEFINE n == [type |-> "error", id |-> id]
  <2>1. chan' = SendTo("r", << n >>) /\ UNCHANGED store
        /\ call' = IF Registered(id) THEN RejectCall ELSE call
    BY <1>5 DEF OnOpsBatchInitiator
  <2>2. n \in Message /\ Is(n, "error", id)
    BY MessageTypes DEF Is
  <2> HIDE DEF n, m
  <2>3. chan'["r"] = Append(chan["r"], n) /\ chan'["i"] = chan["i"] /\ chan' \in [Peer -> Seq(Message)]
    <3>1. SendTo("r", << n >>)["r"] = Append(chan["r"], n)
          /\ SendTo("r", << n >>)[Other("r")] = chan[Other("r")]
          /\ SendTo("r", << n >>) \in [Peer -> Seq(Message)]
      BY <1>1, <2>2, SendOne
    <3> QED BY <2>1, <3>1 DEF Other
  <2>4. \/ Registered(id) /\
             Becomes(call.at, call.mode, call.refs, Settle(call.ack, "rejected"),
                     Settle(call.status, "rejected"), Settle(call.received, "rejected"),
                     call.missing, call.credits, call.awaitingUploadAck, TRUE)
        \/ ~Registered(id) /\ call' = call
    BY <1>3, <2>1, RejectStep
  <2>5. call' \in Call
    BY <1>3, <2>4 DEF Becomes
  <2>6. TypeOK'
    BY <1>1, <1>2, <2>1, <2>3, <2>5 DEF TypeOK
  <2> QED BY <1>1, <1>2, <1>4, <1>5, <2>1, <2>2, <2>3, <2>4, <2>6 DEF m
<1>6. CASE m.ops \cap Invalid["i"] = {}
  <2>1. /\ store' = [store EXCEPT !["i"] = @ \cup m.ops] /\ UNCHANGED chan
        /\ call' = IF Registered(id) /\ CompletesCall(m)
                   THEN [call EXCEPT !.received = Settle(@, "resolved")] ELSE call
    BY <1>6 DEF OnOpsBatchInitiator
  <2> HIDE DEF m
  <2>2. \/ Registered(id) /\ CompletesCall(m) /\
             Becomes(call.at, call.mode, call.refs, call.ack, call.status,
                     Settle(call.received, "resolved"), call.missing, call.credits,
                     call.awaitingUploadAck, call.done)
        \/ ~(Registered(id) /\ CompletesCall(m)) /\ call' = call
    <3>1. CASE Registered(id) /\ CompletesCall(m)
      <4> DEFINE received == Settle(call.received, "resolved")
      <4>1. received \in PromiseValue /\ call' = [call EXCEPT !.received = received]
        BY <1>3, <2>1, <3>1 DEF Settle, Call, PromiseValue
      <4> HIDE DEF received
      <4>2. Becomes(call.at, call.mode, call.refs, call.ack, call.status, received, call.missing,
                    call.credits, call.awaitingUploadAck, call.done)
        BY <1>3, <4>1 DEF Becomes, Call
      <4> QED BY <3>1, <4>2 DEF received
    <3> QED BY <2>1, <3>1
  <2>3. store' \in [Peer -> SUBSET Op] /\ store'["r"] = store["r"]
        /\ store'["i"] = store["i"] \cup m.ops
    BY <1>1, <1>3, <2>1 DEF TypeOK, m
  <2>4. call' \in Call
    BY <1>3, <2>2 DEF Becomes
  <2>5. TypeOK'
    BY <1>1, <1>2, <2>1, <2>3, <2>4 DEF TypeOK
  <2> QED BY <1>1, <1>2, <1>4, <1>6, <2>1, <2>2, <2>3, <2>5 DEF m
<1> QED BY <1>5, <1>6

\* What the handler of an error does.
LEMMA OnErrorStep ==
  ASSUME TypeOK, NEW p \in Peer, OnError(p)
  PROVE  /\ TypeOK' /\ UNCHANGED <<store, sessions, awaiting, sending, queue, promised>>
         /\ \E m \in Message :
              /\ chan[p] # <<>> /\ m = Head(chan[p]) /\ Is(m, "error", m.id)
              /\ chan'[p] = Tail(chan[p]) /\ chan'[Other(p)] = chan[Other(p)]
              /\ \/ /\ p = "i" /\ (Registered(m.id) \/ (m.id = 0 /\ Registered(call.id)))
                    /\ Becomes(call.at, call.mode, call.refs, Settle(call.ack, "rejected"),
                               Settle(call.status, "rejected"), Settle(call.received, "rejected"),
                               call.missing, call.credits, call.awaitingUploadAck, TRUE)
                 \/ /\ ~(p = "i" /\ (Registered(m.id) \/ (m.id = 0 /\ Registered(call.id))))
                    /\ call' = call
<1>1. Head_(p, "error") /\ chan' = Reply(p, <<>>) /\ call \in Call
      /\ UNCHANGED <<store, sessions, awaiting, sending, queue, promised>>
  BY DEF OnError, TypeOK
<1>2. PICK m \in Message : chan[p] # <<>> /\ m = Head(chan[p]) /\ Is(m, "error", m.id)
  BY <1>1, HeadMessage
<1>3. /\ chan'[p] = Tail(chan[p]) /\ chan'[Other(p)] = chan[Other(p)]
      /\ chan' \in [Peer -> Seq(Message)]
  BY <1>1, <1>2, ReplyWith
<1> DEFINE hit == p = "i" /\ (Registered(m.id) \/ (m.id = 0 /\ Registered(call.id)))
<1>4. call' = IF hit THEN RejectCall ELSE call
  BY <1>2 DEF OnError
<1> HIDE DEF hit
<1>5. \/ hit /\ Becomes(call.at, call.mode, call.refs, Settle(call.ack, "rejected"),
                        Settle(call.status, "rejected"), Settle(call.received, "rejected"),
                        call.missing, call.credits, call.awaitingUploadAck, TRUE)
      \/ ~hit /\ call' = call
  BY <1>1, <1>4, RejectStep
<1>6. call' \in Call
  BY <1>1, <1>5 DEF Becomes
<1>7. TypeOK'
  BY <1>1, <1>3, <1>6 DEF TypeOK
<1> QED BY <1>1, <1>2, <1>3, <1>5, <1>7 DEF hit

\* What another writer does.
LEMMA LocalWriteStep ==
  ASSUME TypeOK, NEW p \in Peer, LocalWrite(p)
  PROVE  /\ TypeOK' /\ UNCHANGED <<chan, call, sessions, awaiting, sending, queue, promised>>
         /\ \A q \in Peer : store[q] \subseteq store'[q]
<1>1. PICK o \in Op : store' = [store EXCEPT ![p] = @ \cup {o}]
  BY DEF LocalWrite
<1>2. store \in [Peer -> SUBSET Op]
  BY DEF TypeOK
<1>3. store' \in [Peer -> SUBSET Op] /\ \A q \in Peer : store[q] \subseteq store'[q]
  BY <1>1, <1>2
<1>4. UNCHANGED <<chan, call, sessions, awaiting, sending, queue, promised>>
  BY DEF LocalWrite
<1> QED BY <1>3, <1>4 DEF TypeOK

-----------------------------------------------------------------------------
(* A step changes what is known of one call only; a frame for the others.   *)

\* Everything of the call id is as it was.
Elsewhere(id) ==
    /\ sessions'[id] = sessions[id] /\ (id \in awaiting' <=> id \in awaiting)
    /\ sending'[id] = sending[id]
    /\ \A p \in Peer : queue'[p][id] = queue[p][id] /\ Alike(chan[p], chan'[p], id)

\* The channel to p changes by messages with these ids.
Carried(p, ids) ==
    \/ chan'[p] = chan[p]
    \/ chan[p] # <<>> /\ Head(chan[p]).id \in ids /\ chan'[p] = Tail(chan[p])
    \/ \E m \in Message : m.id \in ids /\ chan'[p] = Append(chan[p], m)
    \/ \E m, n \in Message :
          m.id \in ids /\ n.id \in ids /\ chan'[p] = Append(Append(chan[p], m), n)

Touches(ids) ==
    /\ \A p \in Peer : Carried(p, ids)
    /\ \A id \in Id \ ids :
          /\ sessions'[id] = sessions[id] /\ (id \in awaiting' <=> id \in awaiting)
          /\ sending'[id] = sending[id] /\ \A p \in Peer : queue'[p][id] = queue[p][id]

\* A channel that changes by messages of some calls is as it was for the others.
LEMMA CarriedAlike ==
  ASSUME TypeOK, NEW p \in Peer, NEW ids, Carried(p, ids), NEW id, id \notin ids
  PROVE  Alike(chan[p], chan'[p], id)
<1>1. chan[p] \in Seq(Message)
  BY DEF TypeOK
<1>2. CASE chan'[p] = chan[p]
  BY <1>2 DEF Alike
<1>3. CASE chan[p] # <<>> /\ Head(chan[p]).id \in ids /\ chan'[p] = Tail(chan[p])
  BY <1>1, <1>3, TailAlike
<1>4. ASSUME NEW m \in Message, m.id \in ids, chan'[p] = Append(chan[p], m)
      PROVE  Alike(chan[p], chan'[p], id)
  BY <1>1, <1>4, AppendAlike
<1>5. ASSUME NEW m \in Message, NEW n \in Message, m.id \in ids, n.id \in ids,
             chan'[p] = Append(Append(chan[p], m), n)
      PROVE  Alike(chan[p], chan'[p], id)
  <2> DEFINE s == Append(chan[p], m)
  <2>1. Alike(chan[p], s, id) /\ s \in Seq(Message)
    BY <1>1, <1>5, AppendAlike, AppendProperties
  <2> HIDE DEF s
  <2>2. Alike(s, Append(s, n), id)
    BY <1>5, <2>1, AppendAlike
  <2>3. chan'[p] = Append(s, n)
    BY <1>5 DEF s
  <2> QED BY <2>1, <2>2, <2>3 DEF Alike
<1> QED BY <1>2, <1>3, <1>4, <1>5 DEF Carried

\* A step that touches some calls leaves the others as they were.
LEMMA TouchesElsewhere ==
  ASSUME TypeOK, NEW ids, Touches(ids), NEW id \in Id \ ids
  PROVE  Elsewhere(id)
<1>1. \A p \in Peer : Alike(chan[p], chan'[p], id)
  BY CarriedAlike DEF Touches
<1> QED BY <1>1 DEF Touches, Elsewhere

\* A step of a call that was made leaves nothing of the calls to come.
LEMMA FutureStaysFresh ==
  ASSUME TypeOK, FutureIsFresh, NEW x, Touches({x, 0}), x \in Int, call'.id \in Int, call.id \in Int,
         x <= call'.id, call.id <= call'.id
  PROVE  FutureIsFresh'
<1> SUFFICES ASSUME NEW id \in Id, id > call'.id
             PROVE  Fresh(id)'
  BY DEF FutureIsFresh
<1>1. id > call.id /\ id \notin {x, 0}
  BY DEF Id
<1>2. Fresh(id) /\ Elsewhere(id)
  BY <1>1, TouchesElsewhere DEF FutureIsFresh
<1>3. sessions'[id] = NoSession /\ id \notin awaiting' /\ ~sending'[id].active
      /\ \A p \in Peer : queue'[p][id] = <<>>
  BY <1>2 DEF Fresh, Elsewhere
<1>4. \A p \in Peer, type \in MessageType : Got(chan'[p], type, id) = {}
  BY <1>2 DEF Fresh, Elsewhere, Alike
<1> QED BY <1>3, <1>4 DEF Fresh

\* What is there of a call is of one that was made.
LEMMA CallWasMade ==
  ASSUME TypeOK, FutureIsFresh, NEW id \in Id
  PROVE  /\ (\E p \in Peer : chan[p] # <<>> /\ Head(chan[p]).id = id /\ Head(chan[p]).type \in MessageType)
              => id <= call.id /\ call.id \in Id
         /\ (\E p \in Peer : queue[p][id] # <<>>) \/ sending[id].active
              => id <= call.id /\ call.id \in Id
<1>1. call.id \in 0 .. MaxSyncs /\ id \in Int
  BY DEF TypeOK, Call, Id
<1>2. ~(id > call.id) => id <= call.id /\ call.id \in Id
  BY <1>1 DEF Id
<1>3. id > call.id => Fresh(id)
  BY DEF FutureIsFresh
<1>4. ASSUME NEW p \in Peer, chan[p] # <<>>, Head(chan[p]).id = id,
             Head(chan[p]).type \in MessageType
      PROVE  ~Fresh(id)
  <2> DEFINE type == Head(chan[p]).type
  <2>1. chan[p] \in Seq(Message) /\ Is(Head(chan[p]), type, id)
    BY <1>4 DEF TypeOK, Is
  <2>2. Got(chan[p], type, id) # {}
    <3>1. \A t : Is(Head(chan[p]), t, id) =>
                    Got(chan[p], t, id) = Got(Tail(chan[p]), t, id) \cup {Head(chan[p])}
      BY <1>4, <2>1, TailChannel
    <3> HIDE DEF type
    <3> QED BY <2>1, <3>1
  <2> QED BY <1>4, <2>2 DEF Fresh
<1>5. (\E p \in Peer : queue[p][id] # <<>>) \/ sending[id].active => ~Fresh(id)
  BY DEF Fresh
<1> QED BY <1>2, <1>3, <1>4, <1>5

\* The phases read the messages, queues and sessions of the current call only.
ChannelsKept ==
    /\ One(chan["r"], "ribltCodewords", call.id) => One(chan["r"], "ribltCodewords", call.id)'
    /\ One(chan["i"], "ribltStatus", call.id) => One(chan["i"], "ribltStatus", call.id)'
    /\ StatusFirst(chan["i"], call.id) => StatusFirst(chan["i"], call.id)'
    /\ DoneLast(chan["r"], call.id) => DoneLast(chan["r"], call.id)'
    /\ ErrorFirst(chan["i"], call.id) => ErrorFirst(chan["i"], call.id)'
SessionKept ==
    Session' = Session /\ Sending' = Sending /\ (call.id \in awaiting)' = (call.id \in awaiting)
QueuesKept == \A p \in Peer : Queued(p)' = Queued(p) /\ queue'[p][call.id] = queue[p][call.id]
MessagesKept ==
    /\ Codes' = Codes /\ Acks' = Acks /\ Statuses' = Statuses /\ Errors' = Errors
    /\ \A p \in Peer : Batches(p)' = Batches(p)
StreamsKept == \A p \in Peer : Stream(p)' = Stream(p) /\ OnTheWay(p)' = OnTheWay(p)
View == /\ call'.id = call.id /\ SessionKept /\ QueuesKept /\ MessagesKept /\ ChannelsKept
        /\ StreamsKept

\* When everything of the current call is as it was, so is what the phases read of it.
LEMMA ElsewhereView ==
  ASSUME call'.id = call.id, call.id \in Id, Elsewhere(call.id)
  PROVE  View
<1>1. SessionKept
  BY DEF Elsewhere, SessionKept, Session, Sending
<1>2. QueuesKept
  BY DEF Elsewhere, QueuesKept, Queued
<1>3. \A p \in Peer : \A type : Got(chan'[p], type, call.id) = Got(chan[p], type, call.id)
  BY DEF Elsewhere, Alike
<1>4. "r" \in Peer /\ "i" \in Peer
  BY DEF Peer
<1>5. MessagesKept
  BY <1>3, <1>4 DEF MessagesKept, Codes, Acks, Statuses, Errors, Batches
<1>6. ChannelsKept
  BY <1>4 DEF Elsewhere, Alike, ChannelsKept
<1>7. StreamsKept
  BY <1>2, <1>5 DEF QueuesKept, MessagesKept, StreamsKept, Stream, OnTheWay
<1> QED BY <1>1, <1>2, <1>5, <1>6, <1>7 DEF View

\* Nothing happens to the call but that stores grow.
LEMMA PhasesFrame ==
  ASSUME View, call' = call, promised' = promised, \A p \in Peer : store[p] \subseteq store'[p]
  PROVE  /\ Greeting => Greeting'
         /\ Phases => Phases'
<1>1. /\ Session' = Session /\ Sending' = Sending
      /\ (call.id \in awaiting)' = (call.id \in awaiting)
  BY DEF View, SessionKept
<1>2. /\ Codes' = Codes /\ Acks' = Acks /\ Statuses' = Statuses /\ Errors' = Errors
      /\ Batches("r")' = Batches("r") /\ Queued("r")' = Queued("r")
      /\ Queued("i")' = Queued("i") /\ queue'["r"][call.id] = queue["r"][call.id]
      /\ Stream("r")' = Stream("r") /\ Stream("i")' = Stream("i")
      /\ OnTheWay("r")' = OnTheWay("r") /\ OnTheWay("i")' = OnTheWay("i")
  BY DEF View, MessagesKept, QueuesKept, StreamsKept, Peer
<1>3. ChannelsKept /\ call' = call /\ promised' = promised
      /\ store["r"] \subseteq store'["r"] /\ store["i"] \subseteq store'["i"]
  BY DEF View, Peer
<1>4. Greeting => Greeting'
  BY <1>1, <1>2, <1>3 DEF Greeting
<1>5. Direct => Direct'
  BY <1>1, <1>2, <1>3 DEF Direct, Accepted
<1>6. ToUpload => ToUpload'
  BY <1>1, <1>2, <1>3 DEF ToUpload, Accepted
<1>7. Reconciling => Reconciling'
  BY <1>1, <1>2, <1>3 DEF Reconciling, Accepted, ChannelsKept
<1>8. ASSUME NEW missing PROVE Decoded(missing) => Decoded(missing)'
  BY <1>1, <1>2, <1>3 DEF Decoded, NotAcknowledged, ChannelsKept
<1>9. Finishing => Finishing'
  BY <1>1, <1>2, <1>3 DEF Finishing
<1>10. Refused => Refused'
  BY <1>1, <1>2, <1>3 DEF Refused, ChannelsKept
<1>11. UploadEnds' = UploadEnds /\ ToAcknowledge' = ToAcknowledge /\ NotAcknowledged' = NotAcknowledged
  BY <1>1, <1>2, <1>3 DEF UploadEnds, ToAcknowledge, NotAcknowledged
<1>12. Uploading => Uploading'
  BY <1>1, <1>2, <1>3, <1>10, <1>11 DEF Uploading, ChannelsKept
<1>13. Downloading => Downloading'
  BY <1>1, <1>2, <1>3 DEF Downloading
<1>14. Phases => Phases'
  BY <1>3, <1>4, <1>5, <1>6, <1>7, <1>8, <1>9, <1>12, <1>13 DEF Phases
<1> QED BY <1>4, <1>14

\* The Hellos, and the errors that answer them, are as they were.
HellosKept ==
    /\ \A id : Got(chan["r"], "hello", id)' = Got(chan["r"], "hello", id)
    /\ One(chan["r"], "hello", call.id) => One(chan["r"], "hello", call.id)'
    /\ Refusals' = Refusals
    /\ One(chan["i"], "error", 0) => One(chan["i"], "error", 0)'

\* A step that neither takes nor sends a Hello, nor an error without a call.
LEMMA HellosAreKept ==
  ASSUME TypeOK, call'.id = call.id,
         \/ chan'["r"] = chan["r"]
         \/ chan["r"] # <<>> /\ chan'["r"] = Tail(chan["r"]) /\ Head(chan["r"]).type # "hello"
         \/ \E m \in Message : chan'["r"] = Append(chan["r"], m) /\ m.type # "hello",
         \/ chan'["i"] = chan["i"]
         \/ chan["i"] # <<>> /\ chan'["i"] = Tail(chan["i"]) /\ ~Is(Head(chan["i"]), "error", 0)
         \/ \E m \in Message : chan'["i"] = Append(chan["i"], m) /\ ~Is(m, "error", 0)
         \/ \E m, n \in Message : /\ chan'["i"] = Append(Append(chan["i"], m), n)
                                  /\ m.type # "error" /\ n.type # "error"
  PROVE  HellosKept
<1> DEFINE Kept(s, t, type, id) == /\ Got(t, type, id) = Got(s, type, id)
                                   /\ One(s, type, id) => One(t, type, id)
<1>1. chan["r"] \in Seq(Message) /\ chan["i"] \in Seq(Message)
  BY DEF TypeOK, Peer
<1>2. ASSUME NEW s \in Seq(Message), s # <<>>, NEW type, NEW id, ~Is(Head(s), type, id)
      PROVE  Kept(s, Tail(s), type, id)
  <2>1. /\ \A ty : ~Is(Head(s), ty, id) => Got(Tail(s), ty, id) = Got(s, ty, id)
        /\ \A ty : One(s, ty, id) => One(Tail(s), ty, id)
    BY <1>2, TailChannel
  <2> QED BY <1>2, <2>1
<1>3. ASSUME NEW s \in Seq(Message), NEW m \in Message, NEW type, NEW id, ~Is(m, type, id)
      PROVE  Kept(s, Append(s, m), type, id) /\ Append(s, m) \in Seq(Message)
  <2> DEFINE t == Append(s, m)
  <2>1. Got(t, type, id) = Got(s, type, id)
    BY <1>3, AppendGot
  <2>2. \A ty : One(s, ty, id) /\ (Is(m, ty, id) => Got(s, ty, id) = {}) => One(t, ty, id)
    BY AppendChannel
  <2>3. t \in Seq(Message)
    BY AppendProperties
  <2> QED BY <1>3, <2>1, <2>2, <2>3
<1> HIDE DEF Kept
<1>4. ASSUME NEW id
      PROVE  Kept(chan["r"], chan'["r"], "hello", id)
  <2>1. CASE chan'["r"] = chan["r"]
    BY <2>1 DEF Kept
  <2>2. CASE chan["r"] # <<>> /\ chan'["r"] = Tail(chan["r"]) /\ Head(chan["r"]).type # "hello"
    BY <1>1, <1>2, <2>2 DEF Is
  <2>3. CASE \E m \in Message : chan'["r"] = Append(chan["r"], m) /\ m.type # "hello"
    BY <1>1, <1>3, <2>3 DEF Is
  <2> QED BY <2>1, <2>2, <2>3
<1>5. Kept(chan["i"], chan'["i"], "error", 0)
  <2>1. CASE chan'["i"] = chan["i"]
    BY <2>1 DEF Kept
  <2>2. CASE /\ chan["i"] # <<>> /\ chan'["i"] = Tail(chan["i"])
             /\ ~Is(Head(chan["i"]), "error", 0)
    BY <1>1, <1>2, <2>2
  <2>3. CASE \E m \in Message : chan'["i"] = Append(chan["i"], m) /\ ~Is(m, "error", 0)
    BY <1>1, <1>3, <2>3
  <2>4. ASSUME NEW m \in Message, NEW n \in Message, chan'["i"] = Append(Append(chan["i"], m), n),
               m.type # "error", n.type # "error"
        PROVE  Kept(chan["i"], chan'["i"], "error", 0)
    <3> DEFINE s == Append(chan["i"], m)
    <3>1. Kept(chan["i"], s, "error", 0) /\ s \in Seq(Message)
      BY <1>1, <1>3, <2>4 DEF Is
    <3> HIDE DEF s
    <3>2. Kept(s, Append(s, n), "error", 0)
      BY <1>3, <2>4, <3>1 DEF Is
    <3>3. chan'["i"] = Append(s, n)
      BY <2>4 DEF s
    <3> QED BY <3>1, <3>2, <3>3 DEF Kept
  <2> QED BY <2>1, <2>2, <2>3, <2>4
<1> QED BY <1>4, <1>5 DEF Kept, HellosKept, Refusals

\* Such a step keeps what the invariant says of the Hello, if the greeting goes on.
LEMMA OneHelloFrame ==
  ASSUME OneHello, HellosKept, call'.id = call.id, call'.empty = call.empty,
         Hellos # {} \/ Refusals # {} => Greeting' /\ Acks' = {}
  PROVE  OneHello'
<1>1. Hellos' = Hellos /\ Refusals' = Refusals
  BY DEF HellosKept, Hellos
<1>2. \A id \in Id : id # call.id => Got(chan["r"], "hello", id)' = {}
  <2>1. \A id \in Id : id # call.id => Got(chan["r"], "hello", id) = {}
    BY DEF OneHello
  <2>2. \A id : Got(chan["r"], "hello", id)' = Got(chan["r"], "hello", id)
    BY DEF HellosKept
  <2> QED BY <2>1, <2>2
<1>3. One(chan["r"], "hello", call.id)' /\ One(chan["i"], "error", 0)'
  BY DEF HellosKept, OneHello
<1> QED BY <1>1, <1>2, <1>3 DEF OneHello

\* A step that touches another call only.
LEMMA InvFrame ==
  ASSUME SessionInv, TypeOK', FutureIsFresh', SendsWhatItMay', call' = call, promised' = promised,
         \A p \in Peer : store[p] \subseteq store'[p], call.id \in Id => Elsewhere(call.id),
         HellosKept
  PROVE  SessionInv'
<1>1. CASE call.id \in Id
  <2>1. View
    BY <1>1, ElsewhereView
  <2>2. (Greeting => Greeting') /\ (Phases => Phases') /\ Acks' = Acks
    BY <2>1, PhasesFrame DEF View, MessagesKept
  <2>3. OneHello'
    BY <2>2, OneHelloFrame DEF SessionInv, OneHello
  <2>4. (Alive => Phases)' /\ GoesOnAccepted'
    BY <2>2 DEF SessionInv, Alive, GoesOnAccepted
  <2> QED BY <2>3, <2>4 DEF SessionInv
<1>2. CASE call.id \notin Id
  <2>1. call.at = "none" /\ ~Alive' /\ GoesOnAccepted'
    BY <1>2 DEF SessionInv, GoesOnAccepted, Alive
  <2>2. Hellos = {} /\ Refusals = {}
    BY <2>1 DEF SessionInv, OneHello, Greeting
  <2>3. OneHello'
    BY <2>2, OneHelloFrame DEF SessionInv
  <2> QED BY <2>1, <2>3 DEF SessionInv
<1> QED BY <1>1, <1>2

-----------------------------------------------------------------------------
(* Every step keeps the invariant.                                         *)

\* Another writer only adds to a store.
LEMMA LocalWriteKeeps ==
  ASSUME SessionInv, NEW p \in Peer, LocalWrite(p)
  PROVE  SessionInv'
<1>1. /\ TypeOK' /\ UNCHANGED <<chan, call, sessions, awaiting, sending, queue, promised>>
      /\ \A q \in Peer : store[q] \subseteq store'[q]
  BY LocalWriteStep DEF SessionInv
<1>2. FutureIsFresh' /\ SendsWhatItMay'
  BY <1>1 DEF SessionInv, FutureIsFresh, Fresh, SendsWhatItMay
<1>3. Elsewhere(call.id) /\ HellosKept
  <2>1. \A q \in Peer : Alike(chan[q], chan'[q], call.id)
    BY <1>1 DEF Alike
  <2>2. Elsewhere(call.id)
    BY <1>1, <2>1 DEF Elsewhere
  <2>3. HellosKept
    BY <1>1 DEF HellosKept, Refusals
  <2> QED BY <2>2, <2>3
<1> QED BY <1>1, <1>2, <1>3, InvFrame

\* The channel to p and the sessions, of no call.
LEMMA NothingTouched ==
  ASSUME UNCHANGED <<chan, sessions, awaiting, sending, queue>>
  PROVE  /\ \A ids : Touches(ids)
         /\ call'.id = call.id => View /\ HellosKept
<1>1. \A ids : Touches(ids)
  BY DEF Touches, Carried
<1>2. ASSUME call'.id = call.id PROVE View /\ HellosKept
  <2>1. SessionKept /\ QueuesKept
    BY <1>2 DEF SessionKept, QueuesKept, Session, Sending, Queued
  <2>2. MessagesKept
    BY <1>2 DEF MessagesKept, Codes, Acks, Statuses, Errors, Batches
  <2>3. ChannelsKept
    BY <1>2 DEF ChannelsKept
  <2>4. StreamsKept
    BY <2>1, <2>2 DEF QueuesKept, MessagesKept, StreamsKept, Stream, OnTheWay
  <2>5. HellosKept
    BY <1>2 DEF HellosKept, Refusals
  <2> QED BY <1>2, <2>1, <2>2, <2>3, <2>4, <2>5 DEF View
<1> QED BY <1>1, <1>2

\* The types of the constants that the steps need.
LEMMA AssumptionsGive ==
  ASSUME Assumptions
  PROVE  /\ MaxSyncs \in Nat /\ Sendable \in [Peer -> SUBSET Op]
         /\ PerMessage \in Int /\ MaxCodewords \in [Peer -> Int]
BY DEF Assumptions, Peer

\* A new call starts in the phase Greeting.
LEMMA SyncOnceKeeps ==
  ASSUME Assumptions, SessionInv, SyncOnce
  PROVE  SessionInv'
<1> DEFINE id == call'.id
<1>1. PICK m \in Message :
        /\ TypeOK' /\ call.id + 1 \in Id /\ id = call.id + 1
        /\ call.at \in {"none", "ok", "failed"}
        /\ call'.at = "ack" /\ call'.ack = "pending" /\ call'.received = "pending"
        /\ call'.status = "pending" /\ ~call'.done /\ call'.credits = 1
        /\ ~call'.awaitingUploadAck
        /\ promised' = [p \in Peer |-> {}]
        /\ UNCHANGED <<store, sessions, awaiting, sending, queue>>
        /\ Is(m, "hello", id) /\ m.request = call'.empty
        /\ chan'["r"] = Append(chan["r"], m) /\ chan'["i"] = chan["i"]
  BY SyncOnceStep, AssumptionsGive DEF SessionInv
<1>2. /\ id \in Id /\ id > call.id /\ id \in Int /\ call.id \in Int /\ call.id <= id /\ TypeOK
      /\ "r" \in Peer /\ "i" \in Peer /\ chan["r"] \in Seq(Message)
  BY <1>1 DEF SessionInv, TypeOK, Call, Peer
<1> HIDE DEF id
<1>3. Fresh(id)
  BY <1>2 DEF SessionInv, FutureIsFresh
<1>4. Hellos = {} /\ Refusals = {}
  BY <1>1 DEF SessionInv, OneHello, Greeting
<1>5. FutureIsFresh'
  <2>1. Touches({id, 0})
    <3>1. \A p \in Peer : Carried(p, {id, 0})
      BY <1>1 DEF Carried, Peer, Is
    <3> QED BY <1>1, <3>1 DEF Touches
  <2> QED BY <1>2, <2>1, FutureStaysFresh DEF SessionInv, id
<1>6. /\ \A type \in MessageType : Got(chan'["i"], type, id) = {}
      /\ \A type \in MessageType : type # "hello" => Got(chan'["r"], type, id) = {}
      /\ Got(chan'["r"], "hello", id) = {m}
      /\ \A x \in Id : x # id => Got(chan'["r"], "hello", x) = {}
      /\ One(chan'["r"], "hello", id)
  <2>1. ASSUME NEW type, NEW x, ~Is(m, type, x) PROVE Got(chan'["r"], type, x) = Got(chan["r"], type, x)
    BY <1>1, <1>2, <2>1, AppendGot
  <2>2. Got(chan["r"], "hello", id) = {}
    BY <1>2, <1>3 DEF Fresh, MessageType
  <2>3. Got(chan'["r"], "hello", id) = {m}
    <3>1. Got(chan'["r"], "hello", id) = Got(chan["r"], "hello", id) \cup {m}
      BY <1>1, <1>2, AppendGot
    <3> QED BY <2>2, <3>1
  <2>4. One(chan'["r"], "hello", id)
    <3>1. \A type : One(chan["r"], type, id) /\ (Is(m, type, id) => Got(chan["r"], type, id) = {})
                      => One(Append(chan["r"], m), type, id)
      BY <1>2, AppendChannel
    <3>2. One(chan["r"], "hello", id)
      BY <2>2, NothingGot
    <3> QED BY <1>1, <2>2, <3>1, <3>2
  <2>5. \A x \in Id : x # id => Got(chan["r"], "hello", x) = {}
    BY <1>4 DEF SessionInv, OneHello, Hellos
  <2>6. \A x \in Id : x # id => Got(chan'["r"], "hello", x) = {}
    BY <1>1, <2>1, <2>5 DEF Is
  <2>7. \A type \in MessageType : type # "hello" => Got(chan'["r"], type, id) = {}
    BY <1>1, <1>2, <1>3, <2>1 DEF Fresh, Is
  <2> QED BY <1>1, <1>2, <1>3, <2>3, <2>4, <2>6, <2>7 DEF Fresh
<1>7. /\ Codes' = {} /\ Acks' = {} /\ Statuses' = {} /\ Errors' = {} /\ Hellos' = {m}
      /\ Batches("i")' = {} /\ Batches("r")' = {}
  BY <1>6 DEF Codes, Acks, Statuses, Errors, Hellos, Batches, id, MessageType
<1>8. Queued("i")' = {} /\ Queued("r")' = {}
  <2>1. \A p \in Peer : queue'[p][id] = <<>>
    BY <1>1, <1>3 DEF Fresh
  <2> QED BY <1>2, <2>1 DEF Queued, Elems, id
<1>9. Stream("i")' = {} /\ Stream("r")' = {}
  BY <1>7, <1>8 DEF Stream
<1>10. Greeting' /\ Acks' = {}
  <2>1. Session' = NoSession /\ ~(call.id \in awaiting)' /\ ~(Sending.active)'
    BY <1>1, <1>3 DEF Fresh, Session, Sending, id
  <2>2. \A a \in Acks' : ~a.accepted
    BY <1>7
  <2> QED BY <1>1, <1>7, <1>9, <2>1, <2>2 DEF Greeting
<1>11. OneHello'
  <2>1. Refusals' = {} /\ One(chan'["i"], "error", 0)
    BY <1>1, <1>4 DEF Refusals, SessionInv, OneHello
  <2>2. \A h \in Hellos' : h.request = call'.empty
    BY <1>1, <1>7
  <2>3. /\ \A x \in Id : x # call'.id => Got(chan'["r"], "hello", x) = {}
        /\ One(chan'["r"], "hello", call'.id)
    BY <1>6 DEF id
  <2> QED BY <1>10, <2>1, <2>2, <2>3 DEF OneHello
<1>12. Phases'
  <2>1. promised'["r"] = {} /\ promised'["i"] = {}
    BY <1>1, <1>2
  <2>2. Downloading'
    BY <2>1 DEF Downloading
  <2> QED BY <1>1, <1>10, <2>1, <2>2 DEF Phases
<1>13. GoesOnAccepted' /\ SendsWhatItMay'
  BY <1>1, <1>2 DEF SessionInv, GoesOnAccepted, SendsWhatItMay, id
<1> QED BY <1>1, <1>5, <1>11, <1>12, <1>13 DEF SessionInv

\* Of a step of the current call the phases remain to be shown.
LEMMA InvFinish ==
  ASSUME SessionInv, TypeOK', FutureIsFresh', SendsWhatItMay', HellosKept,
         call'.id = call.id, call'.empty = call.empty, GoesOnAccepted',
         Hellos # {} \/ Refusals # {} => Greeting' /\ Acks' = {},
         Alive' => Alive /\ Phases'
  PROVE  SessionInv'
<1>1. OneHello'
  BY OneHelloFrame DEF SessionInv
<1> QED BY <1>1 DEF SessionInv

\* What the phases read, item by item.
LEMMA ViewGives ==
  ASSUME View
  PROVE  /\ call'.id = call.id /\ Session' = Session /\ Sending' = Sending
         /\ (call.id \in awaiting)' = (call.id \in awaiting)
         /\ Codes' = Codes /\ Acks' = Acks /\ Statuses' = Statuses /\ Errors' = Errors
         /\ Batches("r")' = Batches("r") /\ Queued("r")' = Queued("r")
         /\ Queued("i")' = Queued("i") /\ queue'["r"][call.id] = queue["r"][call.id]
         /\ Stream("r")' = Stream("r") /\ Stream("i")' = Stream("i")
         /\ OnTheWay("r")' = OnTheWay("r") /\ OnTheWay("i")' = OnTheWay("i")
         /\ ChannelsKept
BY DEF View, SessionKept, QueuesKept, MessagesKept, StreamsKept, Peer

\* Without a batch in its channel or queue nothing is on its way to a peer.
LEMMA NothingOnTheWay ==
  ASSUME NEW p \in Peer, Stream(p) = {}
  PROVE  OnTheWay(p) = {} /\ Batches(p) = {} /\ Queued(p) = {}
BY DEF OnTheWay, Stream

\* After the ack a call receives, reconciles, or uploads to an empty responder.
LEMMA AfterAckKeeps ==
  ASSUME Assumptions, SessionInv, AfterAck
  PROVE  SessionInv'
<1>1. /\ TypeOK' /\ call.at = "ack" /\ call.ack = "resolved"
      /\ UNCHANGED <<store, chan, sessions, awaiting, sending, queue>>
      /\ \/ /\ call.empty /\ call.mode = "direct" /\ promised' = promised
            /\ Becomes("receive", call.mode, call.refs, call.ack, call.status, call.received,
                       call.missing, call.credits, call.awaitingUploadAck, call.done)
         \/ /\ call.mode = "empty" /\ \E refs \in SUBSET Op :
               /\ refs = store["i"] \cap Sendable["i"]
               /\ promised'["i"] = promised["i"] /\ promised'["r"] = refs
               /\ Becomes("upload", call.mode, refs, call.ack, call.status, call.received,
                          refs, call.credits, TRUE, call.done)
         \/ /\ call.mode # "empty" /\ ~(call.empty /\ call.mode = "direct")
            /\ promised' = promised
            /\ \E refs \in SUBSET Op :
               /\ refs = store["i"] \cap Sendable["i"]
               /\ Becomes("riblt", call.mode, refs, call.ack, call.status, call.received,
                          call.missing, call.credits, call.awaitingUploadAck, call.done)
  BY AfterAckStep, AssumptionsGive DEF SessionInv
<1>2. /\ call'.id = call.id /\ call'.empty = call.empty /\ call'.ack = call.ack
      /\ call'.received = call.received /\ call'.at \in {"receive", "upload", "riblt"}
      /\ call'.status = call.status /\ call'.done = call.done /\ call'.credits = call.credits
      /\ call'.mode = call.mode
  BY <1>1 DEF Becomes
<1>3. View /\ HellosKept /\ Touches({call.id, 0})
  BY <1>1, <1>2, NothingTouched
<1>4. /\ Session' = Session /\ Sending' = Sending
      /\ (call.id \in awaiting)' = (call.id \in awaiting)
      /\ Codes' = Codes /\ Acks' = Acks /\ Statuses' = Statuses /\ Errors' = Errors
      /\ Batches("r")' = Batches("r") /\ Queued("r")' = Queued("r")
      /\ queue'["r"][call.id] = queue["r"][call.id]
      /\ Stream("r")' = Stream("r") /\ Stream("i")' = Stream("i")
      /\ OnTheWay("i")' = OnTheWay("i") /\ ChannelsKept
  BY <1>3, ViewGives
<1>5. FutureIsFresh' /\ SendsWhatItMay' /\ GoesOnAccepted'
  <2>1. FutureIsFresh'
    BY <1>1, <1>2 DEF SessionInv, FutureIsFresh, Fresh
  <2> QED BY <1>1, <1>2, <2>1 DEF SessionInv, SendsWhatItMay, GoesOnAccepted
<1>6. Hellos = {} /\ Refusals = {}
  BY <1>1 DEF SessionInv, OneHello, Greeting
<1>7. ASSUME Alive' PROVE Alive /\ Phases'
  <2>1. Alive
    BY <1>1, <1>2, <1>7 DEF Alive
  <2>2. /\ Reconciling \/ Downloading
        /\ ~call.awaitingUploadAck /\ promised["r"] = {}
        /\ Direct \/ ToUpload \/ Reconciling
    BY <1>1, <2>1 DEF SessionInv, Phases, Greeting, Decoded, Finishing, Uploading
  <2>3. CASE Direct
    <3>1. call.empty /\ call.mode = "direct"
      BY <1>1, <2>3 DEF Direct, Accepted
    <3>2. /\ promised' = promised /\ store' = store
          /\ call'.at = "receive" /\ call'.awaitingUploadAck = call.awaitingUploadAck
      BY <1>1, <3>1 DEF Becomes
    <3>3. Direct'
      BY <1>2, <1>4, <2>3, <3>2 DEF Direct, Accepted
    <3>4. Downloading
      BY <1>1, <2>2, <2>3, <3>1 DEF Reconciling, Accepted
    <3>5. Downloading'
      BY <1>4, <3>2, <3>4 DEF Downloading
    <3> QED BY <2>1, <2>2, <3>2, <3>3, <3>5 DEF Phases
  <2>4. CASE ToUpload
    <3>1. call.mode = "empty"
      BY <1>1, <2>4 DEF ToUpload, Accepted
    <3>2. PICK refs \in SUBSET Op :
            /\ refs = store["i"] \cap Sendable["i"]
            /\ promised'["i"] = promised["i"] /\ promised'["r"] = refs
            /\ call'.at = "upload" /\ call'.missing = refs /\ call'.awaitingUploadAck
      BY <1>1, <3>1 DEF Becomes
    <3>3. Batches("r") = {} /\ Queued("r") = {} /\ Stream("r") = {} /\ Stream("i") = {}
      BY <2>4 DEF ToUpload, Stream
    <3>4. DoneLast(chan["r"], call.id)' /\ LastIsDone(queue["r"][call.id])'
      <4>1. DoneLast(chan["r"], call.id)
        BY <3>3, NothingGot DEF Batches
      <4>2. LastIsDone(queue["r"][call.id])
        BY <3>3 DEF Queued, Elems, LastIsDone
      <4> QED BY <1>2, <1>4, <4>1, <4>2 DEF ChannelsKept
    <3>5. ~UploadEnds' /\ ToAcknowledge' /\ NotAcknowledged'
      BY <1>2, <1>4, <2>4, <3>3 DEF UploadEnds, ToAcknowledge, NotAcknowledged, ToUpload
    <3>6. ~Session.open
      BY <2>4 DEF ToUpload, NoSession
    <3>7. Uploading'
      BY <1>2, <1>4, <2>4, <3>2, <3>3, <3>4, <3>5, <3>6 DEF ToUpload, Uploading
    <3>8. Downloading'
      BY <2>4, <3>2 DEF ToUpload, Downloading
    <3> QED BY <2>1, <3>2, <3>7, <3>8 DEF Phases
  <2>5. CASE Reconciling
    <3>1. call.mode = "riblt"
      BY <1>1, <2>5 DEF Reconciling, Accepted
    <3>2. PICK refs \in SUBSET Op :
            /\ refs = store["i"] \cap Sendable["i"] /\ promised' = promised
            /\ call'.at = "riblt" /\ call'.refs = refs
            /\ call'.awaitingUploadAck = call.awaitingUploadAck
      BY <1>1, <3>1 DEF Becomes
    <3>3. Codes = {} /\ Statuses = {}
      BY <1>1, <2>5 DEF Reconciling
    <3>4. refs \subseteq store'["i"] \cap Sendable["i"]
      BY <1>1, <3>2
    <3>5. Reconciling'
      BY <1>2, <1>4, <2>5, <3>2, <3>3, <3>4 DEF Reconciling, Accepted, ChannelsKept
    <3> QED BY <2>1, <2>2, <3>2, <3>5 DEF Phases
  <2> QED BY <2>2, <2>3, <2>4, <2>5
<1> QED BY <1>1, <1>2, <1>3, <1>5, <1>6, <1>7, InvFinish

(* What a message of the current call changes in the views. *)

ToResponderKept ==
    /\ Codes' = Codes /\ Batches("r")' = Batches("r")
    /\ One(chan["r"], "ribltCodewords", call.id) => One(chan["r"], "ribltCodewords", call.id)'
    /\ DoneLast(chan["r"], call.id) => DoneLast(chan["r"], call.id)'
ToInitiatorKept ==
    /\ Acks' = Acks /\ Statuses' = Statuses /\ Errors' = Errors /\ Batches("i")' = Batches("i")
    /\ One(chan["i"], "ribltStatus", call.id) => One(chan["i"], "ribltStatus", call.id)'
    /\ StatusFirst(chan["i"], call.id) => StatusFirst(chan["i"], call.id)'
    /\ ErrorFirst(chan["i"], call.id) => ErrorFirst(chan["i"], call.id)'

\* A channel that does not change.
LEMMA KeptChannels ==
  ASSUME call'.id = call.id
  PROVE  /\ chan'["r"] = chan["r"] => ToResponderKept
         /\ chan'["i"] = chan["i"] => ToInitiatorKept
BY DEF ToResponderKept, ToInitiatorKept, Codes, Batches, Acks, Statuses, Errors

\* A message of the current call is sent to the responder.
LEMMA SentToResponder ==
  ASSUME TypeOK, call'.id = call.id, NEW m \in Message, NEW type, Is(m, type, call.id),
         chan'["r"] = Append(chan["r"], m)
  PROVE  /\ type # "ribltCodewords" =>
              /\ Codes' = Codes
              /\ One(chan["r"], "ribltCodewords", call.id) => One(chan["r"], "ribltCodewords", call.id)'
         /\ type = "ribltCodewords" =>
              /\ Codes' = Codes \cup {m}
              /\ Codes = {} => One(chan["r"], "ribltCodewords", call.id)'
         /\ type # "opsBatch" =>
              /\ Batches("r")' = Batches("r")
              /\ DoneLast(chan["r"], call.id) => DoneLast(chan["r"], call.id)'
         /\ type = "opsBatch" =>
              /\ Batches("r")' = Batches("r") \cup {m}
              /\ DoneLast(chan["r"], call.id) /\ (\A b \in Batches("r") : ~b.done)
                   => DoneLast(chan["r"], call.id)'
<1> DEFINE s == chan["r"]
           t == Append(chan["r"], m)
           id == call.id
<1>1. s \in Seq(Message) /\ chan'["r"] = t /\ call'.id = id
  BY DEF TypeOK, Peer
<1>2. \A ty : Is(m, ty, id) <=> ty = type
  BY DEF Is
<1>3. ASSUME NEW ty PROVE Got(t, ty, id) = IF ty = type THEN Got(s, ty, id) \cup {m} ELSE Got(s, ty, id)
  <2>1. Got(t, ty, id) = IF Is(m, ty, id) THEN Got(s, ty, id) \cup {m} ELSE Got(s, ty, id)
    BY <1>1, AppendGot
  <2> QED BY <1>2, <2>1
<1>4. /\ \A ty : One(s, ty, id) /\ (Is(m, ty, id) => Got(s, ty, id) = {}) => One(t, ty, id)
      /\ DoneLast(s, id) /\ (Is(m, "opsBatch", id) => \A b \in Got(s, "opsBatch", id) : ~b.done)
           => DoneLast(t, id)
  <2>1. s \in Seq(Message) /\ t = Append(s, m)
    BY <1>1
  <2> HIDE DEF s, t, id
  <2>2. \A ty : One(s, ty, id) /\ (Is(m, ty, id) => Got(s, ty, id) = {}) => One(t, ty, id)
    BY <2>1, AppendChannel
  <2>3. DoneLast(s, id) /\ (Is(m, "opsBatch", id) => \A b \in Got(s, "opsBatch", id) : ~b.done)
          => DoneLast(t, id)
    BY <2>1, AppendChannel
  <2> QED BY <2>2, <2>3
<1>5. Codes = {} => One(s, "ribltCodewords", id)
  BY NothingGot DEF Codes
<1>6. /\ Codes = Got(s, "ribltCodewords", id) /\ Codes' = Got(t, "ribltCodewords", id)
      /\ Batches("r") = Got(s, "opsBatch", id) /\ Batches("r")' = Got(t, "opsBatch", id)
  BY <1>1 DEF Codes, Batches
<1> HIDE DEF s, t, id
<1>7. /\ One(chan["r"], "ribltCodewords", call.id) = One(s, "ribltCodewords", id)
      /\ One(chan["r"], "ribltCodewords", call.id)' = One(t, "ribltCodewords", id)
      /\ DoneLast(chan["r"], call.id) = DoneLast(s, id)
      /\ DoneLast(chan["r"], call.id)' = DoneLast(t, id)
  BY <1>1 DEF s, t, id
<1>8. /\ Got(t, "ribltCodewords", id) = IF "ribltCodewords" = type THEN Codes \cup {m} ELSE Codes
      /\ Got(t, "opsBatch", id) = IF "opsBatch" = type THEN Batches("r") \cup {m} ELSE Batches("r")
  BY <1>3, <1>6
<1>9. /\ One(s, "ribltCodewords", id) /\ (type = "ribltCodewords" => Codes = {})
           => One(t, "ribltCodewords", id)
      /\ DoneLast(s, id) /\ (type = "opsBatch" => \A b \in Batches("r") : ~b.done)
           => DoneLast(t, id)
  BY <1>2, <1>4, <1>6
<1> QED BY <1>5, <1>6, <1>7, <1>8, <1>9

\* The responder takes a message of the current call.
LEMMA TakenByResponder ==
  ASSUME TypeOK, call'.id = call.id, NEW m, NEW type, Is(m, type, call.id),
         chan["r"] # <<>>, m = Head(chan["r"]), chan'["r"] = Tail(chan["r"])
  PROVE  /\ type # "ribltCodewords" =>
              /\ Codes' = Codes
              /\ One(chan["r"], "ribltCodewords", call.id) => One(chan["r"], "ribltCodewords", call.id)'
         /\ type = "ribltCodewords" =>
              /\ Codes = Codes' \cup {m}
              /\ One(chan["r"], "ribltCodewords", call.id) =>
                   Codes' = {} /\ One(chan["r"], "ribltCodewords", call.id)'
         /\ DoneLast(chan["r"], call.id) => DoneLast(chan["r"], call.id)'
         /\ type # "opsBatch" => Batches("r")' = Batches("r")
         /\ type = "opsBatch" =>
              /\ Batches("r") = Batches("r")' \cup {m}
              /\ DoneLast(chan["r"], call.id) /\ m.done => Batches("r")' = {}
<1> DEFINE s == chan["r"]
           t == Tail(chan["r"])
           id == call.id
<1>1. s \in Seq(Message) /\ chan'["r"] = t /\ call'.id = id /\ s # <<>> /\ m = Head(s)
  BY DEF TypeOK, Peer
<1>2. \A ty : Is(m, ty, id) <=> ty = type
  BY DEF Is
<1>3. /\ \A ty : Is(m, ty, id) => Got(s, ty, id) = Got(t, ty, id) \cup {m}
      /\ \A ty : ~Is(m, ty, id) => Got(t, ty, id) = Got(s, ty, id)
      /\ \A ty : One(s, ty, id) => One(t, ty, id) /\ (Is(m, ty, id) => Got(t, ty, id) = {})
      /\ DoneLast(s, id) => /\ DoneLast(t, id)
                            /\ Is(m, "opsBatch", id) /\ m.done => Got(t, "opsBatch", id) = {}
  <2>1. s \in Seq(Message) /\ s # <<>> /\ t = Tail(s) /\ m = Head(s)
    BY <1>1
  <2> HIDE DEF s, t, id
  <2>2. \A ty : Is(Head(s), ty, id) => Got(s, ty, id) = Got(Tail(s), ty, id) \cup {Head(s)}
    BY <2>1, TailChannel
  <2>3. \A ty : ~Is(Head(s), ty, id) => Got(Tail(s), ty, id) = Got(s, ty, id)
    BY <2>1, TailChannel
  <2>4. \A ty : One(s, ty, id) =>
                  One(Tail(s), ty, id) /\ (Is(Head(s), ty, id) => Got(Tail(s), ty, id) = {})
    BY <2>1, TailChannel
  <2>5. DoneLast(s, id) =>
          /\ DoneLast(Tail(s), id)
          /\ Is(Head(s), "opsBatch", id) /\ Head(s).done => Got(Tail(s), "opsBatch", id) = {}
    BY <2>1, TailChannel
  <2> QED BY <2>1, <2>2, <2>3, <2>4, <2>5
<1>4. /\ Codes = Got(s, "ribltCodewords", id) /\ Codes' = Got(t, "ribltCodewords", id)
      /\ Batches("r") = Got(s, "opsBatch", id) /\ Batches("r")' = Got(t, "opsBatch", id)
  BY <1>1 DEF Codes, Batches
<1> HIDE DEF s, t, id
<1>5. /\ One(chan["r"], "ribltCodewords", call.id) = One(s, "ribltCodewords", id)
      /\ One(chan["r"], "ribltCodewords", call.id)' = One(t, "ribltCodewords", id)
      /\ DoneLast(chan["r"], call.id) = DoneLast(s, id)
      /\ DoneLast(chan["r"], call.id)' = DoneLast(t, id)
  BY <1>1 DEF s, t, id
<1>6. /\ type = "ribltCodewords" => Codes = Codes' \cup {m}
      /\ type # "ribltCodewords" => Codes' = Codes
      /\ type = "opsBatch" => Batches("r") = Batches("r")' \cup {m}
      /\ type # "opsBatch" => Batches("r")' = Batches("r")
  BY <1>2, <1>3, <1>4
<1>7. /\ One(s, "ribltCodewords", id) =>
           One(t, "ribltCodewords", id) /\ (type = "ribltCodewords" => Codes' = {})
      /\ DoneLast(s, id) => DoneLast(t, id) /\ (type = "opsBatch" /\ m.done => Batches("r")' = {})
  BY <1>2, <1>3, <1>4
<1> QED BY <1>5, <1>6, <1>7

\* A message is sent to the initiator.
LEMMA SentToInitiator ==
  ASSUME TypeOK, NEW s \in Seq(Message), NEW m \in Message, NEW type, NEW id, Is(m, type, id),
         NEW t, t = Append(s, m)
  PROVE  /\ t \in Seq(Message)
         /\ \A ty : ty # type => Got(t, ty, id) = Got(s, ty, id)
         /\ Got(t, type, id) = Got(s, type, id) \cup {m}
         /\ type # "ribltStatus" =>
              (One(s, "ribltStatus", id) => One(t, "ribltStatus", id))
         /\ type = "ribltStatus" /\ Got(s, "ribltStatus", id) = {} => One(t, "ribltStatus", id)
         /\ type # "ribltStatus" \/ Got(s, "opsBatch", id) = {} =>
              (StatusFirst(s, id) => StatusFirst(t, id))
         /\ ErrorFirst(s, id) => ErrorFirst(t, id)
         /\ type = "error" /\ (\A b \in Got(s, "opsBatch", id) : ~Bare(b)) => ErrorFirst(t, id)
<1>1. \A ty : Is(m, ty, id) <=> ty = type
  BY DEF Is
<1>2. t \in Seq(Message)
  BY AppendProperties
<1>3. ASSUME NEW ty PROVE Got(t, ty, id) = IF ty = type THEN Got(s, ty, id) \cup {m} ELSE Got(s, ty, id)
  <2>1. Got(t, ty, id) = IF Is(m, ty, id) THEN Got(s, ty, id) \cup {m} ELSE Got(s, ty, id)
    BY AppendGot
  <2> QED BY <1>1, <2>1
<1>4. \A ty : One(s, ty, id) /\ (Is(m, ty, id) => Got(s, ty, id) = {}) => One(t, ty, id)
  BY AppendChannel
<1>5. StatusFirst(s, id) /\ (Is(m, "ribltStatus", id) => Got(s, "opsBatch", id) = {})
        => StatusFirst(t, id)
  BY AppendChannel
<1>6. ErrorFirst(s, id) => ErrorFirst(t, id)
  BY AppendChannel
<1>7. Is(m, "error", id) /\ (\A b \in Got(s, "opsBatch", id) : ~Bare(b)) => ErrorFirst(t, id)
  BY AppendChannel
<1>8. Got(s, "ribltStatus", id) = {} => One(s, "ribltStatus", id)
  BY NothingGot
<1>9. /\ type # "ribltStatus" => (One(s, "ribltStatus", id) => One(t, "ribltStatus", id))
      /\ type = "ribltStatus" /\ Got(s, "ribltStatus", id) = {} => One(t, "ribltStatus", id)
  BY <1>1, <1>4, <1>8
<1> QED BY <1>1, <1>2, <1>3, <1>5, <1>6, <1>7, <1>9

\* The initiator takes a message of the current call.
LEMMA TakenByInitiator ==
  ASSUME TypeOK, call'.id = call.id, NEW m, NEW type, Is(m, type, call.id),
         chan["i"] # <<>>, m = Head(chan["i"]), chan'["i"] = Tail(chan["i"])
  PROVE  /\ type # "helloAck" => Acks' = Acks
         /\ type = "helloAck" => Acks = Acks' \cup {m}
         /\ type # "ribltStatus" => Statuses' = Statuses
         /\ type = "ribltStatus" => Statuses = Statuses' \cup {m}
         /\ One(chan["i"], "ribltStatus", call.id) =>
              One(chan["i"], "ribltStatus", call.id)' /\ (type = "ribltStatus" => Statuses' = {})
         /\ type # "error" => Errors' = Errors
         /\ type = "error" => Errors = Errors' \cup {m}
         /\ type # "opsBatch" => Batches("i")' = Batches("i")
         /\ type = "opsBatch" => Batches("i") = Batches("i")' \cup {m}
         /\ StatusFirst(chan["i"], call.id) =>
              StatusFirst(chan["i"], call.id)' /\ (type = "opsBatch" => Statuses = {})
         /\ ErrorFirst(chan["i"], call.id) =>
              /\ ~(type = "opsBatch" /\ Bare(m))
              /\ type # "error" => ErrorFirst(chan["i"], call.id)'
<1> DEFINE s == chan["i"]
           t == Tail(chan["i"])
           id == call.id
<1>1. s \in Seq(Message) /\ chan'["i"] = t /\ call'.id = id /\ s # <<>> /\ m = Head(s) /\ t = Tail(s)
  BY DEF TypeOK, Peer
<1>2. \A ty : Is(m, ty, id) <=> ty = type
  BY DEF Is
<1>3. /\ Acks = Got(s, "helloAck", id) /\ Acks' = Got(t, "helloAck", id)
      /\ Statuses = Got(s, "ribltStatus", id) /\ Statuses' = Got(t, "ribltStatus", id)
      /\ Errors = Got(s, "error", id) /\ Errors' = Got(t, "error", id)
      /\ Batches("i") = Got(s, "opsBatch", id) /\ Batches("i")' = Got(t, "opsBatch", id)
  BY <1>1 DEF Acks, Statuses, Errors, Batches
<1>12. s \in Seq(Message) /\ s # <<>>
  BY <1>1
<1> HIDE DEF s, t, id
<1>4. /\ One(chan["i"], "ribltStatus", call.id) = One(s, "ribltStatus", id)
      /\ One(chan["i"], "ribltStatus", call.id)' = One(t, "ribltStatus", id)
      /\ StatusFirst(chan["i"], call.id) = StatusFirst(s, id)
      /\ StatusFirst(chan["i"], call.id)' = StatusFirst(t, id)
      /\ ErrorFirst(chan["i"], call.id) = ErrorFirst(s, id)
      /\ ErrorFirst(chan["i"], call.id)' = ErrorFirst(t, id)
  BY <1>1 DEF s, t, id
<1>5. \A ty : Is(Head(s), ty, id) => Got(s, ty, id) = Got(Tail(s), ty, id) \cup {Head(s)}
  BY <1>12, TailChannel
<1>6. \A ty : ~Is(Head(s), ty, id) => Got(Tail(s), ty, id) = Got(s, ty, id)
  BY <1>12, TailChannel
<1>7. \A ty : One(s, ty, id) =>
                One(Tail(s), ty, id) /\ (Is(Head(s), ty, id) => Got(Tail(s), ty, id) = {})
  BY <1>12, TailChannel
<1>8. StatusFirst(s, id) => /\ StatusFirst(Tail(s), id)
                            /\ Is(Head(s), "opsBatch", id) => Got(s, "ribltStatus", id) = {}
  BY <1>12, TailChannel
<1>9. ErrorFirst(s, id) => /\ ~(Is(Head(s), "opsBatch", id) /\ Bare(Head(s)))
                           /\ ~Is(Head(s), "error", id) => ErrorFirst(Tail(s), id)
  BY <1>12, TailChannel
<1>10. /\ type # "helloAck" => Acks' = Acks
       /\ type = "helloAck" => Acks = Acks' \cup {m}
       /\ type # "ribltStatus" => Statuses' = Statuses
       /\ type = "ribltStatus" => Statuses = Statuses' \cup {m}
       /\ type # "error" => Errors' = Errors
       /\ type = "error" => Errors = Errors' \cup {m}
       /\ type # "opsBatch" => Batches("i")' = Batches("i")
       /\ type = "opsBatch" => Batches("i") = Batches("i")' \cup {m}
  BY <1>1, <1>2, <1>3, <1>5, <1>6
<1>11. /\ One(s, "ribltStatus", id) =>
            One(t, "ribltStatus", id) /\ (type = "ribltStatus" => Statuses' = {})
       /\ StatusFirst(s, id) => StatusFirst(t, id) /\ (type = "opsBatch" => Statuses = {})
       /\ ErrorFirst(s, id) => /\ ~(type = "opsBatch" /\ Bare(m))
                               /\ type # "error" => ErrorFirst(t, id)
  BY <1>1, <1>2, <1>3, <1>7, <1>8, <1>9
<1> QED BY <1>4, <1>10, <1>11

\* Sessions and queues that do not change.
LEMMA KeptSessions ==
  ASSUME call'.id = call.id, UNCHANGED <<sessions, awaiting, sending, queue>>
  PROVE  /\ Session' = Session /\ Sending' = Sending
         /\ (call.id \in awaiting)' = (call.id \in awaiting)
         /\ Queued("r")' = Queued("r") /\ Queued("i")' = Queued("i")
         /\ queue'["r"][call.id] = queue["r"][call.id]
BY DEF Session, Sending, Queued

\* What is on its way follows from the channel and the queue.
LEMMA StreamsFollow ==
  ASSUME NEW p \in Peer
  PROVE  /\ Batches(p)' = Batches(p) /\ Queued(p)' = Queued(p) =>
              Stream(p)' = Stream(p) /\ OnTheWay(p)' = OnTheWay(p)
         /\ \A m : Batches(p)' = Batches(p) \cup {m} /\ Queued(p)' = Queued(p) =>
              Stream(p)' = Stream(p) \cup {m} /\ OnTheWay(p)' = OnTheWay(p) \cup m.ops
BY DEF Stream, OnTheWay

\* Codewords are sent while the call reconciles.
LEMMA SendCodewordsKeeps ==
  ASSUME Assumptions, SessionInv, SendCodewords
  PROVE  SessionInv'
<1>1. PICK m \in Message :
        /\ TypeOK' /\ call.at = "riblt" /\ ~call.done /\ call.credits > 0 /\ call.id \in Id
        /\ UNCHANGED <<store, sessions, awaiting, sending, queue, promised>>
        /\ Becomes(call.at, call.mode, call.refs, call.ack, call.status, call.received,
                   call.missing, call.credits - 1, call.awaitingUploadAck, call.done)
        /\ Is(m, "ribltCodewords", call.id) /\ m.refs = call.refs
        /\ chan'["r"] = Append(chan["r"], m)
        /\ chan'["i"] = chan["i"]
  BY SendCodewordsStep, AssumptionsGive DEF SessionInv
<1>2. TypeOK /\ call.credits \in Int /\ call.id \in Int /\ call'.id = call.id
      /\ call'.empty = call.empty /\ call'.refs = call.refs
      /\ call'.ack = call.ack /\ call'.received = call.received /\ call'.at = call.at
      /\ call'.mode = call.mode /\ call'.status = call.status /\ call'.done = call.done
      /\ call'.credits = call.credits - 1 /\ call'.awaitingUploadAck = call.awaitingUploadAck
  BY <1>1 DEF SessionInv, Becomes, TypeOK, Call
<1>3. /\ Session' = Session /\ Sending' = Sending
      /\ (call.id \in awaiting)' = (call.id \in awaiting)
      /\ Queued("r")' = Queued("r") /\ Queued("i")' = Queued("i")
  BY <1>1, <1>2, KeptSessions
<1>4. /\ Codes' = Codes \cup {m} /\ Batches("r")' = Batches("r")
      /\ Codes = {} => One(chan["r"], "ribltCodewords", call.id)'
  BY <1>1, <1>2, SentToResponder
<1>5. ToInitiatorKept
  BY <1>1, <1>2, KeptChannels
<1>6. /\ Stream("r")' = Stream("r") /\ Stream("i")' = Stream("i")
      /\ OnTheWay("i")' = OnTheWay("i") /\ OnTheWay("r")' = OnTheWay("r")
  BY <1>3, <1>4, <1>5, StreamsFollow DEF ToInitiatorKept, Peer
<1>7. FutureIsFresh' /\ SendsWhatItMay' /\ GoesOnAccepted' /\ HellosKept
  <2>1. Touches({call.id, 0})
    <3>1. \A p \in Peer : Carried(p, {call.id, 0})
      BY <1>1 DEF Carried, Peer, Is
    <3> QED BY <1>1, <3>1 DEF Touches
  <2>2. FutureIsFresh'
    <3>1. call.id <= call'.id
      BY <1>2
    <3> QED BY <1>2, <2>1, <3>1, FutureStaysFresh DEF SessionInv
  <2>3. HellosKept
    <3>1. m.type # "hello"
      BY <1>1 DEF Is
    <3> QED BY <1>1, <1>2, <3>1, HellosAreKept
  <2> QED BY <1>1, <1>2, <2>2, <2>3 DEF SessionInv, SendsWhatItMay, GoesOnAccepted
<1>8. Hellos = {} /\ Refusals = {}
  BY <1>1 DEF SessionInv, OneHello, Greeting
<1>9. ASSUME Alive' PROVE Alive /\ Phases'
  <2>1. Alive
    BY <1>2, <1>9 DEF Alive
  <2>2. Reconciling /\ ~call.awaitingUploadAck /\ promised["r"] = {}
    BY <1>1, <2>1 DEF SessionInv, Phases, Greeting, Direct, ToUpload, Decoded, Finishing, Uploading
  <2>3. call.credits = 1 /\ Codes = {} /\ Statuses = {}
    BY <1>1, <1>2, <2>2 DEF Reconciling
  <2>4. \A c \in Codes' : c.refs = call'.refs
    BY <1>1, <1>2, <1>4, <2>3
  <2>5. Statuses' = {} /\ One(chan["i"], "ribltStatus", call.id)'
        /\ One(chan["r"], "ribltCodewords", call.id)' /\ Acks' = Acks /\ Errors' = Errors
    BY <1>4, <1>5, <2>2, <2>3 DEF ToInitiatorKept, Reconciling
  <2>6. Reconciling'
    BY <1>1, <1>2, <1>3, <1>6, <2>2, <2>3, <2>4, <2>5 DEF Reconciling, Accepted
  <2> QED BY <1>1, <1>2, <2>1, <2>2, <2>6 DEF Phases
<1> QED BY <1>1, <1>2, <1>7, <1>8, <1>9, InvFinish

\* Giving up, going on to the upload and returning move the call only.
LEMMA PlaceKeeps ==
  ASSUME Assumptions, SessionInv, GiveUp \/ AfterStatus \/ Return
  PROVE  SessionInv'
<1>1. PICK at \in {"failed", "upload", "ok"} :
        /\ TypeOK'
        /\ UNCHANGED <<store, chan, sessions, awaiting, sending, queue, promised>>
        /\ Becomes(at, call.mode, call.refs, call.ack, call.status, call.received,
                   call.missing, call.credits, call.awaitingUploadAck, call.done)
        /\ at = "upload" => AfterStatus
        /\ at = "ok" => call.at = "receive" /\ call.received = "resolved"
  BY PlaceStep DEF SessionInv
<1>2. /\ call'.id = call.id /\ call'.empty = call.empty /\ call'.refs = call.refs
      /\ call'.ack = call.ack /\ call'.received = call.received /\ call'.at = at
      /\ call'.mode = call.mode /\ call'.status = call.status /\ call'.done = call.done
      /\ call'.missing = call.missing /\ call'.awaitingUploadAck = call.awaitingUploadAck
  BY <1>1 DEF Becomes
<1>3. at # "failed" => call.at \in {"riblt", "receive"}
  BY <1>1 DEF AfterStatus
<1>4. View /\ HellosKept
  BY <1>1, <1>2, NothingTouched
<1>5. /\ Session' = Session /\ Sending' = Sending
      /\ (call.id \in awaiting)' = (call.id \in awaiting)
      /\ Codes' = Codes /\ Acks' = Acks /\ Statuses' = Statuses /\ Errors' = Errors
      /\ Batches("r")' = Batches("r") /\ Queued("r")' = Queued("r")
      /\ Queued("i")' = Queued("i") /\ queue'["r"][call.id] = queue["r"][call.id]
      /\ Stream("r")' = Stream("r") /\ Stream("i")' = Stream("i")
      /\ OnTheWay("r")' = OnTheWay("r") /\ OnTheWay("i")' = OnTheWay("i") /\ ChannelsKept
  BY <1>4, ViewGives
<1>6. FutureIsFresh' /\ SendsWhatItMay' /\ GoesOnAccepted'
  <2>1. FutureIsFresh'
    BY <1>1, <1>2 DEF SessionInv, FutureIsFresh, Fresh
  <2>2. call.at # "none"
    BY DEF GiveUp, AfterStatus, Return
  <2> QED BY <1>1, <1>2, <1>3, <2>1, <2>2 DEF SessionInv, SendsWhatItMay, GoesOnAccepted
<1>7. Hellos = {} /\ Refusals = {}
  BY DEF SessionInv, OneHello, Greeting, GiveUp, AfterStatus, Return
<1>8. ASSUME Alive' PROVE Alive /\ Phases'
  <2>1. Alive /\ at # "failed"
    BY <1>2, <1>3, <1>8 DEF Alive
  <2>2. \/ at = "upload" /\ call.at = "riblt" /\ call.done /\ call.status = "decoded"
        \/ at = "ok" /\ call.at = "receive" /\ call.received = "resolved"
    BY <1>1, <2>1 DEF AfterStatus
  <2>3. /\ Downloading
        /\ \/ ~call.awaitingUploadAck /\ promised["r"] = {} /\ (Direct \/ Finishing)
           \/ Uploading
    BY <2>1, <2>2 DEF SessionInv, Phases, Greeting, ToUpload, Reconciling, Decoded
  <2>4. Downloading' /\ promised' = promised /\ store' = store
    BY <1>1, <1>5, <2>3 DEF Downloading
  <2>5. Direct => Direct'
    BY <1>2, <1>5, <2>2 DEF Direct, Accepted
  <2>6. Finishing => Finishing'
    BY <1>2, <1>5, <2>2 DEF Finishing
  <2>7. Uploading => Uploading'
    <3>1. UploadEnds' = UploadEnds /\ ToAcknowledge' = ToAcknowledge
          /\ NotAcknowledged' = NotAcknowledged /\ (Refused => Refused')
      BY <1>2, <1>5 DEF UploadEnds, ToAcknowledge, NotAcknowledged, Refused, ChannelsKept
    <3> QED BY <1>2, <1>5, <2>2, <2>4, <3>1 DEF Uploading, ChannelsKept
  <2> QED BY <1>2, <2>1, <2>2, <2>3, <2>4, <2>5, <2>6, <2>7 DEF Phases
<1> QED BY <1>1, <1>2, <1>4, <1>6, <1>7, <1>8, InvFinish

\* A chunk leaves the operations to upload for the channel; the last one is done.
LEMMA UploadKeeps ==
  ASSUME Assumptions, SessionInv, Upload
  PROVE  SessionInv'
<1>1. PICK chunk \in SUBSET call.missing :
        /\ TypeOK' /\ call.at = "upload" /\ call.id \in Id /\ chan'["i"] = chan["i"]
        /\ UNCHANGED <<store, sessions, awaiting, sending, queue, promised>>
        /\ Becomes(IF chunk = call.missing THEN "receive" ELSE "upload", call.mode, call.refs,
                   call.ack, call.status, call.received, call.missing \ chunk,
                   call.credits, call.awaitingUploadAck, call.done)
        /\ \/ /\ chunk # call.missing /\ chunk \cap Sendable["i"] = {}
              /\ chan'["r"] = chan["r"]
           \/ \E m \in Message :
                 /\ m = Batch(call.id, chunk \cap Sendable["i"], chunk = call.missing)
                 /\ chan'["r"] = Append(chan["r"], m)
  BY UploadStep, AssumptionsGive DEF SessionInv
<1>2. /\ TypeOK /\ call.id \in Int /\ call'.id = call.id /\ call'.empty = call.empty
      /\ call'.refs = call.refs /\ call'.ack = call.ack /\ call'.received = call.received
      /\ call'.at = (IF chunk = call.missing THEN "receive" ELSE "upload")
      /\ call'.mode = call.mode /\ call'.status = call.status /\ call'.done = call.done
      /\ call'.missing = call.missing \ chunk /\ call'.awaitingUploadAck = call.awaitingUploadAck
  BY <1>1 DEF SessionInv, Becomes, TypeOK, Call
<1>3. /\ Session' = Session /\ Sending' = Sending
      /\ (call.id \in awaiting)' = (call.id \in awaiting)
      /\ Queued("r")' = Queued("r") /\ Queued("i")' = Queued("i")
      /\ queue'["r"][call.id] = queue["r"][call.id]
  BY <1>1, <1>2, KeptSessions
<1>4. ToInitiatorKept
  BY <1>1, <1>2, KeptChannels
<1>5. Stream("i")' = Stream("i") /\ OnTheWay("i")' = OnTheWay("i")
  BY <1>3, <1>4, StreamsFollow DEF ToInitiatorKept, Peer
<1>6. \/ /\ chunk # call.missing /\ chunk \cap Sendable["i"] = {} /\ Codes' = Codes
         /\ Batches("r")' = Batches("r") /\ Stream("r")' = Stream("r")
         /\ OnTheWay("r")' = OnTheWay("r")
         /\ DoneLast(chan["r"], call.id) => DoneLast(chan["r"], call.id)'
      \/ \E m : /\ m.ops = chunk \cap Sendable["i"] /\ m.done = (chunk = call.missing)
                /\ Codes' = Codes /\ Batches("r")' = Batches("r") \cup {m}
                /\ Stream("r")' = Stream("r") \cup {m}
                /\ OnTheWay("r")' = OnTheWay("r") \cup m.ops
                /\ DoneLast(chan["r"], call.id) /\ (\A b \in Batches("r") : ~b.done)
                     => DoneLast(chan["r"], call.id)'
  <2>1. CASE chunk # call.missing /\ chunk \cap Sendable["i"] = {} /\ chan'["r"] = chan["r"]
    <3>1. ToResponderKept
      BY <1>2, <2>1, KeptChannels
    <3>2. Stream("r")' = Stream("r") /\ OnTheWay("r")' = OnTheWay("r")
      BY <1>3, <3>1, StreamsFollow DEF ToResponderKept, Peer
    <3> QED BY <2>1, <3>1, <3>2 DEF ToResponderKept
  <2>2. ASSUME NEW m \in Message,
               m = Batch(call.id, chunk \cap Sendable["i"], chunk = call.missing),
               chan'["r"] = Append(chan["r"], m)
        PROVE  /\ m.ops = chunk \cap Sendable["i"] /\ m.done = (chunk = call.missing)
               /\ Codes' = Codes /\ Batches("r")' = Batches("r") \cup {m}
               /\ Stream("r")' = Stream("r") \cup {m}
               /\ OnTheWay("r")' = OnTheWay("r") \cup m.ops
               /\ DoneLast(chan["r"], call.id) /\ (\A b \in Batches("r") : ~b.done)
                    => DoneLast(chan["r"], call.id)'
    <3>1. Is(m, "opsBatch", call.id) /\ m.ops = chunk \cap Sendable["i"]
          /\ m.done = (chunk = call.missing)
      BY <2>2 DEF Batch, Is
    <3>2. /\ Codes' = Codes /\ Batches("r")' = Batches("r") \cup {m}
          /\ DoneLast(chan["r"], call.id) /\ (\A b \in Batches("r") : ~b.done)
               => DoneLast(chan["r"], call.id)'
      <4>1. TypeOK /\ call'.id = call.id /\ chan'["r"] = Append(chan["r"], m)
        BY <1>2, <2>2
      <4>2. m \in Message /\ Is(m, "opsBatch", call.id)
        BY <3>1
      <4> QED BY <4>1, <4>2, SentToResponder
    <3>3. Stream("r")' = Stream("r") \cup {m} /\ OnTheWay("r")' = OnTheWay("r") \cup m.ops
      BY <1>3, <3>2, StreamsFollow DEF Peer
    <3> QED BY <3>1, <3>2, <3>3
  <2> QED BY <1>1, <2>1, <2>2
<1>7. FutureIsFresh' /\ SendsWhatItMay' /\ GoesOnAccepted' /\ HellosKept
  <2>1. Touches({call.id, 0}) /\ HellosKept
    <3>1. chan'["r"] = chan["r"] \/ \E m \in Message : /\ m.id = call.id /\ m.type # "hello"
                                                      /\ chan'["r"] = Append(chan["r"], m)
      BY <1>1 DEF Batch
    <3>2. \A p \in Peer : Carried(p, {call.id, 0})
      BY <1>1, <3>1 DEF Carried, Peer
    <3> QED BY <1>1, <1>2, <3>1, <3>2, HellosAreKept DEF Touches
  <2>2. FutureIsFresh'
    <3>1. call.id <= call'.id
      BY <1>2
    <3> QED BY <1>2, <2>1, <3>1, FutureStaysFresh DEF SessionInv
  <2>3. call'.at # "none" /\ call.ack = "resolved"
    BY <1>1, <1>2 DEF SessionInv, GoesOnAccepted
  <2> QED BY <1>1, <1>2, <2>1, <2>2, <2>3 DEF SessionInv, SendsWhatItMay, GoesOnAccepted
<1>8. Hellos = {} /\ Refusals = {}
  BY <1>1 DEF SessionInv, OneHello, Greeting
<1>9. ASSUME Alive' PROVE Alive /\ Phases'
  <2>1. Alive
    BY <1>1, <1>2, <1>9 DEF Alive
  <2>2. Downloading /\ ((~call.awaitingUploadAck /\ promised["r"] = {} /\ Finishing) \/ Uploading)
    BY <1>1, <2>1 DEF SessionInv, Phases, Greeting, Direct, ToUpload, Reconciling, Decoded
  <2>3. Downloading' /\ promised' = promised /\ store' = store
    BY <1>1, <1>3, <1>5, <2>2 DEF Downloading
  <2>4. /\ Statuses' = Statuses /\ Errors' = Errors /\ Codes' = Codes
        /\ ErrorFirst(chan["i"], call.id) => ErrorFirst(chan["i"], call.id)'
    BY <1>4, <1>6 DEF ToInitiatorKept
  <2>5. CASE Uploading
    <3>1. /\ ~UploadEnds /\ ToAcknowledge /\ NotAcknowledged
          /\ promised["r"] \subseteq Sendable["i"]
          /\ DoneLast(chan["r"], call.id) /\ LastIsDone(queue["r"][call.id])
      BY <1>1, <2>5 DEF Uploading
    <3>2. /\ \A b \in Batches("r") : ~b.done
          /\ \A b \in Queued("r") : ~b.done
      BY <3>1 DEF UploadEnds, Stream
    <3>3. ToAcknowledge' /\ NotAcknowledged' /\ (Refused => Refused')
      BY <1>2, <1>3, <1>5, <2>4, <3>1 DEF ToAcknowledge, NotAcknowledged, Refused
    <3>4. DoneLast(chan["r"], call.id)' /\ LastIsDone(queue["r"][call.id])'
      BY <1>2, <1>3, <1>6, <3>1, <3>2
    <3>5. promised["r"] \subseteq store["r"] \cup OnTheWay("r") \cup call.missing =>
            promised["r"] \subseteq store["r"] \cup OnTheWay("r")' \cup (call.missing \ chunk)
      <4>1. \A o \in promised["r"] : o \in chunk => o \in chunk \cap Sendable["i"]
        BY <3>1
      <4> QED BY <1>6, <4>1
    <3>6. UploadEnds' <=> chunk = call.missing
      BY <1>6, <3>1 DEF UploadEnds
    <3>7. /\ Codes' = {} /\ Statuses' = {} /\ (Errors' # {} => Refused')
          /\ call'.awaitingUploadAck /\ call'.at \in {"upload", "receive"}
          /\ call'.at = "receive" => call'.missing = {} /\ UploadEnds'
          /\ call'.at = "upload" => ~UploadEnds'
          /\ (Session.open => Session.incoming /\ call.id \notin awaiting)'
          /\ (Sending.active => Sending.refs # {})'
          /\ ((\E m \in Queued("r") : m.done) => Batches("r") = {})'
      BY <1>2, <1>3, <2>4, <2>5, <3>2, <3>3, <3>6 DEF Uploading
    <3>8. (promised["r"] \subseteq store["r"] \cup OnTheWay("r") \cup call.missing \/ Refused)'
      BY <1>2, <2>3, <2>5, <3>3, <3>5 DEF Uploading
    <3>9. Uploading'
      BY <2>3, <3>1, <3>3, <3>4, <3>7, <3>8 DEF Uploading
    <3> QED BY <1>2, <2>1, <2>3, <3>7, <3>9 DEF Phases
  <2>6. CASE Finishing
    <3>1. chunk = call.missing /\ chunk = {} /\ OnTheWay("r") = {}
      BY <2>6 DEF Finishing
    <3>2. OnTheWay("r")' = {}
      BY <1>6, <3>1
    <3>3. (~call.awaitingUploadAck /\ promised["r"] = {}) \/ Uploading
      BY <2>2
    <3>4. call'.at = "receive" /\ call'.missing = {}
      BY <1>2, <3>1
    <3>5. Finishing'
      BY <1>2, <1>3, <2>4, <2>6, <3>2, <3>4 DEF Finishing
    <3> QED BY <1>2, <2>1, <2>3, <3>3, <3>4, <3>5, <2>5 DEF Phases
  <2> QED BY <2>2, <2>5, <2>6
<1> QED BY <1>1, <1>2, <1>7, <1>8, <1>9, InvFinish

\* What a channel holds of every call after a message is sent on it.
LEMMA AppendedGot ==
  ASSUME TypeOK, NEW p \in Peer, NEW n \in Message, chan'[p] = Append(chan[p], n)
  PROVE  \A type, id : Got(chan'[p], type, id) =
                          IF Is(n, type, id) THEN Got(chan[p], type, id) \cup {n}
                          ELSE Got(chan[p], type, id)
<1> DEFINE s == chan[p]
<1>1. s \in Seq(Message) /\ chan'[p] = Append(s, n)
  BY DEF TypeOK
<1>2. \A type, id : Got(Append(s, n), type, id) =
                      IF Is(n, type, id) THEN Got(s, type, id) \cup {n} ELSE Got(s, type, id)
  <2> HIDE DEF s
  <2>1. s \in Seq(Message)
    BY <1>1
  <2> QED BY <2>1, AppendGot
<1> QED BY <1>1, <1>2

\* The responder takes the Hello.
LEMMA HelloTaken ==
  ASSUME TypeOK, OneHello, call' = call, NEW m, m.id \in Id, Is(m, "hello", m.id),
         chan["r"] # <<>>, m = Head(chan["r"]), chan'["r"] = Tail(chan["r"])
  PROVE  /\ m.id = call.id /\ m.request = call.empty /\ Greeting /\ Acks = {} /\ Refusals = {}
         /\ Hellos' = {} /\ One(chan["r"], "hello", call.id)'
         /\ \A id \in Id : id # call'.id => Got(chan["r"], "hello", id)' = {}
         /\ ToResponderKept
<1> DEFINE s == chan["r"]
           t == Tail(chan["r"])
<1>1. s \in Seq(Message) /\ s # <<>> /\ m = Head(s) /\ chan'["r"] = t /\ t = Tail(s)
  BY DEF TypeOK, Peer
<1>2. /\ \A id \in Id : id # call.id => Got(s, "hello", id) = {}
      /\ One(s, "hello", call.id) /\ Hellos = Got(s, "hello", call.id)
      /\ Hellos' = Got(t, "hello", call.id)
  BY <1>1 DEF OneHello, Hellos
<1>3. call'.id = call.id
  OBVIOUS
<1> HIDE DEF s, t
<1>4. s \in Seq(Message) /\ s # <<>>
  BY <1>1
<1>5. \A ty, id : Is(Head(s), ty, id) => Got(s, ty, id) = Got(Tail(s), ty, id) \cup {Head(s)}
  BY <1>4, TailChannel
<1>6. \A ty, id : ~Is(Head(s), ty, id) => Got(Tail(s), ty, id) = Got(s, ty, id)
  <2>1. ASSUME NEW id
        PROVE  \A ty : ~Is(Head(s), ty, id) => Got(Tail(s), ty, id) = Got(s, ty, id)
    BY <1>4, TailChannel
  <2> QED BY <2>1
<1>7. \A ty, id : One(s, ty, id) =>
                    One(Tail(s), ty, id) /\ (Is(Head(s), ty, id) => Got(Tail(s), ty, id) = {})
  <2>1. ASSUME NEW id
        PROVE  \A ty : One(s, ty, id) =>
                 One(Tail(s), ty, id) /\ (Is(Head(s), ty, id) => Got(Tail(s), ty, id) = {})
    BY <1>4, TailChannel
  <2> QED BY <2>1
<1>8. m \in Got(s, "hello", m.id)
  BY <1>1, <1>5
<1>9. m.id = call.id
  BY <1>2, <1>8
<1>10. One(t, "hello", call.id) /\ Hellos' = {}
  BY <1>1, <1>2, <1>7, <1>9
<1>11. m \in Hellos
  BY <1>2, <1>8, <1>9
<1>12. m.request = call.empty /\ Greeting /\ Acks = {} /\ Refusals = {}
  BY <1>11 DEF OneHello
<1>13. \A id \in Id : id # call.id => Got(t, "hello", id) = {}
  <2>1. \A id \in Id : id # call.id => ~Is(Head(s), "hello", id)
    BY <1>1, <1>9 DEF Is
  <2> QED BY <1>1, <1>2, <1>6, <2>1
<1>14. ToResponderKept
  <2>1. Is(m, "hello", call.id)
    BY <1>9
  <2>2. /\ Codes' = Codes
        /\ One(chan["r"], "ribltCodewords", call.id) => One(chan["r"], "ribltCodewords", call.id)'
    BY <1>3, <2>1, TakenByResponder
  <2>3. Batches("r")' = Batches("r")
    BY <1>3, <2>1, TakenByResponder
  <2>4. DoneLast(chan["r"], call.id) => DoneLast(chan["r"], call.id)'
    BY <1>3, <2>1, TakenByResponder
  <2> QED BY <2>2, <2>3, <2>4 DEF ToResponderKept
<1> QED BY <1>1, <1>9, <1>10, <1>12, <1>13, <1>14

\* A refused Hello leaves the error or the HelloAck that refuses the call.
LEMMA RefuseHelloKeeps ==
  ASSUME Assumptions, SessionInv, RefuseHello
  PROVE  SessionInv'
<1>1. PICK m \in Message, n \in Message :
        /\ TypeOK' /\ UNCHANGED <<store, call, sessions, awaiting, sending, queue, promised>>
        /\ chan["r"] # <<>> /\ m = Head(chan["r"]) /\ Is(m, "hello", m.id) /\ m.id \in Id
        /\ chan'["r"] = Tail(chan["r"]) /\ chan'["i"] = Append(chan["i"], n)
        /\ Is(n, "error", 0) \/ (Is(n, "helloAck", m.id) /\ ~n.accepted)
  BY RefuseHelloStep, AssumptionsGive DEF SessionInv
<1>2. TypeOK /\ OneHello /\ call'.id = call.id /\ chan["i"] \in Seq(Message)
  BY <1>1 DEF SessionInv, TypeOK, Peer
<1>3. /\ m.id = call.id /\ Greeting /\ Acks = {} /\ Refusals = {}
      /\ Hellos' = {} /\ One(chan["r"], "hello", call.id)'
      /\ \A id \in Id : id # call'.id => Got(chan["r"], "hello", id)' = {}
      /\ ToResponderKept
  BY <1>1, <1>2, HelloTaken
<1>4. /\ Session' = Session /\ Sending' = Sending
      /\ (call.id \in awaiting)' = (call.id \in awaiting)
      /\ Queued("r")' = Queued("r") /\ Queued("i")' = Queued("i")
  BY <1>1, <1>2, KeptSessions
<1>5. FutureIsFresh' /\ SendsWhatItMay' /\ GoesOnAccepted'
  <2>1. Touches({call.id, 0})
    <3>1. \A p \in Peer : Carried(p, {call.id, 0})
      BY <1>1, <1>3 DEF Carried, Peer, Is
    <3> QED BY <1>1, <3>1 DEF Touches
  <2>2. call.id \in Int /\ call'.id = call.id /\ call.id <= call'.id
    BY <1>1, <1>3 DEF Id
  <2>3. FutureIsFresh'
    BY <2>1, <2>2, FutureStaysFresh DEF SessionInv
  <2> QED BY <1>1, <2>3 DEF SessionInv, SendsWhatItMay, GoesOnAccepted
<1>6. /\ One(chan["i"], "error", 0)'
      /\ Statuses' = Statuses /\ Errors' = Errors /\ Batches("i")' = Batches("i")
      /\ \A a \in Acks' : ~a.accepted
      /\ Refusals' # {} => Acks' = {}
  <2>1. One(chan["i"], "error", 0) /\ Got(chan["i"], "error", 0) = {}
    BY <1>2, <1>3 DEF OneHello, Refusals
  <2>2. One(chan["i"], "error", 0)'
    <3>1. \A ty : One(chan["i"], ty, 0) /\ (Is(n, ty, 0) => Got(chan["i"], ty, 0) = {})
                    => One(Append(chan["i"], n), ty, 0)
      <4>1. chan["i"] \in Seq(Message)
        BY <1>2
      <4> QED BY <4>1, AppendChannel
    <3> QED BY <1>1, <2>1, <3>1
  <2>3. \A ty, id : Got(chan'["i"], ty, id) =
                      IF Is(n, ty, id) THEN Got(chan["i"], ty, id) \cup {n}
                      ELSE Got(chan["i"], ty, id)
    BY <1>1, <1>2, AppendedGot DEF Peer
  <2>4. ~Is(n, "ribltStatus", call.id) /\ ~Is(n, "error", call.id) /\ ~Is(n, "opsBatch", call.id)
        /\ (Is(n, "helloAck", call.id) => ~n.accepted /\ ~Is(n, "error", 0))
    BY <1>1, <1>3 DEF Is, Id
  <2>5. Statuses' = Statuses /\ Errors' = Errors /\ Batches("i")' = Batches("i")
    BY <1>1, <1>2, <2>3, <2>4 DEF Statuses, Errors, Batches
  <2>6. Acks' = IF Is(n, "helloAck", call.id) THEN {n} ELSE {}
    BY <1>1, <1>2, <1>3, <2>3 DEF Acks
  <2>7. Refusals' = IF Is(n, "error", 0) THEN {n} ELSE {}
    BY <1>1, <1>3, <2>3 DEF Refusals
  <2> QED BY <2>2, <2>4, <2>5, <2>6, <2>7
<1>7. Stream("r")' = Stream("r") /\ Stream("i")' = Stream("i")
  BY <1>3, <1>4, <1>6, StreamsFollow DEF ToResponderKept, Peer
<1>8. Greeting'
  BY <1>1, <1>3, <1>4, <1>6, <1>7 DEF Greeting, ToResponderKept
<1>9. OneHello'
  BY <1>3, <1>6, <1>8 DEF OneHello
<1>10. Phases'
  <2>1. call'.at = "ack" /\ ~call'.awaitingUploadAck /\ promised'["r"] = {} /\ promised'["i"] = {}
    BY <1>8 DEF Greeting, Peer
  <2> QED BY <1>8, <2>1 DEF Phases, Downloading
<1> QED BY <1>1, <1>5, <1>9, <1>10 DEF SessionInv

\* An accepted Hello takes the call to one of three phases.
LEMMA OnHelloKeeps ==
  ASSUME Assumptions, NothingHidden, SessionInv, OnHello
  PROVE  SessionInv'
<1>1. PICK m \in Message, n \in Message, refs \in SUBSET Sendable["r"] :
        /\ TypeOK' /\ UNCHANGED <<store, call, queue>>
        /\ promised'["i"] = store["r"] \cap Sendable["r"] /\ promised'["r"] = promised["r"]
        /\ chan["r"] # <<>> /\ m = Head(chan["r"]) /\ Is(m, "hello", m.id) /\ m.id \in Id
        /\ chan'["r"] = Tail(chan["r"]) /\ chan'["i"] = Append(chan["i"], n)
        /\ Is(n, "helloAck", m.id) /\ n.accepted
        /\ refs = store["r"] \cap Sendable["r"]
        /\ \/ /\ n.mode = "direct" /\ m.request
              /\ sending' = [sending EXCEPT ![m.id] = [refs |-> refs, active |-> TRUE]]
              /\ UNCHANGED <<sessions, awaiting>>
           \/ /\ n.mode = "empty" /\ refs = {}
              /\ awaiting' = awaiting \cup {m.id}
              /\ UNCHANGED <<sessions, sending>>
           \/ /\ n.mode = "riblt"
              /\ sessions' = [sessions EXCEPT ![m.id] =
                                [local |-> refs, expected |-> 0,
                                 incoming |-> FALSE, open |-> TRUE]]
              /\ UNCHANGED <<awaiting, sending>>
  BY OnHelloStep, AssumptionsGive DEF SessionInv
<1>2. /\ TypeOK /\ OneHello /\ call'.id = call.id /\ chan["i"] \in Seq(Message)
      /\ sessions \in [Id -> ResponderSession] /\ awaiting \subseteq Id
      /\ sending \in [Id -> [refs : SUBSET Op, active : BOOLEAN]] /\ promised \in [Peer -> SUBSET Op]
  BY <1>1 DEF SessionInv, TypeOK, Peer
<1>3. /\ m.id = call.id /\ m.request = call.empty /\ Greeting /\ Acks = {} /\ Refusals = {}
      /\ Hellos' = {} /\ One(chan["r"], "hello", call.id)'
      /\ \A id \in Id : id # call'.id => Got(chan["r"], "hello", id)' = {}
      /\ ToResponderKept
  BY <1>1, <1>2, HelloTaken
<1>4. /\ One(chan["i"], "error", 0)' /\ Refusals' = {} /\ Acks' = {n}
      /\ Statuses' = Statuses /\ Errors' = Errors /\ Batches("i")' = Batches("i")
  <2>1. One(chan["i"], "error", 0)
    BY <1>2 DEF OneHello
  <2>2. ~Is(n, "error", 0) /\ Is(n, "helloAck", call.id)
        /\ ~Is(n, "ribltStatus", call.id) /\ ~Is(n, "error", call.id) /\ ~Is(n, "opsBatch", call.id)
    BY <1>1, <1>3 DEF Is
  <2>3. One(chan["i"], "error", 0)'
    <3>1. \A ty : One(chan["i"], ty, 0) /\ (Is(n, ty, 0) => Got(chan["i"], ty, 0) = {})
                    => One(Append(chan["i"], n), ty, 0)
      <4>1. chan["i"] \in Seq(Message)
        BY <1>2
      <4> QED BY <4>1, AppendChannel
    <3> QED BY <1>1, <2>1, <2>2, <3>1
  <2>4. \A ty, id : Got(chan'["i"], ty, id) =
                      IF Is(n, ty, id) THEN Got(chan["i"], ty, id) \cup {n}
                      ELSE Got(chan["i"], ty, id)
    BY <1>1, <1>2, AppendedGot DEF Peer
  <2>5. Statuses' = Statuses /\ Errors' = Errors /\ Batches("i")' = Batches("i")
    <3>1. call'.id = call.id
      BY <1>2
    <3> QED BY <2>2, <2>4, <3>1 DEF Statuses, Errors, Batches
  <2>6. Acks' = {n}
    <3>1. call'.id = call.id /\ Got(chan["i"], "helloAck", call.id) = {}
      BY <1>2, <1>3 DEF Acks
    <3> QED BY <2>2, <2>4, <3>1 DEF Acks
  <2>7. Refusals' = {}
    BY <1>3, <2>2, <2>4 DEF Refusals
  <2> QED BY <2>3, <2>5, <2>6, <2>7
<1>5. Queued("r")' = Queued("r") /\ Queued("i")' = Queued("i")
  BY <1>1, <1>2 DEF Queued
<1>6. /\ Stream("r")' = {} /\ Stream("i")' = {} /\ Codes' = {} /\ Statuses' = {} /\ Errors' = {}
      /\ call'.at = "ack" /\ call'.ack = "pending" /\ call'.received = "pending"
      /\ call'.status = "pending" /\ ~call'.done /\ call'.credits = 1 /\ ~call'.awaitingUploadAck
      /\ Session = NoSession /\ call.id \notin awaiting /\ ~Sending.active
      /\ promised'["r"] = {} /\ promised'["i"] = refs
  <2>1. Stream("r")' = Stream("r") /\ Stream("i")' = Stream("i")
    BY <1>3, <1>4, <1>5, StreamsFollow DEF ToResponderKept, Peer
  <2> QED BY <1>1, <1>3, <1>4, <2>1 DEF Greeting, ToResponderKept, Peer
<1>7. FutureIsFresh' /\ SendsWhatItMay' /\ GoesOnAccepted'
  <2>1. Touches({call.id, 0})
    <3>1. \A p \in Peer : Carried(p, {call.id, 0})
      BY <1>1, <1>3 DEF Carried, Peer, Is
    <3>2. \A id \in Id \ {call.id, 0} :
            /\ sessions'[id] = sessions[id] /\ (id \in awaiting' <=> id \in awaiting)
            /\ sending'[id] = sending[id] /\ \A p \in Peer : queue'[p][id] = queue[p][id]
      BY <1>1, <1>2, <1>3
    <3> QED BY <3>1, <3>2 DEF Touches
  <2>2. call.id \in Int /\ call'.id = call.id /\ call.id <= call'.id
    BY <1>1, <1>3 DEF Id
  <2>3. FutureIsFresh'
    BY <1>2, <2>1, <2>2, FutureStaysFresh DEF SessionInv
  <2>4. SendsWhatItMay'
    <3>1. ASSUME NEW id \in Id
          PROVE  /\ sessions'[id] = sessions[id] \/ sessions'[id].local = refs
                 /\ sending'[id] = sending[id] \/ sending'[id] = [refs |-> refs, active |-> TRUE]
      BY <1>1, <1>2, <3>1
    <3> QED BY <1>1, <3>1 DEF SessionInv, SendsWhatItMay
  <2> QED BY <1>1, <2>3, <2>4 DEF SessionInv, GoesOnAccepted
<1>8. OneHello'
  BY <1>3, <1>4 DEF OneHello
<1>9. CASE n.mode = "direct" /\ m.request
           /\ sending' = [sending EXCEPT ![m.id] = [refs |-> refs, active |-> TRUE]]
           /\ UNCHANGED <<sessions, awaiting>>
  <2>1. Session' = NoSession /\ (call.id \notin awaiting)' /\ Sending' = [refs |-> refs, active |-> TRUE]
    BY <1>1, <1>2, <1>3, <1>6, <1>9 DEF Session, Sending
  <2>2. call'.empty
    BY <1>1, <1>3, <1>9
  <2>3. Direct'
    BY <1>4, <1>6, <1>9, <1>1, <2>1, <2>2 DEF Direct, Accepted
  <2>4. Downloading'
    BY <1>6, <2>1 DEF Downloading
  <2>5. Phases'
    BY <1>6, <2>3, <2>4 DEF Phases
  <2> QED BY <1>1, <1>7, <1>8, <2>5 DEF SessionInv
<1>10. CASE n.mode = "empty" /\ refs = {} /\ awaiting' = awaiting \cup {m.id}
            /\ UNCHANGED <<sessions, sending>>
  <2>1. Session' = NoSession /\ (call.id \in awaiting)' /\ (~Sending.active)'
    BY <1>1, <1>2, <1>3, <1>6, <1>10 DEF Session, Sending
  <2>2. ToUpload'
    BY <1>4, <1>6, <1>10, <1>1, <2>1 DEF ToUpload, Accepted
  <2>3. Downloading'
    BY <1>6, <1>10 DEF Downloading
  <2>4. Phases'
    BY <1>6, <2>2, <2>3 DEF Phases
  <2> QED BY <1>1, <1>7, <1>8, <2>4 DEF SessionInv
<1>11. CASE n.mode = "riblt"
            /\ sessions' = [sessions EXCEPT ![m.id] =
                              [local |-> refs, expected |-> 0, incoming |-> FALSE, open |-> TRUE]]
            /\ UNCHANGED <<awaiting, sending>>
  <2>1. /\ Session' = [local |-> refs, expected |-> 0, incoming |-> FALSE, open |-> TRUE]
        /\ (call.id \notin awaiting)' /\ (~Sending.active)'
    BY <1>1, <1>2, <1>3, <1>6, <1>11 DEF Session, Sending
  <2>2. One(chan["r"], "ribltCodewords", call.id)' /\ One(chan["i"], "ribltStatus", call.id)'
    <3>1. \A s, type, id : Got(s, type, id) = {} => One(s, type, id)
      BY NothingGot
    <3>2. Got(chan'["r"], "ribltCodewords", call'.id) = {}
          /\ Got(chan'["i"], "ribltStatus", call'.id) = {}
      BY <1>6 DEF Codes, Statuses
    <3> QED BY <3>1, <3>2
  <2>3. Reconciling'
    BY <1>4, <1>6, <1>11, <1>1, <2>1, <2>2 DEF Reconciling, Accepted
  <2>4. Phases'
    BY <1>6, <2>3 DEF Phases
  <2> QED BY <1>1, <1>7, <1>8, <2>4 DEF SessionInv
<1> QED BY <1>1, <1>9, <1>10, <1>11

\* A step of another call that was made.
LEMMA ElsewhereKeeps ==
  ASSUME SessionInv, NEW x \in Id, x # call.id, x <= call.id, Touches({x, 0}), TypeOK',
         SendsWhatItMay', call' = call, promised' = promised,
         \A p \in Peer : store[p] \subseteq store'[p], HellosKept
  PROVE  SessionInv'
<1>1. TypeOK /\ FutureIsFresh /\ call.id \in Int /\ x \in Int /\ call'.id = call.id
  BY DEF SessionInv, TypeOK, Call, Id
<1>2. FutureIsFresh'
  BY <1>1, FutureStaysFresh
<1>3. call.id \in Id => Elsewhere(call.id)
  <2>1. call.id \in Id => call.id \in Id \ {x, 0}
    BY DEF Id
  <2> QED BY <1>1, <2>1, TouchesElsewhere
<1> QED BY <1>2, <1>3, InvFrame

\* The ack settles what the phase says of it.
LEMMA OnHelloAckKeeps ==
  ASSUME Assumptions, SessionInv, OnHelloAck
  PROVE  SessionInv'
<1>1. PICK m \in Message :
        /\ TypeOK' /\ UNCHANGED <<store, sessions, awaiting, sending, queue, promised>>
        /\ chan["i"] # <<>> /\ m = Head(chan["i"]) /\ Is(m, "helloAck", m.id) /\ m.id \in Id
        /\ chan'["i"] = Tail(chan["i"]) /\ chan'["r"] = chan["r"]
        /\ \/ /\ call' = call /\ ~Registered(m.id)
           \/ /\ Registered(m.id)
              /\ Becomes(call.at, m.mode, call.refs,
                         Settle(call.ack, IF m.accepted THEN "resolved" ELSE "rejected"),
                         call.status, call.received, call.missing, call.credits,
                         call.awaitingUploadAck, call.done)
  BY OnHelloAckStep DEF SessionInv
<1>2. /\ TypeOK /\ FutureIsFresh /\ call'.id = call.id /\ call'.empty = call.empty
      /\ call'.at = call.at /\ call'.refs = call.refs /\ call'.status = call.status
      /\ call'.received = call.received /\ call'.missing = call.missing
      /\ call'.credits = call.credits /\ call'.done = call.done
      /\ call'.awaitingUploadAck = call.awaitingUploadAck
  BY <1>1 DEF SessionInv, Becomes
<1>3. m.id <= call.id /\ call.id \in Id
  BY <1>1, <1>2, CallWasMade DEF Is, MessageType, Peer
<1>4. Touches({m.id, 0})
  <2>1. \A p \in Peer : Carried(p, {m.id, 0})
    BY <1>1 DEF Carried, Peer
  <2> QED BY <1>1, <2>1 DEF Touches
<1>5. HellosKept /\ SendsWhatItMay'
  <2>1. ~Is(Head(chan["i"]), "error", 0)
    BY <1>1 DEF Is
  <2> QED BY <1>1, <1>2, <2>1, HellosAreKept DEF SessionInv, SendsWhatItMay
<1>6. CASE m.id # call.id
  <2>1. call' = call
    BY <1>1, <1>6 DEF Registered
  <2> QED BY <1>1, <1>3, <1>4, <1>5, <1>6, <2>1, ElsewhereKeeps
<1>7. CASE m.id = call.id
  <2>1. Is(m, "helloAck", call.id)
    BY <1>1, <1>7
  <2>2. /\ Acks = Acks' \cup {m} /\ Statuses' = Statuses /\ Errors' = Errors
        /\ Batches("i")' = Batches("i")
        /\ One(chan["i"], "ribltStatus", call.id) => One(chan["i"], "ribltStatus", call.id)'
        /\ StatusFirst(chan["i"], call.id) => StatusFirst(chan["i"], call.id)'
        /\ ErrorFirst(chan["i"], call.id) => ErrorFirst(chan["i"], call.id)'
    <3>1. TypeOK /\ call'.id = call.id /\ chan["i"] # <<>> /\ m = Head(chan["i"])
          /\ chan'["i"] = Tail(chan["i"])
      BY <1>1, <1>2
    <3> QED BY <2>1, <3>1, TakenByInitiator
  <2>3. ToResponderKept
    BY <1>1, <1>2, KeptChannels
  <2>4. /\ Session' = Session /\ Sending' = Sending
        /\ (call.id \in awaiting)' = (call.id \in awaiting)
        /\ Queued("r")' = Queued("r") /\ Queued("i")' = Queued("i")
        /\ queue'["r"][call.id] = queue["r"][call.id]
    BY <1>1, <1>2, KeptSessions
  <2>5. /\ Stream("r")' = Stream("r") /\ Stream("i")' = Stream("i") /\ Codes' = Codes
        /\ OnTheWay("r")' = OnTheWay("r") /\ OnTheWay("i")' = OnTheWay("i")
        /\ Batches("r")' = Batches("r") /\ ChannelsKept
    BY <2>2, <2>3, <2>4, StreamsFollow DEF ToResponderKept, ChannelsKept, Peer
  <2>6. FutureIsFresh'
    BY <1>2, <1>3, <1>4, <1>7, FutureStaysFresh DEF Id
  <2>7. Hellos = {} /\ Refusals = {}
    BY <2>2 DEF SessionInv, OneHello
  <2>8. GoesOnAccepted'
    BY <1>1, <1>2 DEF SessionInv, GoesOnAccepted, Becomes, Settle
  <2>9. ASSUME Alive' PROVE Alive /\ Phases'
    <3>1. Alive /\ ~Greeting
      <4>1. CASE call' = call /\ ~Registered(m.id)
        BY <1>7, <2>9, <4>1 DEF Registered, Alive, Greeting
      <4>2. CASE Registered(m.id) /\ call'.ack = Settle(call.ack, IF m.accepted THEN "resolved"
                                                                  ELSE "rejected")
        BY <1>2, <2>2, <2>9, <4>2 DEF Alive, Greeting, Settle
      <4> QED BY <1>1, <4>1, <4>2 DEF Becomes
    <3>2. ASSUME NEW mode, Accepted(mode) PROVE Accepted(mode)'
      BY <1>1, <2>2, <3>2 DEF Accepted, Becomes, Settle
    <3>3. /\ Direct => Direct'
          /\ ToUpload => ToUpload'
      BY <1>2, <2>2, <2>4, <2>5, <3>2, <1>1 DEF Direct, ToUpload
    <3>4. Reconciling => Reconciling'
      BY <1>2, <2>2, <2>4, <2>5, <3>2, <1>1 DEF Reconciling, ChannelsKept
    <3>5. ASSUME NEW missing PROVE Decoded(missing) => Decoded(missing)'
      BY <1>2, <2>2, <2>4, <2>5 DEF Decoded, NotAcknowledged, ChannelsKept
    <3>6. Finishing => Finishing'
      BY <1>2, <2>2, <2>4, <2>5 DEF Finishing
    <3>7. Uploading => Uploading'
      <4>1. UploadEnds' = UploadEnds /\ ToAcknowledge' = ToAcknowledge
            /\ NotAcknowledged' = NotAcknowledged /\ (Refused => Refused')
        BY <1>2, <2>2, <2>4, <2>5 DEF UploadEnds, ToAcknowledge, NotAcknowledged, Refused
      <4> QED BY <1>1, <1>2, <2>2, <2>4, <2>5, <4>1 DEF Uploading, ChannelsKept
    <3>8. Downloading => Downloading'
      BY <1>1, <2>4, <2>5 DEF Downloading
    <3> QED BY <1>1, <1>2, <3>1, <3>3, <3>4, <3>5, <3>6, <3>7, <3>8 DEF SessionInv, Phases
  <2> QED BY <1>1, <1>2, <1>5, <2>6, <2>7, <2>8, <2>9, InvFinish
<1> QED BY <1>6, <1>7

\* The responder sends no error when it answers codewords.
LEMMA Answered ==
  ASSUME TypeOK, call'.id = call.id, NEW m,
         chan["r"] # <<>>, m = Head(chan["r"]), m.type # "hello", chan'["r"] = Tail(chan["r"]),
         \/ chan'["i"] = chan["i"]
         \/ \E n \in Message : chan'["i"] = Append(chan["i"], n) /\ n.type # "error"
         \/ \E n, b \in Message : /\ chan'["i"] = Append(Append(chan["i"], n), b)
                                  /\ n.type # "error" /\ b.type # "error"
  PROVE  HellosKept
<1>1. CASE chan'["i"] = chan["i"]
  BY <1>1, HellosAreKept
<1>2. CASE \E n \in Message : chan'["i"] = Append(chan["i"], n) /\ n.type # "error"
  <2>1. \E n \in Message : chan'["i"] = Append(chan["i"], n) /\ ~Is(n, "error", 0)
    BY <1>2 DEF Is
  <2> QED BY <2>1, HellosAreKept
<1>3. CASE \E n, b \in Message : /\ chan'["i"] = Append(Append(chan["i"], n), b)
                                 /\ n.type # "error" /\ b.type # "error"
  BY <1>3, HellosAreKept
<1> QED BY <1>1, <1>2, <1>3

\* A status, or a batch, after what is on its way to the initiator.
StatusSentTo(s, t, n, id) ==
    /\ t \in Seq(Message)
    /\ \A ty : ty # "ribltStatus" => Got(t, ty, id) = Got(s, ty, id)
    /\ Got(t, "ribltStatus", id) = Got(s, "ribltStatus", id) \cup {n}
    /\ Got(s, "ribltStatus", id) = {} => One(t, "ribltStatus", id)
    /\ Got(s, "opsBatch", id) = {} => (StatusFirst(s, id) => StatusFirst(t, id))
BatchSentTo(s, t, n, id) ==
    /\ t \in Seq(Message)
    /\ \A ty : ty # "opsBatch" => Got(t, ty, id) = Got(s, ty, id)
    /\ Got(t, "opsBatch", id) = Got(s, "opsBatch", id) \cup {n}
    /\ One(s, "ribltStatus", id) => One(t, "ribltStatus", id)
    /\ StatusFirst(s, id) => StatusFirst(t, id)
    /\ ErrorFirst(s, id) => ErrorFirst(t, id)

\* A status is sent to the initiator.
LEMMA StatusSent ==
  ASSUME TypeOK, NEW s \in Seq(Message), NEW n \in Message, NEW id, Is(n, "ribltStatus", id)
  PROVE  StatusSentTo(s, Append(s, n), n, id)
<1> DEFINE t == Append(s, n)
<1>1. /\ t \in Seq(Message)
      /\ \A ty : ty # "ribltStatus" => Got(t, ty, id) = Got(s, ty, id)
      /\ Got(t, "ribltStatus", id) = Got(s, "ribltStatus", id) \cup {n}
  <2>1. t \in Seq(Message)
    BY AppendProperties
  <2>2. ASSUME NEW ty
        PROVE  Got(t, ty, id) = IF Is(n, ty, id) THEN Got(s, ty, id) \cup {n} ELSE Got(s, ty, id)
    BY AppendGot
  <2>3. \A ty : Is(n, ty, id) <=> ty = "ribltStatus"
    BY DEF Is
  <2> QED BY <2>1, <2>2, <2>3
<1>2. Got(s, "ribltStatus", id) = {} => One(t, "ribltStatus", id)
  BY SentToInitiator
<1>3. Got(s, "opsBatch", id) = {} => (StatusFirst(s, id) => StatusFirst(t, id))
  BY SentToInitiator
<1> QED BY <1>1, <1>2, <1>3 DEF StatusSentTo

\* A batch is sent to the initiator.
LEMMA BatchSent ==
  ASSUME TypeOK, NEW s \in Seq(Message), NEW n \in Message, NEW id, Is(n, "opsBatch", id)
  PROVE  BatchSentTo(s, Append(s, n), n, id)
<1> DEFINE t == Append(s, n)
<1>1. /\ t \in Seq(Message)
      /\ \A ty : ty # "opsBatch" => Got(t, ty, id) = Got(s, ty, id)
      /\ Got(t, "opsBatch", id) = Got(s, "opsBatch", id) \cup {n}
  <2>1. t \in Seq(Message)
    BY AppendProperties
  <2>2. ASSUME NEW ty
        PROVE  Got(t, ty, id) = IF Is(n, ty, id) THEN Got(s, ty, id) \cup {n} ELSE Got(s, ty, id)
    BY AppendGot
  <2>3. \A ty : Is(n, ty, id) <=> ty = "opsBatch"
    BY DEF Is
  <2> QED BY <2>1, <2>2, <2>3
<1>5. ~Is(n, "ribltStatus", id)
  BY DEF Is
<1>2. One(s, "ribltStatus", id) => One(t, "ribltStatus", id)
  <2>1. \A ty : One(s, ty, id) /\ (Is(n, ty, id) => Got(s, ty, id) = {}) => One(t, ty, id)
    BY AppendChannel
  <2> QED BY <1>5, <2>1
<1>3. StatusFirst(s, id) => StatusFirst(t, id)
  <2>1. StatusFirst(s, id) /\ (Is(n, "ribltStatus", id) => Got(s, "opsBatch", id) = {})
          => StatusFirst(t, id)
    BY AppendChannel
  <2> QED BY <1>5, <2>1
<1>4. ErrorFirst(s, id) => ErrorFirst(t, id)
  BY AppendChannel
<1> QED BY <1>1, <1>2, <1>3, <1>4 DEF BatchSentTo

\* What the answers have in common.
Answers(m) ==
    /\ \/ chan'["i"] = chan["i"]
       \/ \E n \in Message : chan'["i"] = Append(chan["i"], n) /\ n.type # "error" /\ n.id = m.id
       \/ \E n, b \in Message : /\ chan'["i"] = Append(Append(chan["i"], n), b)
                                /\ n.type # "error" /\ n.id = m.id
                                /\ b.type # "error" /\ b.id = m.id
    /\ \A id \in Id : id # m.id => sessions'[id] = sessions[id] /\ sending'[id] = sending[id]
    /\ sessions'[m.id].local \subseteq sessions[m.id].local
    /\ sending'[m.id].refs \subseteq sending[m.id].refs \cup sessions[m.id].local
    /\ sending'[m.id] = sending[m.id] \/ (~sending'[m.id].active => sending'[m.id].refs = {})

\* What the answers to codewords have in common.
LEMMA AllAnswer ==
  ASSUME TypeOK, NEW m, m.id \in Id,
         \/ AnswersNothing(m) \/ AnswersFurther(m) \/ AnswersSame(m)
         \/ \E missing, refs \in SUBSET Op : AnswersMissing(m, missing, refs)
  PROVE  Answers(m)
<1>1. /\ sessions \in [Id -> ResponderSession] /\ sessions[m.id] \in ResponderSession
      /\ sending \in [Id -> [refs : SUBSET Op, active : BOOLEAN]] /\ NoSession.local = {}
  BY DEF TypeOK, NoSession
<1>2. \A kind, ops : Status(m.id, kind, ops).type # "error" /\ Status(m.id, kind, ops).id = m.id
  BY DEF Status
<1>3. Batch(m.id, {}, TRUE).type # "error" /\ Batch(m.id, {}, TRUE).id = m.id
  BY DEF Batch
<1>4. CASE AnswersNothing(m)
  BY <1>4 DEF AnswersNothing, Answers
<1>5. CASE AnswersFurther(m)
  <2>1. \E n \in Message : chan'["i"] = Append(chan["i"], n) /\ n.type # "error" /\ n.id = m.id
    BY <1>2, <1>5 DEF AnswersFurther
  <2>2. /\ \A id \in Id : id # m.id => sessions'[id] = sessions[id]
        /\ sessions'[m.id].local \subseteq sessions[m.id].local
    <3>1. CASE sessions' = [sessions EXCEPT ![m.id] = NoSession]
      BY <1>1, <3>1
    <3>2. ASSUME NEW e \in Int, sessions' = [sessions EXCEPT ![m.id].expected = e]
          PROVE  sessions'[m.id].local = sessions[m.id].local
                 /\ \A id \in Id : id # m.id => sessions'[id] = sessions[id]
      BY <1>1, <3>2 DEF ResponderSession
    <3> QED BY <1>5, <3>1, <3>2 DEF AnswersFurther
  <2>3. sending' = sending
    BY <1>5 DEF AnswersFurther
  <2> QED BY <2>1, <2>2, <2>3 DEF Answers
<1>6. CASE AnswersSame(m)
  <2>1. \E n, b \in Message : /\ chan'["i"] = Append(Append(chan["i"], n), b)
                              /\ n.type # "error" /\ n.id = m.id
                              /\ b.type # "error" /\ b.id = m.id
    <3>1. PICK n \in Message, b \in Message :
            /\ n = Status(m.id, "decoded", {}) /\ b = Batch(m.id, {}, TRUE)
            /\ chan'["i"] = Append(Append(chan["i"], n), b)
      BY <1>6 DEF AnswersSame
    <3>2. n.type # "error" /\ n.id = m.id /\ b.type # "error" /\ b.id = m.id
      BY <1>2, <1>3, <3>1
    <3> QED BY <3>1, <3>2
  <2>2. /\ sending' = [sending EXCEPT ![m.id] = [refs |-> {}, active |-> FALSE]]
        /\ sessions' = [sessions EXCEPT ![m.id] = NoSession]
    BY <1>6 DEF AnswersSame
  <2>3. /\ \A id \in Id : id # m.id => sessions'[id] = sessions[id] /\ sending'[id] = sending[id]
        /\ sessions'[m.id] = NoSession /\ sending'[m.id].refs = {}
    BY <1>1, <2>2
  <2> QED BY <1>1, <2>1, <2>3 DEF Answers
<1>7. ASSUME NEW missing \in SUBSET Op, NEW refs \in SUBSET Op, AnswersMissing(m, missing, refs)
      PROVE  Answers(m)
  <2>1. \E n \in Message : chan'["i"] = Append(chan["i"], n) /\ n.type # "error" /\ n.id = m.id
    <3>1. PICK n \in Message : /\ n = Status(m.id, "decoded", missing)
                              /\ chan'["i"] = Append(chan["i"], n)
      BY <1>7 DEF AnswersMissing
    <3>2. n.type # "error" /\ n.id = m.id
      BY <1>2, <3>1
    <3> QED BY <3>1, <3>2
  <2>2. PICK e \in Int : sessions' = [sessions EXCEPT ![m.id] =
                          [sessions[m.id] EXCEPT !.expected = e, !.incoming = missing # {}]]
    BY <1>7 DEF AnswersMissing
  <2>3. /\ \A id \in Id : id # m.id => sessions'[id] = sessions[id]
        /\ sessions'[m.id].local = sessions[m.id].local
    BY <1>1, <2>2 DEF ResponderSession
  <2>4. sending' = [sending EXCEPT ![m.id] = [refs |-> refs, active |-> refs # {}]]
        /\ refs \subseteq sessions[m.id].local
    BY <1>7 DEF AnswersMissing
  <2>5. /\ \A id \in Id : id # m.id => sending'[id] = sending[id]
        /\ sending'[m.id].refs = refs /\ sending'[m.id].active = (refs # {})
    BY <1>1, <2>4
  <2> QED BY <2>1, <2>3, <2>4, <2>5 DEF Answers
<1> QED BY <1>4, <1>5, <1>6, <1>7

\* Codewords are answered by a credit, a failure or the decoded difference.
LEMMA OnRibltCodewordsKeeps ==
  ASSUME Assumptions, SessionInv, OnRibltCodewords
  PROVE  SessionInv'
<1>1. PICK m \in Message :
        /\ TypeOK' /\ UNCHANGED <<store, call, awaiting, queue, promised>>
        /\ chan["r"] # <<>> /\ m = Head(chan["r"]) /\ Is(m, "ribltCodewords", m.id)
        /\ m.id \in Id /\ m.refs \in SUBSET Op /\ chan'["r"] = Tail(chan["r"])
        /\ \/ AnswersNothing(m) \/ AnswersFurther(m) \/ AnswersSame(m)
           \/ \E missing, refs \in SUBSET Op : AnswersMissing(m, missing, refs)
  BY OnRibltCodewordsStep, AssumptionsGive DEF SessionInv
<1>2. /\ TypeOK /\ FutureIsFresh /\ call'.id = call.id
      /\ sessions \in [Id -> ResponderSession] /\ chan["i"] \in Seq(Message)
      /\ sending \in [Id -> [refs : SUBSET Op, active : BOOLEAN]]
  BY <1>1 DEF SessionInv, TypeOK, Peer
<1>3. m.id <= call.id /\ call.id \in Id
  BY <1>1, <1>2, CallWasMade DEF Is, MessageType, Peer
<1>4. Answers(m)
  BY <1>1, <1>2, AllAnswer
<1>5. /\ \A id \in Id : id # m.id => sessions'[id] = sessions[id] /\ sending'[id] = sending[id]
      /\ sessions'[m.id].local \subseteq sessions[m.id].local
      /\ sending'[m.id].refs \subseteq sending[m.id].refs \cup sessions[m.id].local
      /\ sending'[m.id] = sending[m.id] \/ (~sending'[m.id].active => sending'[m.id].refs = {})
  BY <1>4 DEF Answers
<1>6. Touches({m.id, 0})
  <2>1. Carried("r", {m.id, 0})
    BY <1>1 DEF Carried
  <2>2. Carried("i", {m.id, 0})
    BY <1>4 DEF Carried, Answers
  <2>3. \A p \in Peer : Carried(p, {m.id, 0})
    BY <2>1, <2>2 DEF Peer
  <2> QED BY <1>1, <1>5, <2>3 DEF Touches
<1>7. HellosKept /\ SendsWhatItMay'
  <2>1. HellosKept
    <3>1. m.type # "hello" /\ m \in Message /\ m = Head(chan["r"]) /\ chan["r"] # <<>>
          /\ chan'["r"] = Tail(chan["r"])
      BY <1>1 DEF Is
    <3>2. \/ chan'["i"] = chan["i"]
          \/ \E n \in Message : chan'["i"] = Append(chan["i"], n) /\ n.type # "error"
          \/ \E n, b \in Message : /\ chan'["i"] = Append(Append(chan["i"], n), b)
                                   /\ n.type # "error" /\ b.type # "error"
      BY <1>4 DEF Answers
    <3> QED BY <1>2, <3>1, <3>2, Answered
  <2>2. SendsWhatItMay'
    BY <1>1, <1>5 DEF SessionInv, SendsWhatItMay
  <2> QED BY <2>1, <2>2
<1>8. CASE m.id # call.id
  BY <1>1, <1>3, <1>6, <1>7, <1>8, ElsewhereKeeps
<1>9. CASE m.id = call.id
  <2>1. /\ Codes = Codes' \cup {m} /\ Batches("r")' = Batches("r")
        /\ One(chan["r"], "ribltCodewords", call.id) =>
             Codes' = {} /\ One(chan["r"], "ribltCodewords", call.id)'
    <3>1. TypeOK /\ call'.id = call.id /\ chan["r"] # <<>> /\ m = Head(chan["r"])
          /\ chan'["r"] = Tail(chan["r"]) /\ Is(m, "ribltCodewords", call.id)
      BY <1>1, <1>2, <1>9
    <3>2. /\ Codes = Codes' \cup {m}
          /\ One(chan["r"], "ribltCodewords", call.id) =>
               Codes' = {} /\ One(chan["r"], "ribltCodewords", call.id)'
      BY <3>1, TakenByResponder
    <3>3. Batches("r")' = Batches("r")
      BY <3>1, TakenByResponder
    <3> QED BY <3>2, <3>3
  <2>2. Queued("r")' = Queued("r") /\ Queued("i")' = Queued("i")
        /\ (call.id \in awaiting)' = (call.id \in awaiting)
    BY <1>1, <1>2 DEF Queued
  <2>3. FutureIsFresh' /\ GoesOnAccepted'
    <3>1. m.id \in Int /\ call.id \in Int /\ call'.id \in Int /\ m.id <= call'.id /\ call.id <= call'.id
      BY <1>1, <1>2, <1>3 DEF Id
    <3>2. FutureIsFresh'
      BY <1>2, <1>6, <3>1, FutureStaysFresh
    <3> QED BY <1>1, <3>2 DEF SessionInv, GoesOnAccepted
  <2>4. Hellos = {} /\ Refusals = {}
    BY <2>1 DEF SessionInv, OneHello, Greeting
  <2>5. ASSUME Alive' PROVE Alive /\ Phases'
    <3>1. Alive
      BY <1>1, <2>5 DEF Alive
    <3>2. Reconciling /\ ~call.awaitingUploadAck /\ promised["r"] = {}
      BY <2>1, <3>1 DEF SessionInv, Phases, Greeting, Direct, ToUpload, Decoded, Finishing,
                        Uploading
    <3>3. /\ call.credits = 0 /\ call.at = "riblt" /\ call.status = "pending" /\ ~call.done
          /\ Statuses = {} /\ m.refs = call.refs /\ call.received = "pending"
          /\ Codes' = {} /\ One(chan["r"], "ribltCodewords", call.id)'
          /\ Stream("r") = {} /\ Stream("i") = {} /\ Errors = {} /\ call.id \notin awaiting
          /\ call.refs \subseteq store["i"] \cap Sendable["i"]
          /\ ~Sending.active /\ ~Session.incoming
          /\ Session.open => promised["i"] \subseteq Session.local
      BY <2>1, <3>2 DEF Reconciling
    <3>4. Batches("i") = {} /\ Queued("i") = {} /\ Queued("i")' = {} /\ Stream("r")' = {}
      BY <2>1, <2>2, <3>3 DEF Stream
    <3>9. Reconciling' => Phases'
      <4>1. /\ call'.at = "riblt" /\ ~call'.awaitingUploadAck /\ promised'["r"] = {}
        BY <1>1, <3>2, <3>3
      <4> QED BY <4>1 DEF Phases
    <3>5. CASE UNCHANGED <<sessions, sending>> /\ chan'["i"] = chan["i"]
      <4>1. ToInitiatorKept /\ Session' = Session /\ Sending' = Sending
        BY <1>2, <3>5, KeptChannels DEF Session, Sending
      <4>2. Stream("i")' = {}
        BY <3>4, <4>1 DEF ToInitiatorKept, Stream
      <4>3. Reconciling'
        BY <1>1, <2>2, <3>2, <3>3, <3>4, <4>1, <4>2 DEF Reconciling, Accepted, ToInitiatorKept
      <4> QED BY <3>1, <3>9, <4>3
    <3>6. ASSUME NEW n \in Message, NEW kind \in {"failed", "more"}, n = Status(m.id, kind, {}),
                 chan'["i"] = Append(chan["i"], n), UNCHANGED sending,
                 \/ sessions' = [sessions EXCEPT ![m.id] = NoSession]
                 \/ \E e \in Int : sessions' = [sessions EXCEPT ![m.id].expected = e]
          PROVE  Phases'
      <4>1. Is(n, "ribltStatus", call.id) /\ n.kind # "decoded" /\ n.missing = {}
        BY <1>9, <3>6 DEF Is, Status
      <4>2. /\ Statuses' = {n} /\ Acks' = Acks /\ Errors' = Errors /\ Batches("i")' = {}
            /\ One(chan["i"], "ribltStatus", call.id)'
        <5>1. /\ \A ty : ty # "ribltStatus" => Got(chan'["i"], ty, call.id) = Got(chan["i"], ty, call.id)
              /\ Got(chan'["i"], "ribltStatus", call.id) = Got(chan["i"], "ribltStatus", call.id) \cup {n}
              /\ Got(chan["i"], "ribltStatus", call.id) = {} => One(chan'["i"], "ribltStatus", call.id)
          <6>1. TypeOK /\ chan["i"] \in Seq(Message) /\ chan'["i"] = Append(chan["i"], n)
            BY <1>2, <3>6
          <6>2. Is(n, "ribltStatus", call.id)
            BY <4>1
          <6>3. StatusSentTo(chan["i"], Append(chan["i"], n), n, call.id)
            BY <6>1, <6>2, StatusSent
          <6> QED BY <6>1, <6>3 DEF StatusSentTo
        <5> QED BY <1>2, <3>3, <3>4, <5>1 DEF Statuses, Acks, Errors, Batches
      <4>3. Session'.incoming = FALSE /\ (Session'.open => Session.open /\ Session'.local = Session.local)
            /\ Sending' = Sending
        <5>1. sessions[call.id] \in ResponderSession /\ ~sessions[call.id].incoming
          BY <1>2, <1>3, <3>3 DEF Session
        <5>2. \/ Session' = NoSession
              \/ \E e \in Int : Session' = [sessions[call.id] EXCEPT !.expected = e]
          BY <1>2, <1>3, <1>9, <3>6 DEF Session
        <5>3. Sending' = Sending
          BY <1>2, <3>6 DEF Sending
        <5>4. CASE Session' = NoSession
          BY <5>3, <5>4 DEF NoSession
        <5>5. ASSUME NEW e \in Int, Session' = [sessions[call.id] EXCEPT !.expected = e]
              PROVE  Session'.incoming = FALSE /\ Session'.open = Session.open
                     /\ Session'.local = Session.local
          BY <5>1, <5>5 DEF ResponderSession, Session
        <5> QED BY <5>2, <5>3, <5>4, <5>5
      <4>4. Stream("i")' = {}
        BY <3>4, <4>2 DEF Stream
      <4>5. Reconciling'
        BY <1>1, <2>2, <3>2, <3>3, <3>4, <4>1, <4>2, <4>3, <4>4 DEF Reconciling, Accepted
      <4> QED BY <3>9, <4>5
    <3>7. ASSUME NEW n \in Message, NEW b \in Message, sessions[m.id].open,
                 n = Status(m.id, "decoded", {}), b = Batch(m.id, {}, TRUE),
                 chan'["i"] = Append(Append(chan["i"], n), b), sessions[m.id].local = m.refs,
                 sending' = [sending EXCEPT ![m.id] = [refs |-> {}, active |-> FALSE]],
                 sessions' = [sessions EXCEPT ![m.id] = NoSession]
          PROVE  Phases'
      <4>1. Is(n, "ribltStatus", call.id) /\ Is(b, "opsBatch", call.id)
            /\ n = Status(call'.id, "decoded", {})
        BY <1>2, <1>9, <3>7 DEF Is, Status, Batch
      <4> DEFINE s == Append(chan["i"], n)
      <4>12. chan["i"] \in Seq(Message) /\ s = Append(chan["i"], n)
        BY <1>2
      <4> HIDE DEF s
      <4>2. /\ s \in Seq(Message)
            /\ \A ty : ty # "ribltStatus" => Got(s, ty, call.id) = Got(chan["i"], ty, call.id)
            /\ Got(s, "ribltStatus", call.id) = Got(chan["i"], "ribltStatus", call.id) \cup {n}
            /\ Got(chan["i"], "ribltStatus", call.id) = {} => One(s, "ribltStatus", call.id)
            /\ Got(chan["i"], "opsBatch", call.id) = {} =>
                 (StatusFirst(chan["i"], call.id) => StatusFirst(s, call.id))
        <5>1. TypeOK /\ Is(n, "ribltStatus", call.id)
          BY <1>2, <4>1
        <5>2. StatusSentTo(chan["i"], Append(chan["i"], n), n, call.id)
          BY <4>12, <5>1, StatusSent
        <5> QED BY <4>12, <5>2 DEF StatusSentTo
      <4>3. /\ \A ty : ty # "opsBatch" => Got(Append(s, b), ty, call.id) = Got(s, ty, call.id)
            /\ One(s, "ribltStatus", call.id) => One(Append(s, b), "ribltStatus", call.id)
            /\ StatusFirst(s, call.id) => StatusFirst(Append(s, b), call.id)
        <5>1. TypeOK /\ s \in Seq(Message) /\ Is(b, "opsBatch", call.id)
          BY <1>2, <4>1, <4>2
        <5>2. BatchSentTo(s, Append(s, b), b, call.id)
          BY <5>1, BatchSent
        <5> QED BY <5>2 DEF BatchSentTo
      <4>4. chan'["i"] = Append(s, b)
        BY <3>7 DEF s
      <4>5. StatusFirst(chan["i"], call.id)
        BY <3>3, NothingGot DEF Statuses
      <4>6. /\ Statuses' = {n} /\ Errors' = {} /\ One(chan["i"], "ribltStatus", call.id)'
            /\ StatusFirst(chan["i"], call.id)'
        BY <1>2, <3>3, <3>4, <4>2, <4>3, <4>4, <4>5 DEF Statuses, Errors, Batches
      <4>7. Session' = NoSession
        BY <1>2, <1>3, <1>9, <3>7 DEF Session
      <4>8. Decoded({})'
        BY <1>1, <2>2, <3>3, <3>4, <4>1, <4>6, <4>7 DEF Decoded, NoSession
      <4>9. Downloading'
        <5>1. promised["i"] \subseteq store["i"]
          BY <1>9, <3>3, <3>7 DEF Session
        <5> QED BY <1>1, <5>1 DEF Downloading
      <4>10. {} \in SUBSET Op
        OBVIOUS
      <4>11. (\E missing \in SUBSET Op : Decoded(missing))'
        BY <4>8, <4>10
      <4> QED BY <1>1, <3>2, <3>3, <4>9, <4>11 DEF Phases
    <3>8. ASSUME NEW n \in Message, NEW missing \in SUBSET Op, NEW refs \in SUBSET Op, NEW e \in Int,
                 sessions[m.id].open, n = Status(m.id, "decoded", missing),
                 chan'["i"] = Append(chan["i"], n), missing = m.refs \ sessions[m.id].local,
                 refs = sessions[m.id].local \ m.refs, missing # {} \/ refs # {},
                 sending' = [sending EXCEPT ![m.id] = [refs |-> refs, active |-> refs # {}]],
                 sessions' = [sessions EXCEPT ![m.id] =
                        [sessions[m.id] EXCEPT !.expected = e, !.incoming = missing # {}]]
          PROVE  Phases'
      <4>1. Is(n, "ribltStatus", call.id) /\ n = Status(call'.id, "decoded", missing)
        BY <1>2, <1>9, <3>8 DEF Is, Status
      <4>2. /\ Statuses' = {n} /\ Errors' = {} /\ Batches("i")' = {}
            /\ One(chan["i"], "ribltStatus", call.id)' /\ StatusFirst(chan["i"], call.id)'
        <5>1. /\ \A ty : ty # "ribltStatus" => Got(chan'["i"], ty, call.id) = Got(chan["i"], ty, call.id)
              /\ Got(chan'["i"], "ribltStatus", call.id) = Got(chan["i"], "ribltStatus", call.id) \cup {n}
              /\ Got(chan["i"], "ribltStatus", call.id) = {} => One(chan'["i"], "ribltStatus", call.id)
          <6>1. TypeOK /\ chan["i"] \in Seq(Message) /\ chan'["i"] = Append(chan["i"], n)
            BY <1>2, <3>8
          <6>2. Is(n, "ribltStatus", call.id)
            BY <4>1
          <6>3. StatusSentTo(chan["i"], Append(chan["i"], n), n, call.id)
            BY <6>1, <6>2, StatusSent
          <6> QED BY <6>1, <6>3 DEF StatusSentTo
        <5>2. Statuses' = {n} /\ Errors' = {} /\ Batches("i")' = {}
          BY <1>2, <3>3, <3>4, <5>1 DEF Statuses, Errors, Batches
        <5>3. One(chan["i"], "ribltStatus", call.id)'
          BY <1>2, <3>3, <5>1 DEF Statuses
        <5>4. StatusFirst(chan["i"], call.id)'
          BY <1>2, <5>2, NothingGot DEF Batches
        <5> QED BY <5>2, <5>3, <5>4
      <4>3. /\ Session'.open /\ Session'.incoming = (missing # {})
            /\ Sending'.refs = refs /\ Sending'.active = (refs # {})
        <5>1. sessions[call.id] \in ResponderSession
          BY <1>2, <1>3
        <5>2. Session' = [sessions[call.id] EXCEPT !.expected = e, !.incoming = missing # {}]
              /\ Sending' = [refs |-> refs, active |-> refs # {}]
          BY <1>2, <1>3, <1>9, <3>8 DEF Session, Sending
        <5> QED BY <1>9, <3>8, <5>1, <5>2 DEF ResponderSession
      <4>4. Stream("i")' = {}
        BY <3>4, <4>2 DEF Stream
      <4>5. missing \subseteq Sendable["i"]
        BY <3>3, <3>8
      <4>6. NotAcknowledged'
        BY <1>1, <3>3, <4>4 DEF NotAcknowledged
      <4>7. Decoded(missing)'
        BY <1>1, <2>2, <3>3, <3>4, <3>8, <4>1, <4>2, <4>3, <4>5, <4>6 DEF Decoded
      <4>8. Downloading'
        <5>1. promised["i"] \subseteq store["i"] \cup refs
          BY <1>9, <3>3, <3>8 DEF Session
        <5> QED BY <1>1, <4>3, <5>1 DEF Downloading
      <4>9. (\E missing_1 \in SUBSET Op : Decoded(missing_1))'
        BY <4>7
      <4> QED BY <1>1, <3>2, <3>3, <4>8, <4>9 DEF Phases
    <3>10. CASE AnswersNothing(m)
      BY <3>5, <3>10 DEF AnswersNothing
    <3>11. CASE AnswersFurther(m)
      <4>1. PICK n \in Message, kind \in {"failed", "more"} :
              n = Status(m.id, kind, {}) /\ chan'["i"] = Append(chan["i"], n)
        BY <3>11 DEF AnswersFurther
      <4>2. /\ UNCHANGED sending
            /\ \/ sessions' = [sessions EXCEPT ![m.id] = NoSession]
               \/ \E e \in Int : sessions' = [sessions EXCEPT ![m.id].expected = e]
        BY <3>11 DEF AnswersFurther
      <4> QED BY <3>1, <3>6, <4>1, <4>2
    <3>12. CASE AnswersSame(m)
      <4>1. PICK n \in Message, b \in Message :
              /\ n = Status(m.id, "decoded", {}) /\ b = Batch(m.id, {}, TRUE)
              /\ chan'["i"] = Append(Append(chan["i"], n), b)
        BY <3>12 DEF AnswersSame
      <4>2. /\ sessions[m.id].open /\ sessions[m.id].local = m.refs
            /\ sending' = [sending EXCEPT ![m.id] = [refs |-> {}, active |-> FALSE]]
            /\ sessions' = [sessions EXCEPT ![m.id] = NoSession]
        BY <3>12 DEF AnswersSame
      <4> QED BY <3>1, <3>7, <4>1, <4>2
    <3>13. ASSUME NEW missing \in SUBSET Op, NEW refs \in SUBSET Op, AnswersMissing(m, missing, refs)
           PROVE  Phases'
      <4>1. PICK n \in Message : /\ n = Status(m.id, "decoded", missing)
                                /\ chan'["i"] = Append(chan["i"], n)
        BY <3>13 DEF AnswersMissing
      <4>2. PICK e \in Int : sessions' = [sessions EXCEPT ![m.id] =
                          [sessions[m.id] EXCEPT !.expected = e, !.incoming = missing # {}]]
        BY <3>13 DEF AnswersMissing
      <4>3. /\ sessions[m.id].open /\ (missing # {} \/ refs # {})
            /\ missing = m.refs \ sessions[m.id].local /\ refs = sessions[m.id].local \ m.refs
            /\ sending' = [sending EXCEPT ![m.id] = [refs |-> refs, active |-> refs # {}]]
        BY <3>13 DEF AnswersMissing
      <4> QED BY <3>8, <4>1, <4>2, <4>3
    <3> QED BY <1>1, <3>1, <3>10, <3>11, <3>12, <3>13
  <2> QED BY <1>1, <1>2, <1>7, <2>3, <2>4, <2>5, InvFinish
<1> QED BY <1>8, <1>9

\* A chunk leaves the operations to send for the channel; the last one is done.
LEMMA SendMissingKeeps ==
  ASSUME Assumptions, SessionInv, NEW id \in Id, SendMissing(id)
  PROVE  SessionInv'
<1>1. PICK chunk \in SUBSET sending[id].refs :
        /\ TypeOK' /\ sending[id].active /\ chan'["r"] = chan["r"]
        /\ UNCHANGED <<store, call, awaiting, queue, promised>>
        /\ sending' = [sending EXCEPT ![id] = [refs |-> sending[id].refs \ chunk,
                                               active |-> chunk # sending[id].refs]]
        /\ sessions' = IF chunk = sending[id].refs /\ ~sessions[id].incoming
                       THEN [sessions EXCEPT ![id] = NoSession] ELSE sessions
        /\ \/ /\ chunk # sending[id].refs /\ chunk \cap Sendable["r"] = {}
              /\ chan'["i"] = chan["i"]
           \/ \E m \in Message :
                 /\ m = Batch(id, chunk \cap Sendable["r"], chunk = sending[id].refs)
                 /\ chan'["i"] = Append(chan["i"], m)
  BY SendMissingStep, AssumptionsGive DEF SessionInv
<1>2. /\ TypeOK /\ FutureIsFresh /\ call'.id = call.id /\ chan["i"] \in Seq(Message)
      /\ sessions \in [Id -> ResponderSession] /\ sessions[id] \in ResponderSession
      /\ sending \in [Id -> [refs : SUBSET Op, active : BOOLEAN]]
      /\ sending[id].refs \subseteq Sendable["r"]
  BY <1>1 DEF SessionInv, SendsWhatItMay, TypeOK, Peer
<1>3. id <= call.id /\ call.id \in Id
  BY <1>1, <1>2, CallWasMade
<1>4. chunk \cap Sendable["r"] = chunk /\ chunk \subseteq sending[id].refs
  BY <1>2
<1>5. \/ chunk = {} /\ chunk # sending[id].refs /\ chan'["i"] = chan["i"]
      \/ \E m \in Message : /\ Is(m, "opsBatch", id) /\ m.ops = chunk
                            /\ m.done = (chunk = sending[id].refs)
                            /\ chan'["i"] = Append(chan["i"], m)
  BY <1>1, <1>4 DEF Batch, Is
<1>6. /\ \A x \in Id : x # id => sessions'[x] = sessions[x] /\ sending'[x] = sending[x]
      /\ sending'[id].refs = sending[id].refs \ chunk
      /\ sending'[id].active = (chunk # sending[id].refs)
      /\ sessions'[id] = IF chunk = sending[id].refs /\ ~sessions[id].incoming
                         THEN NoSession ELSE sessions[id]
  BY <1>1, <1>2
<1>7. Touches({id, 0}) /\ HellosKept
  <2>1. Carried("r", {id, 0}) /\ Carried("i", {id, 0})
    BY <1>1, <1>5 DEF Carried, Is
  <2>2. Touches({id, 0})
    BY <1>1, <1>6, <2>1 DEF Touches, Peer
  <2>3. chan'["i"] = chan["i"] \/ \E m \in Message : /\ chan'["i"] = Append(chan["i"], m)
                                                    /\ ~Is(m, "error", 0)
    BY <1>5 DEF Is
  <2>4. HellosKept
    BY <1>1, <1>2, <2>3, HellosAreKept
  <2> QED BY <2>2, <2>4
<1>8. SendsWhatItMay'
  <2>1. ASSUME NEW x \in Id
        PROVE  /\ sessions'[x].local \subseteq Sendable["r"] /\ sending'[x].refs \subseteq Sendable["r"]
               /\ ~sending'[x].active => sending'[x].refs = {}
    <3>1. /\ sessions[x].local \subseteq Sendable["r"] /\ sending[x].refs \subseteq Sendable["r"]
          /\ ~sending[x].active => sending[x].refs = {}
      BY DEF SessionInv, SendsWhatItMay
    <3>2. CASE x # id
      BY <1>6, <3>1, <3>2
    <3>3. CASE x = id
      <4>1. NoSession.local = {}
        BY DEF NoSession
      <4> QED BY <1>4, <1>6, <3>1, <3>3, <4>1
    <3> QED BY <3>2, <3>3
  <2> QED BY <2>1 DEF SendsWhatItMay
<1>9. CASE id # call.id
  BY <1>1, <1>3, <1>7, <1>8, <1>9, ElsewhereKeeps
<1>10. CASE id = call.id
  <2>1. FutureIsFresh' /\ GoesOnAccepted'
    <3>1. call.id \in Int /\ call'.id \in Int /\ call.id <= call'.id
      BY <1>2, <1>3 DEF Id
    <3>2. FutureIsFresh'
      BY <1>2, <1>7, <1>10, <3>1, FutureStaysFresh
    <3> QED BY <1>1, <3>2 DEF SessionInv, GoesOnAccepted
  <2>2. Sending.active
    BY <1>1, <1>10 DEF Sending
  <2>3. Hellos = {} /\ Refusals = {}
    BY <2>2 DEF SessionInv, OneHello, Greeting
  <2>4. /\ (call.id \in awaiting)' = (call.id \in awaiting)
        /\ Queued("r")' = Queued("r") /\ Queued("i")' = Queued("i")
        /\ queue'["r"][call.id] = queue["r"][call.id]
        /\ Sending.refs = sending[id].refs /\ Session = sessions[id]
        /\ Sending'.refs = Sending.refs \ chunk /\ Sending'.active = (chunk # Sending.refs)
        /\ Session' = IF chunk = Sending.refs /\ ~Session.incoming THEN NoSession ELSE Session
    BY <1>1, <1>2, <1>6, <1>10 DEF Queued, Sending, Session
  <2>5. ToResponderKept
    BY <1>1, <1>2, KeptChannels
  <2>6. Stream("r")' = Stream("r") /\ OnTheWay("r")' = OnTheWay("r")
    BY <2>4, <2>5, StreamsFollow DEF ToResponderKept, Peer
  <2> DEFINE Sent ==
        /\ Acks' = Acks /\ Statuses' = Statuses /\ Errors' = Errors
        /\ One(chan["i"], "ribltStatus", call.id) => One(chan["i"], "ribltStatus", call.id)'
        /\ StatusFirst(chan["i"], call.id) => StatusFirst(chan["i"], call.id)'
        /\ ErrorFirst(chan["i"], call.id) => ErrorFirst(chan["i"], call.id)'
        /\ OnTheWay("i")' = OnTheWay("i") \cup chunk
        /\ Sending.refs # {} /\ (\A m \in Stream("i") : ~Bare(m)) => \A m \in Stream("i")' : ~Bare(m)
  <2>7. Sent
    <3>1. CASE chunk = {} /\ chunk # sending[id].refs /\ chan'["i"] = chan["i"]
      <4>1. ToInitiatorKept
        BY <1>2, <3>1, KeptChannels
      <4>2. Stream("i")' = Stream("i") /\ OnTheWay("i")' = OnTheWay("i")
        BY <2>4, <4>1, StreamsFollow DEF ToInitiatorKept, Peer
      <4> QED BY <3>1, <4>1, <4>2 DEF ToInitiatorKept
    <3>2. ASSUME NEW m \in Message, Is(m, "opsBatch", id), m.ops = chunk,
                 m.done = (chunk = sending[id].refs), chan'["i"] = Append(chan["i"], m)
          PROVE  Sent
      <4>1. TypeOK /\ chan["i"] \in Seq(Message) /\ Is(m, "opsBatch", call.id)
        BY <1>2, <1>10, <3>2
      <4>2. BatchSentTo(chan["i"], Append(chan["i"], m), m, call.id)
        BY <4>1, BatchSent
      <4>3. BatchSentTo(chan["i"], chan'["i"], m, call'.id) /\ call'.id = call.id
        BY <1>2, <3>2, <4>2
      <4>4. /\ Acks' = Acks /\ Statuses' = Statuses /\ Errors' = Errors
            /\ Batches("i")' = Batches("i") \cup {m}
            /\ One(chan["i"], "ribltStatus", call.id) => One(chan["i"], "ribltStatus", call.id)'
            /\ StatusFirst(chan["i"], call.id) => StatusFirst(chan["i"], call.id)'
            /\ ErrorFirst(chan["i"], call.id) => ErrorFirst(chan["i"], call.id)'
        BY <4>3 DEF BatchSentTo, Acks, Statuses, Errors, Batches
      <4>5. Stream("i")' = Stream("i") \cup {m} /\ OnTheWay("i")' = OnTheWay("i") \cup m.ops
        BY <2>4, <4>4, StreamsFollow DEF Peer
      <4>6. Sending.refs # {} => ~Bare(m)
        BY <2>4, <3>2 DEF Bare
      <4> QED BY <3>2, <4>4, <4>5, <4>6
    <3> HIDE DEF Sent
    <3> QED BY <1>5, <3>1, <3>2
  <2>8. ASSUME Alive' PROVE Alive /\ Phases'
    <3>1. Alive
      BY <1>1, <2>8 DEF Alive
    <3>2. /\ Downloading
          /\ \/ /\ ~call.awaitingUploadAck /\ promised["r"] = {}
                /\ Direct \/ (\E missing \in SUBSET Op : Decoded(missing)) \/ Finishing
             \/ Uploading
      BY <2>2, <3>1 DEF SessionInv, Phases, Greeting, ToUpload, Reconciling
    <3>3. call.at = "ok" => call.received = "resolved"
      BY <3>1 DEF SessionInv, Phases
    <3>4. Downloading'
      BY <1>1, <1>4, <2>4, <2>7, <3>2 DEF Downloading
    <3>5. Direct => Direct'
      BY <1>1, <2>4, <2>5, <2>6, <2>7 DEF Direct, Accepted, ToResponderKept
    <3>6. Finishing => Finishing'
      BY <1>1, <2>4, <2>5, <2>6, <2>7 DEF Finishing, ToResponderKept, NoSession
    <3>7. Sending.refs # {} /\ NotAcknowledged => NotAcknowledged'
      BY <1>1, <2>7 DEF NotAcknowledged
    <3>8. ASSUME NEW missing PROVE Decoded(missing) => Decoded(missing)'
      BY <1>1, <1>4, <2>2, <2>4, <2>5, <2>6, <2>7, <3>7 DEF Decoded, ToResponderKept, NoSession
    <3>9. Uploading => Uploading'
      <4>1. SUFFICES ASSUME Uploading PROVE Uploading'
        OBVIOUS
      <4>2. /\ Sending.refs # {} /\ (Session.open => Session.incoming /\ call.id \notin awaiting)
        BY <2>2, <4>1 DEF Uploading
      <4>3. UploadEnds' = UploadEnds /\ ToAcknowledge' = ToAcknowledge
            /\ (NotAcknowledged => NotAcknowledged') /\ (Refused => Refused')
        BY <1>1, <2>4, <2>6, <2>7, <3>7, <4>2
           DEF UploadEnds, ToAcknowledge, Refused, NoSession
      <4>4. (Session.open => Session.incoming /\ call.id \notin awaiting)'
            /\ (Sending.active => Sending.refs # {})'
        BY <1>1, <1>4, <2>4, <4>2 DEF NoSession
      <4> QED BY <1>1, <2>4, <2>5, <2>6, <2>7, <4>1, <4>3, <4>4 DEF Uploading, ToResponderKept
    <3> QED BY <1>1, <3>1, <3>2, <3>3, <3>4, <3>5, <3>6, <3>8, <3>9 DEF Phases
  <2> QED BY <1>1, <1>2, <1>7, <1>8, <2>1, <2>3, <2>8, InvFinish
<1> QED BY <1>9, <1>10

\* The terminal status takes the call to the upload, or past it.
LEMMA OnRibltStatusKeeps ==
  ASSUME Assumptions, SessionInv, OnRibltStatus
  PROVE  SessionInv'
<1>1. PICK m \in Message :
        /\ TypeOK' /\ UNCHANGED <<store, sessions, awaiting, sending, queue>>
        /\ chan["i"] # <<>> /\ m = Head(chan["i"]) /\ Is(m, "ribltStatus", m.id) /\ m.id \in Id
        /\ m.kind \in {"more", "decoded", "failed"} /\ m.missing \in SUBSET Op
        /\ chan'["i"] = Tail(chan["i"]) /\ chan'["r"] = chan["r"]
        /\ promised'["i"] = promised["i"]
        /\ \/ call' = call /\ promised' = promised /\ (~Registered(m.id) \/ call.done)
           \/ /\ Registered(m.id) /\ ~call.done /\ m.kind = "more" /\ promised' = promised
              /\ Becomes(call.at, call.mode, call.refs, call.ack, call.status,
                         call.received, call.missing, call.credits + 1,
                         call.awaitingUploadAck, call.done)
           \/ /\ Registered(m.id) /\ ~call.done /\ m.kind # "more"
              /\ promised'["r"] = IF m.kind = "decoded" THEN m.missing ELSE promised["r"]
              /\ Becomes(call.at, call.mode, call.refs, call.ack, Settle(call.status, m.kind),
                         call.received, m.missing, call.credits, m.missing # {}, TRUE)
  BY OnRibltStatusStep DEF SessionInv
<1>2. /\ TypeOK /\ FutureIsFresh /\ call'.id = call.id /\ call'.empty = call.empty
      /\ call'.at = call.at /\ call'.mode = call.mode /\ call'.refs = call.refs
      /\ call'.ack = call.ack /\ call'.received = call.received
      /\ call.credits \in Int
  BY <1>1 DEF SessionInv, Becomes, TypeOK, Call
<1>3. m.id <= call.id /\ call.id \in Id
  BY <1>1, <1>2, CallWasMade DEF Is, MessageType, Peer
<1>4. Touches({m.id, 0})
  <2>1. \A p \in Peer : Carried(p, {m.id, 0})
    BY <1>1 DEF Carried, Peer
  <2> QED BY <1>1, <2>1 DEF Touches
<1>5. HellosKept /\ SendsWhatItMay'
  <2>1. ~Is(Head(chan["i"]), "error", 0)
    BY <1>1 DEF Is
  <2> QED BY <1>1, <1>2, <2>1, HellosAreKept DEF SessionInv, SendsWhatItMay
<1>6. CASE m.id # call.id
  <2>1. call' = call /\ promised' = promised
    BY <1>1, <1>6 DEF Registered
  <2> QED BY <1>1, <1>3, <1>4, <1>5, <1>6, <2>1, ElsewhereKeeps
<1>7. CASE m.id = call.id
  <2>1. Is(m, "ribltStatus", call.id)
    BY <1>1, <1>7
  <2>2. /\ Acks' = Acks /\ Statuses = Statuses' \cup {m} /\ Errors' = Errors
        /\ Batches("i")' = Batches("i")
        /\ One(chan["i"], "ribltStatus", call.id) =>
             Statuses' = {} /\ One(chan["i"], "ribltStatus", call.id)'
    <3>1. TypeOK /\ call'.id = call.id /\ chan["i"] # <<>> /\ m = Head(chan["i"])
          /\ chan'["i"] = Tail(chan["i"])
      BY <1>1, <1>2
    <3> QED BY <2>1, <3>1, TakenByInitiator
  <2>3. ToResponderKept
    BY <1>1, <1>2, KeptChannels
  <2>4. /\ Session' = Session /\ Sending' = Sending
        /\ (call.id \in awaiting)' = (call.id \in awaiting)
        /\ Queued("r")' = Queued("r") /\ Queued("i")' = Queued("i")
        /\ queue'["r"][call.id] = queue["r"][call.id]
    BY <1>1, <1>2, KeptSessions
  <2>5. /\ Stream("r")' = Stream("r") /\ Stream("i")' = Stream("i") /\ Codes' = Codes
        /\ OnTheWay("r")' = OnTheWay("r") /\ OnTheWay("i")' = OnTheWay("i")
        /\ Batches("r")' = Batches("r")
        /\ One(chan["r"], "ribltCodewords", call.id) => One(chan["r"], "ribltCodewords", call.id)'
    BY <2>2, <2>3, <2>4, StreamsFollow DEF ToResponderKept, Peer
  <2>6. FutureIsFresh'
    BY <1>2, <1>3, <1>4, <1>7, FutureStaysFresh DEF Id
  <2>7. Hellos = {} /\ Refusals = {}
    BY <2>2 DEF SessionInv, OneHello, Greeting
  <2>8. GoesOnAccepted'
    BY <1>1, <1>2 DEF SessionInv, GoesOnAccepted
  <2>9. ASSUME Alive' PROVE Alive /\ Phases'
    <3>1. Alive
      BY <1>2, <2>9 DEF Alive
    <3>2. /\ ~call.awaitingUploadAck /\ promised["r"] = {} /\ (Reconciling \/ Downloading)
          /\ Reconciling \/ \E missing \in SUBSET Op : Decoded(missing)
      BY <2>2, <3>1 DEF SessionInv, Phases, Greeting, Direct, ToUpload, Finishing, Uploading
    <3>3. /\ call.at = "riblt" /\ call.status = "pending" /\ ~call.done
          /\ call.received = "pending" /\ call.credits = 0
          /\ One(chan["i"], "ribltStatus", call.id) /\ Statuses' = {} /\ Codes = {}
          /\ Stream("r") = {} /\ Errors = {} /\ call.id \notin awaiting
      BY <2>2, <3>2 DEF Reconciling, Decoded
    <3>4. Registered(call.id) /\ One(chan["i"], "ribltStatus", call.id)'
      BY <2>2, <3>3 DEF Registered
    <3>7. m.kind # "more" =>
            /\ promised'["r"] = IF m.kind = "decoded" THEN m.missing ELSE promised["r"]
            /\ call'.status = Settle(call.status, m.kind) /\ call'.missing = m.missing
            /\ call'.credits = call.credits /\ call'.awaitingUploadAck = (m.missing # {})
            /\ call'.done = TRUE
      <4>1. m.kind # "more" =>
              /\ promised'["r"] = IF m.kind = "decoded" THEN m.missing ELSE promised["r"]
              /\ Becomes(call.at, call.mode, call.refs, call.ack, Settle(call.status, m.kind),
                         call.received, m.missing, call.credits, m.missing # {}, TRUE)
        BY <1>1, <1>7, <3>3, <3>4
      <4> QED BY <4>1 DEF Becomes
    <3>5. CASE Reconciling
      <4>1. m.kind # "decoded" /\ m.missing = {}
        BY <2>2, <3>5 DEF Reconciling
      <4>2. /\ call'.credits <= 1 /\ call'.status # "decoded"
            /\ call'.status = "pending" <=> ~call'.done
            /\ ~call'.awaitingUploadAck /\ promised'["r"] = {}
        <5>1. CASE m.kind = "more"
          BY <1>1, <1>7, <3>2, <3>3, <3>4, <5>1 DEF Becomes
        <5>2. CASE m.kind = "failed"
          <6>1. Settle(call.status, m.kind) = "failed"
            BY <3>3, <5>2 DEF Settle
          <6>2. promised'["r"] = {} /\ call'.status = "failed" /\ call'.credits = 0
            BY <3>2, <3>3, <3>7, <5>2, <6>1
          <6>3. call'.done /\ ~call'.awaitingUploadAck
            BY <3>7, <4>1, <5>2
          <6> QED BY <6>2, <6>3
        <5> QED BY <1>1, <4>1, <5>1, <5>2
      <4>3. Reconciling'
        BY <1>1, <1>2, <2>2, <2>4, <2>5, <3>3, <3>4, <3>5, <4>2 DEF Reconciling, Accepted
      <4> QED BY <1>2, <3>1, <3>3, <4>2, <4>3 DEF Phases
    <3>6. ASSUME NEW missing \in SUBSET Op, Decoded(missing)
          PROVE  Phases'
      <4>1. m.kind = "decoded" /\ m.missing = missing /\ ~Reconciling
        <5>1. m = Status(call.id, "decoded", missing)
          BY <2>2, <3>6 DEF Decoded
        <5>2. m.kind = "decoded" /\ m.missing = missing
          BY <5>1 DEF Status
        <5> QED BY <2>2, <5>2 DEF Reconciling
      <4>2. /\ promised'["r"] = missing /\ call'.status = "decoded" /\ call'.done
            /\ call'.missing = missing /\ call'.awaitingUploadAck = (missing # {})
        <5>1. Settle(call.status, m.kind) = "decoded"
          BY <3>3, <4>1 DEF Settle
        <5> QED BY <3>7, <4>1, <5>1
      <4>3. Downloading'
        BY <1>1, <2>4, <2>5, <3>2, <4>1 DEF Downloading
      <4>4. Codes' = {} /\ Stream("r")' = {} /\ Errors' = {} /\ OnTheWay("r")' = {}
            /\ Batches("r")' = {} /\ Queued("r")' = {}
        BY <2>2, <2>5, <3>3 DEF Stream, OnTheWay
      <4>5. CASE missing = {}
        <5>1. Finishing'
          BY <1>2, <2>4, <3>3, <3>6, <4>2, <4>4, <4>5 DEF Finishing, Decoded
        <5> QED BY <1>2, <3>3, <4>2, <4>3, <4>5, <5>1 DEF Phases
      <4>6. CASE missing # {}
        <5>1. /\ Session.open /\ Session.incoming /\ NotAcknowledged
              /\ Sending.active => Sending.refs # {}
              /\ missing \subseteq Sendable["i"]
          BY <3>6, <4>6 DEF Decoded
        <5>2. DoneLast(chan["r"], call.id)'
          <6>1. \A s, x : Got(s, "opsBatch", x) = {} => DoneLast(s, x)
            BY NothingGot
          <6> QED BY <4>4, <6>1 DEF Batches
        <5>3. LastIsDone(queue["r"][call.id])'
          BY <4>4 DEF Queued, Elems, LastIsDone
        <5>4. ~UploadEnds' /\ ToAcknowledge' /\ NotAcknowledged'
          BY <1>2, <2>4, <2>5, <4>4, <5>1 DEF UploadEnds, ToAcknowledge, NotAcknowledged
        <5>5. Uploading'
          BY <1>2, <2>4, <3>3, <4>2, <4>4, <4>6, <5>1, <5>2, <5>3, <5>4 DEF Uploading
        <5> QED BY <1>2, <3>3, <4>3, <5>5 DEF Phases
      <4> QED BY <4>5, <4>6
    <3> QED BY <3>1, <3>2, <3>5, <3>6
  <2> QED BY <1>1, <1>2, <1>5, <2>6, <2>7, <2>8, <2>9, InvFinish
<1> QED BY <1>6, <1>7

\* A batch moves from the channel to the queue of its call.
LEMMA BatchMoves ==
  ASSUME NEW p \in Peer, NEW m, Batches(p) = Batches(p)' \cup {m}, Queued(p)' = Queued(p) \cup {m}
  PROVE  Stream(p)' = Stream(p) /\ OnTheWay(p)' = OnTheWay(p)
<1>1. Stream(p)' = Stream(p)
  BY DEF Stream
<1> QED BY <1>1 DEF OnTheWay

\* A batch moves from its channel to its queue, still on its way.
LEMMA EnqueueKeeps ==
  ASSUME Assumptions, SessionInv, NEW p \in Peer, EnqueueOpsBatch(p)
  PROVE  SessionInv'
<1>1. PICK m \in BatchMessage :
        /\ TypeOK' /\ UNCHANGED <<store, call, sessions, awaiting, sending, promised>>
        /\ m \in Message /\ chan[p] # <<>> /\ m = Head(chan[p]) /\ Is(m, "opsBatch", m.id)
        /\ m.id \in Id
        /\ chan'[p] = Tail(chan[p]) /\ chan'[Other(p)] = chan[Other(p)]
        /\ queue'[Other(p)] = queue[Other(p)]
        /\ queue'[p][m.id] = Append(queue[p][m.id], m)
        /\ \A id \in Id : id # m.id => queue'[p][id] = queue[p][id]
  BY EnqueueStep DEF SessionInv
<1>2. TypeOK /\ FutureIsFresh /\ call'.id = call.id
  BY <1>1 DEF SessionInv
<1>3. m.id <= call.id /\ call.id \in Id
  BY <1>1, <1>2, CallWasMade DEF Is, MessageType, Peer
<1>4. (p = "i" /\ Other(p) = "r") \/ (p = "r" /\ Other(p) = "i")
  BY DEF Peer, Other
<1>5. Touches({m.id, 0})
  <2>1. Carried(p, {m.id, 0}) /\ Carried(Other(p), {m.id, 0})
    BY <1>1 DEF Carried
  <2>2. \A q \in Peer : q = p \/ q = Other(p)
    BY DEF Peer, Other
  <2>3. \A id \in Id \ {m.id, 0} : \A q \in Peer : queue'[q][id] = queue[q][id]
    BY <1>1, <2>2
  <2>4. \A q \in Peer : Carried(q, {m.id, 0})
    BY <2>1, <2>2
  <2> QED BY <1>1, <2>3, <2>4 DEF Touches
<1>6. HellosKept /\ SendsWhatItMay'
  <2>1. ~Is(Head(chan[p]), "error", 0) /\ Head(chan[p]).type # "hello"
    BY <1>1 DEF Is
  <2>2. HellosKept
    BY <1>1, <1>2, <1>4, <2>1, HellosAreKept
  <2> QED BY <1>1, <2>2 DEF SessionInv, SendsWhatItMay
<1>7. CASE m.id # call.id
  BY <1>1, <1>3, <1>5, <1>6, <1>7, ElsewhereKeeps
<1>8. CASE m.id = call.id
  <2>1. Is(m, "opsBatch", call.id) /\ FutureIsFresh' /\ GoesOnAccepted'
    <3>1. call.id \in Int /\ call'.id \in Int /\ call.id <= call'.id
      BY <1>2, <1>3 DEF Id
    <3>2. FutureIsFresh'
      BY <1>2, <1>5, <1>8, <3>1, FutureStaysFresh
    <3> QED BY <1>1, <1>8, <3>2 DEF SessionInv, GoesOnAccepted
  <2>2. /\ Session' = Session /\ Sending' = Sending
        /\ (call.id \in awaiting)' = (call.id \in awaiting)
    BY <1>1, <1>2 DEF Session, Sending
  <2>3. /\ Queued(p)' = Queued(p) \cup {m} /\ Queued(Other(p))' = Queued(Other(p))
        /\ queue'[Other(p)][call.id] = queue[Other(p)][call.id]
        /\ LastIsDone(queue[p][call.id]) /\ (\A b \in Queued(p) : ~b.done)
             => LastIsDone(queue'[p][call.id])
    <3>1. queue[p][call.id] \in Seq(BatchMessage)
      BY <1>2, <1>3 DEF TypeOK
    <3>2. /\ Elems(Append(queue[p][call.id], m)) = Elems(queue[p][call.id]) \cup {m}
          /\ LastIsDone(queue[p][call.id]) /\ (\A b \in Elems(queue[p][call.id]) : ~b.done)
               => LastIsDone(Append(queue[p][call.id], m))
      BY <3>1, AppendQueue
    <3> QED BY <1>1, <1>2, <1>8, <3>2 DEF Queued
  <2>4. ASSUME p = "i"
        PROVE  /\ Acks' = Acks /\ Statuses' = Statuses /\ Errors' = Errors
               /\ Batches("i") = Batches("i")' \cup {m}
               /\ One(chan["i"], "ribltStatus", call.id) => One(chan["i"], "ribltStatus", call.id)'
               /\ StatusFirst(chan["i"], call.id) => Statuses = {}
               /\ ErrorFirst(chan["i"], call.id) => ~Bare(m) /\ ErrorFirst(chan["i"], call.id)'
    <3>1. TypeOK /\ call'.id = call.id /\ chan["i"] # <<>> /\ m = Head(chan["i"])
          /\ chan'["i"] = Tail(chan["i"])
      BY <1>1, <1>2, <2>4
    <3> QED BY <2>1, <3>1, TakenByInitiator
  <2>5. ASSUME p = "r"
        PROVE  /\ Codes' = Codes /\ Batches("r") = Batches("r")' \cup {m}
               /\ One(chan["r"], "ribltCodewords", call.id) => One(chan["r"], "ribltCodewords", call.id)'
               /\ DoneLast(chan["r"], call.id) =>
                    DoneLast(chan["r"], call.id)' /\ (m.done => Batches("r")' = {})
    <3>1. TypeOK /\ call'.id = call.id /\ chan["r"] # <<>> /\ m = Head(chan["r"])
          /\ chan'["r"] = Tail(chan["r"])
      BY <1>1, <1>2, <2>5
    <3>2. /\ Codes' = Codes /\ Batches("r") = Batches("r")' \cup {m}
          /\ One(chan["r"], "ribltCodewords", call.id) => One(chan["r"], "ribltCodewords", call.id)'
      BY <2>1, <3>1, TakenByResponder
    <3>3. DoneLast(chan["r"], call.id) =>
            DoneLast(chan["r"], call.id)' /\ (m.done => Batches("r")' = {})
      BY <2>1, <3>1, TakenByResponder
    <3> QED BY <3>2, <3>3
  <2>6. (p = "r" => ToInitiatorKept) /\ (p = "i" => ToResponderKept)
    BY <1>1, <1>2, <1>4, KeptChannels
  <2>7. /\ Stream("r")' = Stream("r") /\ Stream("i")' = Stream("i")
        /\ OnTheWay("r")' = OnTheWay("r") /\ OnTheWay("i")' = OnTheWay("i")
    <3>1. Batches(p) = Batches(p)' \cup {m} /\ Batches(Other(p))' = Batches(Other(p))
      BY <1>4, <2>4, <2>5, <2>6 DEF ToInitiatorKept, ToResponderKept
    <3>2. Stream(p)' = Stream(p) /\ OnTheWay(p)' = OnTheWay(p)
      BY <2>3, <3>1, BatchMoves
    <3>3. Stream(Other(p))' = Stream(Other(p)) /\ OnTheWay(Other(p))' = OnTheWay(Other(p))
      BY <1>4, <2>3, <3>1, StreamsFollow DEF Peer
    <3> QED BY <1>4, <3>2, <3>3
  <2>8. /\ Acks' = Acks /\ Statuses' = Statuses /\ Errors' = Errors /\ Codes' = Codes
        /\ One(chan["i"], "ribltStatus", call.id) => One(chan["i"], "ribltStatus", call.id)'
        /\ One(chan["r"], "ribltCodewords", call.id) => One(chan["r"], "ribltCodewords", call.id)'
        /\ StatusFirst(chan["i"], call.id) /\ Statuses # {} =>
             p = "r" /\ StatusFirst(chan["i"], call.id)'
        /\ DoneLast(chan["r"], call.id) => DoneLast(chan["r"], call.id)'
    BY <1>4, <2>4, <2>5, <2>6 DEF ToInitiatorKept, ToResponderKept
  <2>9. Greeting => Greeting'
    BY <1>1, <2>2, <2>7, <2>8 DEF Greeting
  <2>10. Hellos # {} \/ Refusals # {} => Greeting' /\ Acks' = {}
    BY <2>8, <2>9 DEF SessionInv, OneHello
  <2>11. ASSUME Alive' PROVE Alive /\ Phases'
    <3>1. Alive /\ Phases
      BY <1>1, <2>11 DEF Alive, SessionInv
    <3>2. /\ Direct => Direct'
          /\ ToUpload => ToUpload'
      BY <1>1, <2>2, <2>7, <2>8 DEF Direct, ToUpload, Accepted
    <3>3. Reconciling => Reconciling'
      BY <1>1, <2>2, <2>7, <2>8 DEF Reconciling, Accepted
    <3>4. ASSUME NEW missing, Decoded(missing) PROVE Decoded(missing)'
      <4>1. p = "r" /\ StatusFirst(chan["i"], call.id)' /\ Queued("i")' = Queued("i")
        BY <1>4, <2>3, <2>8, <3>4 DEF Decoded
      <4> QED BY <1>1, <2>2, <2>7, <2>8, <3>4, <4>1 DEF Decoded, NotAcknowledged
    <3>5. Finishing => Finishing'
      BY <1>1, <2>2, <2>7, <2>8 DEF Finishing
    <3>6. Refused => Refused'
      <4>1. CASE p = "i"
        BY <1>1, <2>3, <2>4, <4>1 DEF Refused
      <4>2. CASE p = "r"
        BY <1>1, <1>4, <2>3, <2>6, <4>2 DEF Refused, ToInitiatorKept
      <4> QED BY <1>4, <4>1, <4>2
    <3>7. Uploading => Uploading'
      <4>1. SUFFICES ASSUME Uploading PROVE Uploading'
        OBVIOUS
      <4>2. UploadEnds' = UploadEnds /\ ToAcknowledge' = ToAcknowledge
            /\ NotAcknowledged' = NotAcknowledged
        BY <1>1, <2>2, <2>7 DEF UploadEnds, ToAcknowledge, NotAcknowledged
      <4>3. /\ DoneLast(chan["r"], call.id) /\ LastIsDone(queue["r"][call.id])
            /\ (\E b \in Queued("r") : b.done) => Batches("r") = {}
        BY <4>1 DEF Uploading
      <4>4. LastIsDone(queue["r"][call.id])' /\ ((\E b \in Queued("r") : b.done) => Batches("r") = {})'
        <5>1. CASE p = "i"
          BY <1>2, <1>4, <2>3, <2>6, <4>3, <5>1 DEF ToResponderKept
        <5>2. CASE p = "r"
          <6>1. \A b \in Queued("r") : ~b.done
            BY <2>5, <4>3, <5>2
          <6> QED BY <1>2, <2>3, <2>5, <4>3, <5>2, <6>1
        <5> QED BY <1>4, <5>1, <5>2
      <4> QED BY <1>1, <2>2, <2>7, <2>8, <3>6, <4>1, <4>2, <4>4 DEF Uploading
    <3>8. Downloading => Downloading'
      BY <1>1, <2>2, <2>7 DEF Downloading
    <3> QED BY <1>1, <2>9, <3>1, <3>2, <3>3, <3>4, <3>5, <3>7, <3>8 DEF Phases
  <2> QED BY <1>1, <1>2, <1>6, <2>1, <2>10, <2>11, InvFinish
<1> QED BY <1>7, <1>8

\* The next batch of the call is taken from its queue.
LEMMA BatchTaken ==
  ASSUME TypeOK, NEW p \in Peer, call'.id = call.id, call.id \in Id, queue[p][call.id] # <<>>,
         queue'[p][call.id] = Tail(queue[p][call.id]), Batches(p)' = Batches(p),
         NEW m, m = Head(queue[p][call.id])
  PROVE  /\ Queued(p) = Queued(p)' \cup {m}
         /\ Stream(p) = Stream(p)' \cup {m} /\ OnTheWay(p) = OnTheWay(p)' \cup m.ops
         /\ LastIsDone(queue[p][call.id]) =>
              LastIsDone(queue'[p][call.id]) /\ (m.done => Queued(p)' = {})
<1> DEFINE q == queue[p][call.id]
<1>1. q \in Seq(BatchMessage) /\ q # <<>>
  BY DEF TypeOK
<1>2. /\ Elems(q) = Elems(Tail(q)) \cup {Head(q)}
      /\ LastIsDone(q) => LastIsDone(Tail(q)) /\ (Head(q).done => Elems(Tail(q)) = {})
  <2> HIDE DEF q
  <2> QED BY <1>1, TailQueue
<1>3. Queued(p) = Elems(q) /\ Queued(p)' = Elems(Tail(q))
  BY DEF Queued
<1>4. /\ Queued(p) = Queued(p)' \cup {m}
      /\ LastIsDone(queue[p][call.id]) =>
           LastIsDone(queue'[p][call.id]) /\ (m.done => Queued(p)' = {})
  BY <1>2, <1>3
<1>5. Stream(p) = Stream(p)' \cup {m}
  BY <1>4 DEF Stream
<1> QED BY <1>4, <1>5 DEF OnTheWay

\* The responder stores a batch, acknowledges the last one, or refuses one; a refusal
\* reaches the initiator before any acknowledgement.
LEMMA OnOpsBatchResponderKeeps ==
  ASSUME Assumptions, SessionInv, NEW id \in Id, OnOpsBatchResponder(id)
  PROVE  SessionInv'
<1> DEFINE Refuses(m) ==
             /\ m.ops \cap Invalid["r"] # {} /\ UNCHANGED <<store, sessions, awaiting>>
             /\ \E n \in Message : Is(n, "error", id) /\ chan'["i"] = Append(chan["i"], n)
           Acknowledges(m) ==
             m.done /\ (IF sessions[id].open THEN sessions[id].incoming ELSE id \in awaiting)
           Applies(m) ==
             /\ m.ops \cap Invalid["r"] = {} /\ store'["r"] = store["r"] \cup m.ops
             /\ awaiting' = IF m.done /\ ~sessions[id].open THEN awaiting \ {id} ELSE awaiting
             /\ sessions' = IF m.done /\ sessions[id].open
                            THEN [sessions EXCEPT ![id] = NoSession] ELSE sessions
             /\ IF Acknowledges(m)
                THEN \E n \in Message : n = Batch(id, {}, TRUE) /\ chan'["i"] = Append(chan["i"], n)
                ELSE chan'["i"] = chan["i"]
<1>1. PICK m \in BatchMessage :
        /\ TypeOK' /\ UNCHANGED <<call, sending, promised>>
        /\ store'["i"] = store["i"] /\ chan'["r"] = chan["r"] /\ queue'["i"] = queue["i"]
        /\ queue["r"][id] # <<>> /\ queue'["r"][id] = Tail(queue["r"][id])
        /\ \A x \in Id : x # id => queue'["r"][x] = queue["r"][x]
        /\ m = Head(queue["r"][id])
        /\ Refuses(m) \/ Applies(m)
  BY OnOpsBatchResponderStep DEF SessionInv
<1>2. /\ TypeOK /\ FutureIsFresh /\ call'.id = call.id /\ "r" \in Peer /\ "i" \in Peer
      /\ sessions \in [Id -> ResponderSession] /\ chan["i"] \in Seq(Message)
      /\ store'["r"] = store["r"] \/ store'["r"] = store["r"] \cup m.ops
  BY <1>1 DEF SessionInv, TypeOK, Peer
<1>3. id <= call.id /\ call.id \in Id
  BY <1>1, <1>2, CallWasMade
<1>4. /\ chan'["i"] = chan["i"] \/ \E n \in Message : /\ chan'["i"] = Append(chan["i"], n)
                                                     /\ n.id = id /\ ~Is(n, "error", 0)
      /\ \A x \in Id : x # id => sessions'[x] = sessions[x] /\ (x \in awaiting' <=> x \in awaiting)
      /\ sessions'[id] = sessions[id] \/ sessions'[id] = NoSession
      /\ \A p \in Peer : store[p] \subseteq store'[p]
  <2>1. CASE Refuses(m)
    <3>1. PICK n \in Message : Is(n, "error", id) /\ chan'["i"] = Append(chan["i"], n)
      BY <2>1
    <3>2. n.id = id /\ ~Is(n, "error", 0)
      BY <3>1 DEF Is, Id
    <3> QED BY <2>1, <3>1, <3>2
  <2>2. CASE Applies(m)
    <3>1. chan'["i"] = chan["i"] \/ \E n \in Message : /\ chan'["i"] = Append(chan["i"], n)
                                                      /\ n.id = id /\ ~Is(n, "error", 0)
      BY <2>2 DEF Batch, Is
    <3>2. /\ \A x \in Id : x # id => sessions'[x] = sessions[x] /\ (x \in awaiting' <=> x \in awaiting)
          /\ sessions'[id] = sessions[id] \/ sessions'[id] = NoSession
      BY <1>2, <2>2
    <3>3. \A p \in Peer : store[p] \subseteq store'[p]
      BY <1>1, <2>2 DEF Peer
    <3> QED BY <3>1, <3>2, <3>3
  <2> QED BY <1>1, <2>1, <2>2
<1> HIDE DEF Refuses, Applies
<1>5. Touches({id, 0})
  <2>1. Carried("r", {id, 0}) /\ Carried("i", {id, 0})
    BY <1>1, <1>4 DEF Carried
  <2>2. \A x \in Id \ {id, 0} : \A p \in Peer : queue'[p][x] = queue[p][x]
    BY <1>1 DEF Peer
  <2> QED BY <1>1, <1>4, <2>1, <2>2 DEF Touches, Peer
<1>6. HellosKept /\ SendsWhatItMay'
  <2>1. HellosKept
    <3>1. chan'["i"] = chan["i"] \/ \E n \in Message : /\ chan'["i"] = Append(chan["i"], n)
                                                      /\ ~Is(n, "error", 0)
      BY <1>4
    <3> QED BY <1>1, <1>2, <3>1, HellosAreKept
  <2>2. SendsWhatItMay'
    <3>1. NoSession.local = {}
      BY DEF NoSession
    <3> QED BY <1>1, <1>4, <3>1 DEF SessionInv, SendsWhatItMay
  <2> QED BY <2>1, <2>2
<1>7. CASE id # call.id
  BY <1>1, <1>3, <1>4, <1>5, <1>6, <1>7, ElsewhereKeeps
<1>8. CASE id = call.id
  <2>1. FutureIsFresh' /\ GoesOnAccepted'
    <3>1. call.id \in Int /\ call'.id \in Int /\ call.id <= call'.id
      BY <1>2, <1>3 DEF Id
    <3>2. FutureIsFresh'
      BY <1>2, <1>5, <1>8, <3>1, FutureStaysFresh
    <3> QED BY <1>1, <3>2 DEF SessionInv, GoesOnAccepted
  <2>2. ToResponderKept
    BY <1>1, <1>2, KeptChannels
  <2>3. /\ Queued("r") = Queued("r")' \cup {m}
        /\ Stream("r") = Stream("r")' \cup {m} /\ OnTheWay("r") = OnTheWay("r")' \cup m.ops
        /\ LastIsDone(queue["r"][call.id]) =>
             LastIsDone(queue'["r"][call.id]) /\ (m.done => Queued("r")' = {})
    <3>1. /\ Batches("r")' = Batches("r") /\ queue["r"][call.id] # <<>>
          /\ queue'["r"][call.id] = Tail(queue["r"][call.id]) /\ m = Head(queue["r"][call.id])
      BY <1>1, <1>8, <2>2 DEF ToResponderKept
    <3> QED BY <1>2, <1>3, <3>1, BatchTaken
  <2>4. Sending' = Sending /\ Queued("i")' = Queued("i")
    BY <1>1, <1>2 DEF Sending, Queued
  <2>5. Hellos = {} /\ Refusals = {}
    BY <2>3 DEF SessionInv, OneHello, Greeting
  <2>6. ASSUME Alive' PROVE Alive /\ Phases'
    <3>1. Alive /\ (call.at = "ok" => call.received = "resolved")
      BY <1>1, <2>6 DEF Alive, SessionInv, Phases
    <3>2. /\ Downloading
          /\ (~call.awaitingUploadAck /\ promised["r"] = {} /\ Finishing) \/ Uploading
      BY <2>3, <3>1 DEF SessionInv, Phases, Greeting, Direct, ToUpload, Reconciling, Decoded
    <3>3. CASE ~call.awaitingUploadAck /\ promised["r"] = {} /\ Finishing
      <4>1. m.ops = {} /\ OnTheWay("r")' = {}
        BY <2>3, <3>3 DEF Finishing
      <4>2. Applies(m)
        BY <1>1, <4>1 DEF Refuses
      <4>3. /\ chan'["i"] = chan["i"] /\ call.id \notin awaiting'
            /\ Session' = Session \/ Session' = NoSession
        <5>1. ~Acknowledges(m)
          BY <1>8, <3>3 DEF Finishing, Session
        <5> QED BY <1>2, <1>4, <1>8, <3>3, <4>2, <5>1 DEF Applies, Finishing, Session
      <4>4. ToInitiatorKept
        BY <1>2, <4>3, KeptChannels
      <4>5. OnTheWay("i")' = OnTheWay("i")
        BY <2>4, <4>4, StreamsFollow DEF ToInitiatorKept, Peer
      <4>6. Finishing'
        BY <1>1, <2>2, <2>4, <3>3, <4>1, <4>3, <4>4
           DEF Finishing, ToResponderKept, ToInitiatorKept, NoSession
      <4>7. Downloading'
        BY <1>1, <2>4, <3>2, <4>5 DEF Downloading
      <4> QED BY <1>1, <3>1, <3>3, <4>6, <4>7 DEF Phases
    <3>4. CASE Uploading
      <4>1. /\ ToAcknowledge /\ NotAcknowledged
            /\ call.at \in {"receive", "ok"} => UploadEnds
            /\ call.at \in {"riblt", "upload"} => ~UploadEnds
            /\ call.at \in {"riblt", "upload", "receive", "ok"}
            /\ LastIsDone(queue'["r"][call.id]) /\ (m.done => Queued("r")' = {})
            /\ (\E b \in Queued("r") : b.done) => Batches("r") = {}
            /\ DoneLast(chan["r"], call.id) /\ (Errors # {} => Refused)
            /\ Session.open => Session.incoming /\ call.id \notin awaiting
        BY <2>3, <3>4 DEF Uploading
      <4>2. /\ m.done => Stream("r")' = {} /\ call.at \in {"receive", "ok"}
            /\ ~m.done => UploadEnds' = UploadEnds
            /\ UploadEnds' => UploadEnds
            /\ (\E b \in Queued("r")' : b.done) => Batches("r")' = {}
            /\ DoneLast(chan["r"], call.id)'
        BY <2>2, <2>3, <3>4, <4>1 DEF Uploading, UploadEnds, Stream, ToResponderKept
      <4>3. CASE Refuses(m)
        <5>1. PICK n \in Message : Is(n, "error", id) /\ chan'["i"] = Append(chan["i"], n)
          BY <4>3 DEF Refuses
        <5>2. /\ Acks' = Acks /\ Statuses' = Statuses /\ Batches("i")' = Batches("i")
              /\ ErrorFirst(chan["i"], call.id)'
          <6> DEFINE s == chan["i"]
          <6>1. s \in Seq(Message) /\ Is(n, "error", call.id) /\ chan'["i"] = Append(s, n)
                /\ \A b \in Got(s, "opsBatch", call.id) : ~Bare(b)
            BY <1>2, <1>8, <4>1, <5>1 DEF NotAcknowledged, Stream, Batches
          <6> HIDE DEF s
          <6>2. Is(n, "error", call.id) /\ (\A b \in Got(s, "opsBatch", call.id) : ~Bare(b))
                  => ErrorFirst(Append(s, n), call.id)
            <7>1. s \in Seq(Message)
              BY <6>1
            <7> QED BY <7>1, AppendChannel
          <6>3. \A type, x : Got(chan'["i"], type, x) =
                              IF Is(n, type, x) THEN Got(chan["i"], type, x) \cup {n}
                              ELSE Got(chan["i"], type, x)
            BY <1>2, <5>1, AppendedGot
          <6>4. \A type : type # "error" => ~Is(n, type, call.id)
            BY <5>1 DEF Is
          <6>5. Acks' = Acks /\ Statuses' = Statuses /\ Batches("i")' = Batches("i")
            BY <1>2, <6>3, <6>4 DEF Acks, Statuses, Batches
          <6>6. ErrorFirst(chan["i"], call.id)'
            BY <1>2, <6>1, <6>2
          <6> QED BY <6>5, <6>6
        <5>3. /\ UNCHANGED <<store, sessions, awaiting>> /\ Session' = Session
              /\ (call.id \in awaiting)' = (call.id \in awaiting)
          BY <1>2, <4>3 DEF Refuses, Session
        <5>4. Stream("i")' = Stream("i") /\ OnTheWay("i")' = OnTheWay("i")
          BY <2>4, <5>2, StreamsFollow DEF Peer
        <5>5. Refused' /\ ToAcknowledge' /\ NotAcknowledged'
          BY <1>1, <2>4, <4>1, <5>2, <5>3, <5>4 DEF Refused, ToAcknowledge, NotAcknowledged, Stream
        <5>6. Downloading'
          BY <1>1, <2>4, <3>2, <5>3, <5>4 DEF Downloading
        <5>7. Uploading'
          BY <1>1, <2>2, <2>4, <3>4, <4>1, <4>2, <5>2, <5>3, <5>5 DEF Uploading, ToResponderKept
        <5> QED BY <1>1, <3>1, <5>6, <5>7 DEF Phases
      <4>4. CASE Applies(m) /\ ~m.done
        <5>1. /\ chan'["i"] = chan["i"] /\ UNCHANGED <<sessions, awaiting>>
              /\ store'["r"] = store["r"] \cup m.ops
          BY <4>4 DEF Applies
        <5>2. ToInitiatorKept /\ Session' = Session
              /\ (call.id \in awaiting)' = (call.id \in awaiting)
          BY <1>2, <5>1, KeptChannels DEF Session
        <5>3. Stream("i")' = Stream("i") /\ OnTheWay("i")' = OnTheWay("i")
          BY <2>4, <5>2, StreamsFollow DEF ToInitiatorKept, Peer
        <5>4. ToAcknowledge' /\ NotAcknowledged' /\ (Refused => Refused')
          BY <1>1, <2>4, <4>1, <5>2, <5>3 DEF Refused, ToAcknowledge, NotAcknowledged, ToInitiatorKept
        <5>5. Downloading'
          BY <1>1, <2>4, <3>2, <5>3 DEF Downloading
        <5>6. promised["r"] \subseteq store["r"] \cup OnTheWay("r") \cup call.missing =>
                (promised["r"] \subseteq store["r"] \cup OnTheWay("r") \cup call.missing)'
          BY <1>1, <2>3, <5>1
        <5>7. Uploading'
          BY <1>1, <2>2, <2>4, <3>4, <4>1, <4>2, <4>4, <5>2, <5>4, <5>6
             DEF Uploading, ToResponderKept, ToInitiatorKept
        <5> QED BY <1>1, <3>1, <5>5, <5>7 DEF Phases
      <4>5. CASE Applies(m) /\ m.done
        <5>1. Acknowledges(m)
          BY <1>8, <4>1, <4>5 DEF ToAcknowledge, Session
        <5>2. PICK n \in Message : n = Batch(id, {}, TRUE) /\ chan'["i"] = Append(chan["i"], n)
          BY <4>5, <5>1 DEF Applies
        <5>3. /\ store'["r"] = store["r"] \cup m.ops
              /\ awaiting' = IF ~sessions[id].open THEN awaiting \ {id} ELSE awaiting
              /\ sessions' = IF sessions[id].open
                             THEN [sessions EXCEPT ![id] = NoSession] ELSE sessions
          BY <4>5 DEF Applies
        <5>4. ~Session'.open /\ call.id \notin awaiting'
          BY <1>2, <1>8, <4>1, <5>3 DEF Session, NoSession
        <5>5. /\ Statuses' = Statuses /\ Errors' = Errors /\ Batches("i")' = Batches("i") \cup {n}
              /\ ErrorFirst(chan["i"], call.id) => ErrorFirst(chan["i"], call.id)'
          <6>1. Is(n, "opsBatch", call.id)
            BY <1>8, <5>2 DEF Batch, Is
          <6>2. BatchSentTo(chan["i"], Append(chan["i"], n), n, call.id)
            <7>1. TypeOK /\ chan["i"] \in Seq(Message)
              BY <1>2
            <7> QED BY <6>1, <7>1, BatchSent
          <6>3. BatchSentTo(chan["i"], chan'["i"], n, call'.id) /\ call'.id = call.id
            BY <1>2, <5>2, <6>2
          <6> QED BY <6>3 DEF BatchSentTo, Statuses, Errors, Batches
        <5>6. OnTheWay("i") \subseteq OnTheWay("i")'
          BY <1>2, <2>4, <5>5, StreamsFollow
        <5>7. Downloading'
          BY <1>1, <2>4, <3>2, <5>6 DEF Downloading
        <5>8. Refused => Refused'
          BY <1>1, <2>4, <5>5 DEF Refused
        <5>9. call.missing = {} /\ Stream("r")' = {} /\ OnTheWay("r") \subseteq m.ops
              /\ ~ToAcknowledge' /\ ~UploadEnds'
          BY <1>2, <2>3, <3>4, <4>2, <4>5, <5>4 DEF Uploading, ToAcknowledge, UploadEnds, OnTheWay
        <5>10. promised["r"] \subseteq store["r"] \cup OnTheWay("r") \cup call.missing =>
                 promised["r"] \subseteq store'["r"]
          BY <5>3, <5>9
        <5>11. Uploading'
          BY <1>1, <2>2, <2>4, <3>4, <4>1, <4>2, <4>5, <5>4, <5>5, <5>8, <5>9, <5>10
             DEF Uploading, ToResponderKept
        <5> QED BY <1>1, <3>1, <5>7, <5>11 DEF Phases
      <4> QED BY <1>1, <4>3, <4>4, <4>5
    <3> QED BY <3>1, <3>2, <3>3, <3>4
  <2> QED BY <1>1, <1>2, <1>6, <2>1, <2>5, <2>6, InvFinish
<1> QED BY <1>7, <1>8

\* The initiator stores a batch, which may complete the call, or refuses one and fails.
LEMMA OnOpsBatchInitiatorKeeps ==
  ASSUME Assumptions, SessionInv, NEW id \in Id, OnOpsBatchInitiator(id)
  PROVE  SessionInv'
<1> DEFINE Refuses(m) ==
             /\ m.ops \cap Invalid["i"] # {} /\ UNCHANGED store
             /\ \E n \in Message : Is(n, "error", id) /\ chan'["r"] = Append(chan["r"], n)
             /\ \/ Registered(id) /\
                     Becomes(call.at, call.mode, call.refs, Settle(call.ack, "rejected"),
                             Settle(call.status, "rejected"), Settle(call.received, "rejected"),
                             call.missing, call.credits, call.awaitingUploadAck, TRUE)
                \/ ~Registered(id) /\ call' = call
           Applies(m) ==
             /\ m.ops \cap Invalid["i"] = {} /\ store'["i"] = store["i"] \cup m.ops
             /\ chan'["r"] = chan["r"]
             /\ \/ Registered(id) /\ CompletesCall(m) /\
                     Becomes(call.at, call.mode, call.refs, call.ack, call.status,
                             Settle(call.received, "resolved"), call.missing, call.credits,
                             call.awaitingUploadAck, call.done)
                \/ ~(Registered(id) /\ CompletesCall(m)) /\ call' = call
<1>1. PICK m \in BatchMessage :
        /\ TypeOK' /\ UNCHANGED <<sessions, awaiting, sending, promised>>
        /\ store'["r"] = store["r"] /\ chan'["i"] = chan["i"] /\ queue'["r"] = queue["r"]
        /\ queue["i"][id] # <<>> /\ queue'["i"][id] = Tail(queue["i"][id])
        /\ \A x \in Id : x # id => queue'["i"][x] = queue["i"][x]
        /\ m = Head(queue["i"][id])
        /\ Refuses(m) \/ Applies(m)
  BY OnOpsBatchInitiatorStep DEF SessionInv
<1> HIDE DEF Refuses, Applies
<1>2. /\ TypeOK /\ FutureIsFresh /\ "r" \in Peer /\ "i" \in Peer /\ chan["r"] \in Seq(Message)
      /\ call'.id = call.id /\ call'.empty = call.empty /\ call'.at = call.at
      /\ call'.mode = call.mode /\ call'.missing = call.missing
      /\ call'.awaitingUploadAck = call.awaitingUploadAck /\ (call.done => call'.done)
      /\ ~Registered(id) => call' = call
  BY <1>1 DEF SessionInv, TypeOK, Peer, Refuses, Applies, Becomes
<1>3. id <= call.id /\ call.id \in Id
  BY <1>1, <1>2, CallWasMade
<1>4. /\ \A p \in Peer : store[p] \subseteq store'[p]
      /\ chan'["r"] = chan["r"] \/ \E n \in Message : /\ chan'["r"] = Append(chan["r"], n)
                                                     /\ Is(n, "error", id)
  BY <1>1 DEF Refuses, Applies, Peer
<1>5. Touches({id, 0})
  <2>1. Carried("r", {id, 0}) /\ Carried("i", {id, 0})
    BY <1>1, <1>4 DEF Carried, Is
  <2>2. \A x \in Id \ {id, 0} : \A p \in Peer : queue'[p][x] = queue[p][x]
    BY <1>1 DEF Peer
  <2> QED BY <1>1, <2>1, <2>2 DEF Touches, Peer
<1>6. HellosKept /\ SendsWhatItMay'
  <2>1. chan'["r"] = chan["r"] \/ \E n \in Message : /\ chan'["r"] = Append(chan["r"], n)
                                                    /\ n.type # "hello"
    BY <1>4 DEF Is
  <2>2. HellosKept
    BY <1>1, <1>2, <2>1, HellosAreKept
  <2> QED BY <1>1, <2>2 DEF SessionInv, SendsWhatItMay
<1>7. CASE id # call.id
  <2>1. call' = call
    BY <1>2, <1>7 DEF Registered
  <2> QED BY <1>1, <1>3, <1>4, <1>5, <1>6, <1>7, <2>1, ElsewhereKeeps
<1>8. CASE id = call.id
  <2>1. FutureIsFresh'
    <3>1. call.id \in Int /\ call'.id \in Int /\ call.id <= call'.id
      BY <1>2, <1>3 DEF Id
    <3> QED BY <1>2, <1>5, <1>8, <3>1, FutureStaysFresh
  <2>2. ToInitiatorKept
    BY <1>1, <1>2, KeptChannels
  <2>3. ToResponderKept
    <3>1. CASE chan'["r"] = chan["r"]
      BY <1>2, <3>1, KeptChannels
    <3>2. ASSUME NEW n \in Message, chan'["r"] = Append(chan["r"], n), Is(n, "error", id)
          PROVE  ToResponderKept
      <4>1. TypeOK /\ call'.id = call.id /\ Is(n, "error", call.id)
        BY <1>2, <1>8, <3>2
      <4>2. /\ Codes' = Codes
            /\ One(chan["r"], "ribltCodewords", call.id) => One(chan["r"], "ribltCodewords", call.id)'
        BY <3>2, <4>1, SentToResponder
      <4>3. /\ Batches("r")' = Batches("r")
            /\ DoneLast(chan["r"], call.id) => DoneLast(chan["r"], call.id)'
        BY <3>2, <4>1, SentToResponder
      <4> QED BY <4>2, <4>3 DEF ToResponderKept
    <3> QED BY <1>4, <3>1, <3>2
  <2>4. /\ Queued("i") = Queued("i")' \cup {m}
        /\ Stream("i") = Stream("i")' \cup {m} /\ OnTheWay("i") = OnTheWay("i")' \cup m.ops
    <3>1. /\ Batches("i")' = Batches("i") /\ queue["i"][call.id] # <<>>
          /\ queue'["i"][call.id] = Tail(queue["i"][call.id]) /\ m = Head(queue["i"][call.id])
      BY <1>1, <1>8, <2>2 DEF ToInitiatorKept
    <3> QED BY <1>2, <1>3, <3>1, BatchTaken
  <2>5. /\ Session' = Session /\ Sending' = Sending
        /\ (call.id \in awaiting)' = (call.id \in awaiting)
        /\ Queued("r")' = Queued("r") /\ queue'["r"][call.id] = queue["r"][call.id]
    BY <1>1, <1>2 DEF Session, Sending, Queued
  <2>6. Stream("r")' = Stream("r") /\ OnTheWay("r")' = OnTheWay("r")
    BY <1>2, <2>3, <2>5, StreamsFollow DEF ToResponderKept
  <2>7. Hellos = {} /\ Refusals = {}
    BY <2>4 DEF SessionInv, OneHello, Greeting
  <2>8. GoesOnAccepted'
    BY <1>1, <1>2 DEF SessionInv, GoesOnAccepted, Refuses, Applies, Becomes, Settle
  <2>9. ASSUME Alive' PROVE Alive /\ Phases'
    <3>1. /\ Alive /\ call'.ack = call.ack
          /\ \/ call'.received = call.received
             \/ CompletesCall(m) /\ call.received = "pending" /\ call'.received = "resolved"
      BY <1>1, <1>2, <2>9 DEF Refuses, Applies, Becomes, Settle, Alive
    <3>2. /\ Downloading /\ (call.at = "ok" => call.received = "resolved")
          /\ \/ ~call.awaitingUploadAck /\ promised["r"] = {} /\ (Direct \/ Finishing)
             \/ Uploading
      BY <2>4, <3>1 DEF SessionInv, Phases, Greeting, ToUpload, Reconciling, Decoded
    <3>3. (call.at = "ok" => call.received = "resolved")'
      BY <1>2, <3>1, <3>2
    <3>4. Downloading'
      <4>1. CASE Refuses(m)
        BY <4>1 DEF Refuses, Downloading
      <4>2. CASE Applies(m)
        BY <1>1, <2>4, <2>5, <3>2, <4>2 DEF Applies, Downloading
      <4> QED BY <1>1, <4>1, <4>2
    <3>5. Direct => Direct'
      BY <1>2, <2>2, <2>3, <2>5, <2>6, <3>1, <1>1 DEF Direct, Accepted, ToInitiatorKept, ToResponderKept
    <3>6. Finishing => Finishing'
      BY <1>2, <2>2, <2>3, <2>5, <2>6 DEF Finishing, ToInitiatorKept, ToResponderKept
    <3>7. Uploading => Uploading'
      <4> SUFFICES ASSUME Uploading PROVE Uploading'
        OBVIOUS
      <4>1. CompletesCall(m) => Bare(m)
        BY DEF Uploading, CompletesCall, Bare
      <4>2. (Refused => Refused') /\ (NotAcknowledged => NotAcknowledged')
        BY <2>2, <2>4, <3>1, <4>1 DEF Refused, NotAcknowledged, ToInitiatorKept
      <4>3. UploadEnds' = UploadEnds /\ ToAcknowledge' = ToAcknowledge
        BY <1>2, <2>5, <2>6 DEF UploadEnds, ToAcknowledge
      <4> QED BY <1>1, <1>2, <2>2, <2>3, <2>5, <2>6, <4>2, <4>3
              DEF Uploading, ToInitiatorKept, ToResponderKept
    <3> QED BY <1>1, <1>2, <3>1, <3>2, <3>3, <3>4, <3>5, <3>6, <3>7 DEF Phases
  <2> QED BY <1>1, <1>2, <1>6, <2>1, <2>7, <2>8, <2>9, InvFinish
<1> QED BY <1>7, <1>8

\* An error at the initiator fails the call it names, or the one that is being greeted.
LEMMA OnErrorKeeps ==
  ASSUME Assumptions, SessionInv, NEW p \in Peer, OnError(p)
  PROVE  SessionInv'
<1> DEFINE Hit(m) == p = "i" /\ (Registered(m.id) \/ (m.id = 0 /\ Registered(call.id)))
<1>1. PICK m \in Message :
        /\ TypeOK' /\ UNCHANGED <<store, sessions, awaiting, sending, queue, promised>>
        /\ chan[p] # <<>> /\ m = Head(chan[p]) /\ Is(m, "error", m.id)
        /\ chan'[p] = Tail(chan[p]) /\ chan'[Other(p)] = chan[Other(p)]
        /\ \/ /\ Hit(m)
              /\ Becomes(call.at, call.mode, call.refs, Settle(call.ack, "rejected"),
                         Settle(call.status, "rejected"), Settle(call.received, "rejected"),
                         call.missing, call.credits, call.awaitingUploadAck, TRUE)
           \/ ~Hit(m) /\ call' = call
  BY OnErrorStep DEF SessionInv
<1> HIDE DEF Hit
<1>2. /\ TypeOK /\ FutureIsFresh /\ call'.id = call.id /\ call'.empty = call.empty
      /\ call'.at = call.at /\ call.id \in Int /\ call.id >= 0 /\ m.id \in 0 .. MaxSyncs
  <2>1. call.id \in 0 .. MaxSyncs /\ call'.id = call.id /\ call'.empty = call.empty
        /\ call'.at = call.at
    BY <1>1 DEF SessionInv, TypeOK, Call, Becomes
  <2>2. m.id \in 0 .. MaxSyncs
    BY <1>1 DEF Message, Is
  <2>3. TypeOK /\ FutureIsFresh
    BY DEF SessionInv
  <2> QED BY <2>1, <2>2, <2>3
<1>3. (p = "i" /\ Other(p) = "r") \/ (p = "r" /\ Other(p) = "i")
  BY DEF Peer, Other
<1>4. m.id <= call.id /\ (m.id # 0 => m.id \in Id /\ call.id \in Id)
  <2>1. CASE m.id = 0
    BY <1>2, <2>1
  <2>2. CASE m.id # 0
    <3>1. m.id \in Id /\ Head(chan[p]).id = m.id /\ Head(chan[p]).type \in MessageType
      BY <1>1, <1>2, <2>2 DEF Id, Is, MessageType
    <3> QED BY <1>1, <1>2, <3>1, CallWasMade
  <2> QED BY <2>1, <2>2
<1>5. Touches({m.id, 0})
  <2>1. Carried(p, {m.id, 0}) /\ Carried(Other(p), {m.id, 0})
    BY <1>1 DEF Carried
  <2>2. \A q \in Peer : q = p \/ q = Other(p)
    BY DEF Peer, Other
  <2>3. \A q \in Peer : Carried(q, {m.id, 0})
    BY <2>1, <2>2
  <2> QED BY <1>1, <2>3 DEF Touches
<1>6. FutureIsFresh'
  <2>1. m.id \in Int /\ call'.id \in Int /\ m.id <= call'.id /\ call.id <= call'.id
    BY <1>2, <1>4
  <2> QED BY <1>2, <1>5, <2>1, FutureStaysFresh
<1>7. SendsWhatItMay' /\ GoesOnAccepted'
  BY <1>1, <1>2 DEF SessionInv, SendsWhatItMay, GoesOnAccepted, Becomes, Settle
<1>8. ~(p = "i" /\ m.id = 0) => HellosKept
  <2>1. Head(chan[p]).type # "hello" /\ (m.id # 0 => ~Is(Head(chan[p]), "error", 0))
    BY <1>1 DEF Is
  <2> QED BY <1>1, <1>2, <1>3, <2>1, HellosAreKept
<1>9. CASE m.id # call.id /\ ~(p = "i" /\ m.id = 0)
  <2>1. call' = call
    BY <1>1, <1>9 DEF Hit, Registered
  <2>2. call.id \in Id => Elsewhere(call.id)
    <3>1. call.id \in Id => call.id \in Id \ {m.id, 0}
      BY <1>9 DEF Id
    <3> QED BY <1>2, <1>5, <3>1, TouchesElsewhere
  <2> QED BY <1>1, <1>6, <1>7, <1>8, <1>9, <2>1, <2>2, InvFrame
<1>10. CASE p = "i" /\ m.id = 0
  <2>1. m \in Refusals /\ Refusals = Refusals' \cup {m}
        /\ (One(chan["i"], "error", 0) => One(chan["i"], "error", 0)' /\ Refusals' = {})
    <3> DEFINE s == chan["i"]
    <3>1. s \in Seq(Message) /\ s # <<>> /\ m = Head(s) /\ chan'["i"] = Tail(s) /\ Is(m, "error", 0)
      BY <1>1, <1>2, <1>10 DEF TypeOK
    <3> HIDE DEF s
    <3>2. /\ \A ty : Is(Head(s), ty, 0) => Got(s, ty, 0) = Got(Tail(s), ty, 0) \cup {Head(s)}
          /\ \A ty : One(s, ty, 0) =>
                       One(Tail(s), ty, 0) /\ (Is(Head(s), ty, 0) => Got(Tail(s), ty, 0) = {})
      BY <3>1, TailChannel
    <3>3. /\ Got(s, "error", 0) = Got(Tail(s), "error", 0) \cup {m}
          /\ One(s, "error", 0) => One(Tail(s), "error", 0) /\ Got(Tail(s), "error", 0) = {}
      BY <3>1, <3>2
    <3> QED BY <3>1, <3>3 DEF s, Refusals
  <2>2. Greeting /\ OneHello /\ Hellos = {}
    BY <2>1 DEF SessionInv, OneHello
  <2>3. call.at = "ack" /\ call.ack = "pending" /\ call.id \in Id
    BY <2>2 DEF Greeting, SessionInv, GoesOnAccepted
  <2>4. Hit(m)
    BY <1>10, <2>3 DEF Hit, Registered
  <2>5. ~Alive'
    BY <1>1, <2>3, <2>4 DEF Alive, Becomes, Settle
  <2>6. chan'["r"] = chan["r"]
    BY <1>1, <1>3, <1>10
  <2>7. OneHello'
    BY <1>2, <2>1, <2>2, <2>6 DEF OneHello, Hellos
  <2> QED BY <1>1, <1>6, <1>7, <2>5, <2>7 DEF SessionInv
<1>11. CASE m.id = call.id /\ p = "r"
  <2>1. call' = call /\ chan'["i"] = chan["i"] /\ HellosKept
    BY <1>1, <1>3, <1>8, <1>11 DEF Hit
  <2>2. ToInitiatorKept
    BY <2>1, KeptChannels
  <2>3. ToResponderKept
    <3>1. TypeOK /\ call'.id = call.id /\ Is(m, "error", call.id) /\ chan["r"] # <<>>
          /\ m = Head(chan["r"]) /\ chan'["r"] = Tail(chan["r"])
      BY <1>1, <1>2, <1>11
    <3>2. /\ Codes' = Codes
          /\ One(chan["r"], "ribltCodewords", call.id) => One(chan["r"], "ribltCodewords", call.id)'
      BY <3>1, TakenByResponder
    <3>3. /\ Batches("r")' = Batches("r")
          /\ DoneLast(chan["r"], call.id) => DoneLast(chan["r"], call.id)'
      BY <3>1, TakenByResponder
    <3> QED BY <3>2, <3>3 DEF ToResponderKept
  <2>4. SessionKept /\ QueuesKept
    BY <1>1, <1>2 DEF SessionKept, QueuesKept, Session, Sending, Queued
  <2>5. MessagesKept
    BY <2>2, <2>3 DEF MessagesKept, ToInitiatorKept, ToResponderKept, Peer
  <2>6. StreamsKept
    BY <2>4, <2>5, StreamsFollow DEF StreamsKept, QueuesKept, MessagesKept
  <2>7. View
    BY <1>2, <2>2, <2>3, <2>4, <2>5, <2>6
       DEF View, ChannelsKept, ToInitiatorKept, ToResponderKept
  <2>8. (Greeting => Greeting') /\ (Phases => Phases') /\ Acks' = Acks
    BY <1>1, <2>1, <2>2, <2>7, PhasesFrame DEF ToInitiatorKept
  <2>9. Hellos # {} \/ Refusals # {} => Greeting' /\ Acks' = {}
    BY <2>8 DEF SessionInv, OneHello
  <2>10. Alive' => Alive /\ Phases'
    BY <2>1, <2>8 DEF SessionInv, Alive
  <2> QED BY <1>1, <1>2, <1>6, <1>7, <2>1, <2>9, <2>10, InvFinish
<1>12. CASE m.id = call.id /\ p = "i" /\ m.id # 0
  <2>1. Errors # {}
    <3>1. TypeOK /\ call'.id = call.id /\ Is(m, "error", call.id) /\ chan["i"] # <<>>
          /\ m = Head(chan["i"]) /\ chan'["i"] = Tail(chan["i"])
      BY <1>1, <1>2, <1>12
    <3>2. Errors = Errors' \cup {m}
      BY <3>1, TakenByInitiator
    <3> QED BY <3>2
  <2>2. Hellos = {} /\ Refusals = {}
    BY <2>1 DEF SessionInv, OneHello, Greeting
  <2>3. ~Alive'
    <3> SUFFICES ASSUME Alive' PROVE FALSE
      OBVIOUS
    <3>1. Alive
      BY <1>1, <1>2 DEF Alive, Becomes, Settle
    <3>2. Refused /\ (call.at = "ok" => call.received = "resolved")
      BY <2>1, <3>1
         DEF SessionInv, Phases, Greeting, Direct, ToUpload, Reconciling, Decoded, Finishing, Uploading
    <3>3. call.received = "pending" /\ Registered(call.id)
      BY <3>1, <3>2 DEF Refused, Registered, Alive
    <3>4. Hit(m)
      BY <1>12, <3>3 DEF Hit
    <3> QED BY <1>1, <3>3, <3>4 DEF Alive, Becomes, Settle
  <2> QED BY <1>1, <1>2, <1>6, <1>7, <1>8, <1>12, <2>2, <2>3, InvFinish
<1> QED BY <1>3, <1>9, <1>10, <1>11, <1>12

-----------------------------------------------------------------------------
(* The invariant holds at the start and is kept, so that what it says of a  *)
(* call that returned holds of every state.                                *)

\* The invariant holds at the start.
LEMMA InitIsInv == Init /\ Assumptions => SessionInv
<1> SUFFICES ASSUME Init, Assumptions PROVE SessionInv
  OBVIOUS
<1>1. TypeOK
  BY InitIsTyped
<1>2. call.at = "none" /\ call.id = 0
  BY DEF Init, NewCall
<1>3. \A p \in Peer : \A type, id : Got(chan[p], type, id) = {}
  BY DEF Init, Got
<1>4. GoesOnAccepted /\ ~Alive
  BY <1>2 DEF GoesOnAccepted, Alive
<1>5. FutureIsFresh
  BY <1>3 DEF Init, FutureIsFresh, Fresh
<1>6. SendsWhatItMay
  BY DEF Init, SendsWhatItMay, NoSession
<1>7. OneHello
  <2>1. Hellos = {} /\ Refusals = {} /\ \A id : Got(chan["r"], "hello", id) = {}
    BY <1>3 DEF Hellos, Refusals, Peer
  <2>2. One(chan["r"], "hello", call.id) /\ One(chan["i"], "error", 0)
    BY <2>1, NothingGot DEF Refusals
  <2> QED BY <2>1, <2>2 DEF OneHello
<1> QED BY <1>1, <1>4, <1>5, <1>6, <1>7 DEF SessionInv

\* Nothing happens.
LEMMA StutterKeeps ==
  ASSUME SessionInv, UNCHANGED vars
  PROVE  SessionInv'
<1>1. UNCHANGED <<store, chan, call, sessions, awaiting, sending, queue, promised>>
  BY DEF vars
<1>2. TypeOK' /\ FutureIsFresh' /\ SendsWhatItMay'
  BY <1>1 DEF SessionInv, TypeOK, FutureIsFresh, Fresh, SendsWhatItMay
<1>3. HellosKept /\ View
  BY <1>1, NothingTouched
<1>4. (Greeting => Greeting') /\ (Phases => Phases') /\ Acks' = Acks
  BY <1>1, <1>3, PhasesFrame, ViewGives
<1>5. Hellos # {} \/ Refusals # {} => Greeting' /\ Acks' = {}
  BY <1>4 DEF SessionInv, OneHello
<1>6. GoesOnAccepted' /\ (Alive' => Alive /\ Phases')
  BY <1>1, <1>4 DEF SessionInv, GoesOnAccepted, Alive
<1> QED BY <1>1, <1>2, <1>3, <1>5, <1>6, InvFinish

\* Every step keeps the invariant.
LEMMA NextKeeps ==
  ASSUME Assumptions, NothingHidden, SessionInv, [Next]_vars
  PROVE  SessionInv'
<1>1. CASE UNCHANGED vars
  BY <1>1, StutterKeeps
<1>2. CASE SyncOnce
  BY <1>2, SyncOnceKeeps
<1>3. ASSUME NEW p \in Peer, LocalWrite(p) PROVE SessionInv'
  BY <1>3, LocalWriteKeeps
<1>4. CASE Protocol
  <2>1. CASE AfterAck
    BY <2>1, AfterAckKeeps
  <2>2. CASE SendCodewords
    BY <2>2, SendCodewordsKeeps
  <2>3. CASE GiveUp \/ AfterStatus \/ Return
    BY <2>3, PlaceKeeps
  <2>4. CASE Upload
    BY <2>4, UploadKeeps
  <2>5. CASE RefuseHello
    BY <2>5, RefuseHelloKeeps
  <2>6. CASE OnHello
    BY <2>6, OnHelloKeeps
  <2>7. CASE OnHelloAck
    BY <2>7, OnHelloAckKeeps
  <2>8. CASE OnRibltCodewords
    BY <2>8, OnRibltCodewordsKeeps
  <2>9. CASE OnRibltStatus
    BY <2>9, OnRibltStatusKeeps
  <2>10. ASSUME NEW p \in Peer, EnqueueOpsBatch(p) PROVE SessionInv'
    BY <2>10, EnqueueKeeps
  <2>11. ASSUME NEW p \in Peer, OnError(p) PROVE SessionInv'
    BY <2>11, OnErrorKeeps
  <2>12. ASSUME NEW id \in Id, SendMissing(id) PROVE SessionInv'
    BY <2>12, SendMissingKeeps
  <2>13. ASSUME NEW id \in Id, OnOpsBatchResponder(id) PROVE SessionInv'
    BY <2>13, OnOpsBatchResponderKeeps
  <2>14. ASSUME NEW id \in Id, OnOpsBatchInitiator(id) PROVE SessionInv'
    BY <2>14, OnOpsBatchInitiatorKeeps
  <2> QED BY <1>4, <2>1, <2>2, <2>3, <2>4, <2>5, <2>6, <2>7, <2>8, <2>9, <2>10, <2>11, <2>12,
             <2>13, <2>14 DEF Protocol
<1> QED BY <1>1, <1>2, <1>3, <1>4 DEF Next

\* A call that returned is past its acknowledgement, and in one of three phases.
LEMMA Returned ==
  ASSUME SessionInv, call.at = "ok"
  PROVE  /\ call.received = "resolved" /\ Downloading /\ call.id \in Id
         /\ \/ promised["r"] = {} /\ (Direct \/ Finishing)
            \/ Uploading /\ Stream("r") = {} /\ call.missing = {} /\ ~ToAcknowledge /\ ~Refused
<1>1. call.received = "resolved" /\ call.ack = "resolved" /\ call.id \in Id
  BY DEF SessionInv, GoesOnAccepted
<1>2. Alive
  BY <1>1 DEF Alive
<1>3. Downloading /\ ~Refused /\ ~NotAcknowledged
  BY <1>1, <1>2 DEF SessionInv, Phases, Reconciling, Refused, NotAcknowledged
<1>4. Uploading => Stream("r") = {} /\ call.missing = {} /\ ~ToAcknowledge
  BY <1>3 DEF Uploading
<1>5. (promised["r"] = {} /\ (Direct \/ Finishing)) \/ Uploading
  BY <1>1, <1>2 DEF SessionInv, Phases, Greeting, ToUpload, Reconciling, Decoded
<1> QED BY <1>1, <1>3, <1>4, <1>5

\* The invariant says that the upload of a call that returned is stored.
LEMMA InvIsDurable == SessionInv => UploadIsDurable
<1> SUFFICES ASSUME SessionInv, call.at = "ok" PROVE promised["r"] \subseteq store["r"]
  BY DEF UploadIsDurable
<1>1. promised["r"] = {} \/ (Uploading /\ Stream("r") = {} /\ call.missing = {} /\ ~Refused)
  BY Returned
<1>2. Stream("r") = {} => OnTheWay("r") = {}
  BY DEF OnTheWay
<1> QED BY <1>1, <1>2 DEF Uploading

\* When all is quiet nothing is on its way, or to be sent.
LEMMA QuietIsEmpty ==
  ASSUME SessionInv, Quiet, call.id \in Id
  PROVE  ~Sending.active /\ Sending.refs = {} /\ \A p \in Peer : OnTheWay(p) = {}
<1>1. \A p \in Peer : Batches(p) = {} /\ Queued(p) = {}
  BY DEF Quiet, Batches, Got, Queued, Elems
<1>2. \A p \in Peer : OnTheWay(p) = {}
  BY <1>1 DEF OnTheWay, Stream
<1>3. ~Sending.active /\ Sending.refs = {}
  BY DEF SessionInv, SendsWhatItMay, Quiet, Sending
<1> QED BY <1>2, <1>3

\* The invariant says that a call that returned leaves no session behind.
LEMMA InvLeavesNothing == SessionInv => NothingLeftBehind
<1> SUFFICES ASSUME SessionInv, call.at = "ok", Quiet
             PROVE  ~sessions[call.id].open /\ call.id \notin awaiting
  BY DEF NothingLeftBehind
<1>1. call.id \in Id /\ (Direct \/ Finishing \/ ~ToAcknowledge)
  BY Returned
<1>2. ~Sending.active
  BY <1>1, QuietIsEmpty
<1> QED BY <1>1, <1>2 DEF Direct, Finishing, ToAcknowledge, Session, NoSession

\* The invariant says that both sides are complete, if the initiator refuses nothing.
LEMMA InvIsComplete == SessionInv /\ Invalid["i"] = {} => BothSidesComplete
<1> SUFFICES ASSUME SessionInv, Invalid["i"] = {}, call.at = "ok", Quiet
             PROVE  \A p \in Peer : promised[p] \subseteq store[p]
  BY DEF BothSidesComplete
<1>1. promised["r"] \subseteq store["r"]
  BY InvIsDurable DEF UploadIsDurable
<1>2. Downloading /\ call.id \in Id
  BY Returned
<1>3. Sending.refs = {} /\ OnTheWay("i") = {}
  BY <1>2, QuietIsEmpty DEF Peer
<1> QED BY <1>1, <1>2, <1>3 DEF Downloading, Peer

\* The inductive invariant: every call of syncOnce that may still return is in one of the
\* phases that the handlers of sync.ts take it through.
THEOREM SessionIsInvariant ==
  ASSUME Assumptions, NothingHidden
  PROVE  Spec => []SessionInv
<1>1. Init => SessionInv
  BY InitIsInv
<1>2. SessionInv /\ [Next]_vars => SessionInv'
  BY NextKeeps
<1> QED BY <1>1, <1>2, PTL DEF Spec

\* Types of the states of two sync peers, for every bound and every set of operations.
THEOREM SessionTypes ==
  ASSUME Assumptions, NothingHidden
  PROVE  Spec => []TypeOK
<1>1. SessionInv => TypeOK
  BY DEF SessionInv
<1> QED BY <1>1, SessionIsInvariant, PTL

\* A call of syncOnce that returned has its upload stored by the responder, also when
\* batches are refused, and once its messages are handled the responder keeps neither a
\* session nor an awaited acknowledgement of it (sync.ts onOpsBatch).
THEOREM CallsAreDurable ==
  ASSUME Assumptions, NothingHidden
  PROVE  Spec => [](UploadIsDurable /\ NothingLeftBehind)
<1>1. SessionInv => UploadIsDurable /\ NothingLeftBehind
  BY InvIsDurable, InvLeavesNothing
<1> QED BY <1>1, SessionIsInvariant, PTL

\* Unless the initiator refuses what it is sent, both sides then hold what the call of
\* syncOnce was to exchange.
THEOREM CallsAreComplete ==
  ASSUME Assumptions, NothingHidden, Invalid["i"] = {}
  PROVE  Spec => []BothSidesComplete
<1>1. SessionInv => BothSidesComplete
  BY InvIsComplete
<1> QED BY <1>1, SessionIsInvariant, PTL
=============================================================================
