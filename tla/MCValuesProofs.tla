--------------------------- MODULE MCValuesProofs ---------------------------
(***************************************************************************)
(* Proofs about the values operations are made of: the keys of siblings,   *)
(* the list of siblings, version vectors, and the representations of an    *)
(* operation.                                                              *)
(***************************************************************************)
EXTENDS MCValues, SequenceTheorems, WellFoundedInduction, TLAPS

-----------------------------------------------------------------------------
(* Order keys, for every digit width, boundary and pair of neighbours.     *)

(* A non-empty set of natural numbers has a least element. *)
LEMMA LeastNumber ==
  ASSUME NEW S \in SUBSET Nat, S # {}
  PROVE  \E m \in S : \A n \in S : m <= n
<1>1. PICK m \in S : \A n \in S : ~(<<n, m>> \in OpToRel(<, Nat))
  BY NatLessThanWellFounded, WFMin
<1>2. \A n \in S : ~(n < m)
  BY <1>1 DEF OpToRel
<1>3. m \in Nat /\ \A n \in S : n \in Nat
  BY <1>1
<1>4. \A n \in S : m <= n
  BY <1>2, <1>3
<1> QED BY <1>1, <1>4

(* A neighbour: the empty key when there is none, or a well-formed key.    *)
Neighbour(k) == k = <<>> \/ WellFormed(k)

(* The digits the loop compares. *)
LEMMA Digits ==
  ASSUME NEW k, Neighbour(k), NEW d \in Nat \ {0}
  PROVE  /\ Len(k) \in Nat /\ k \in Key
         /\ LeftDigit(k, d) \in Nat /\ LeftDigit(k, d) < MaxDigit
         /\ RightDigit(k, d) \in Nat /\ RightDigit(k, d) <= MaxDigit
<1>1. k \in Key
  BY EmptySeq DEF Neighbour, WellFormed, Key
<1>2. Len(k) \in Nat /\ \A i \in 1 .. Len(k) : k[i] \in 0 .. MaxDigit
  BY <1>1, LenProperties, ElementOfSeq DEF Key
<1>3. \A i \in 1 .. Len(k) : k[i] < MaxDigit
  BY DEF Neighbour, WellFormed
<1> QED BY <1>1, <1>2, <1>3, DigitAssumption DEF LeftDigit, RightDigit

(* The digit chosen is strictly between those of the neighbours. *)
LEMMA ChosenBetween ==
  ASSUME NEW ld \in Nat, NEW rd \in Nat, rd > ld + 1,
         NEW digit \in DigitChoices(ld, rd)
  PROVE  digit \in Nat /\ ld < digit /\ digit < rd
BY BoundaryAssumption DEF DigitChoices

(* The loop of allocate_between ends. *)
THEOREM AllocationTerminates ==
  ASSUME NEW left, NEW right, Neighbour(left), Neighbour(right)
  PROVE  \E d \in Depths(left, right) : EndsAt(left, right, d)
<1> DEFINE Stops(d) == Crossed(left, right, d) \/ HasRoom(left, right, d)
           S == {d \in Depths(left, right) : Stops(d)}
           last == Len(left) + Len(right) + 1
<1>1. Len(left) \in Nat /\ Len(right) \in Nat
  BY Digits
<1>2. last \in S
  <2>1. LeftDigit(left, last) = 0 /\ RightDigit(right, last) = MaxDigit
    BY <1>1 DEF LeftDigit, RightDigit
  <2> QED BY <1>1, <2>1, DigitAssumption DEF HasRoom, Depths
<1>3. S \subseteq Nat
  BY <1>1 DEF Depths
<1>4. PICK d \in S : \A e \in S : d <= e
  <2> HIDE DEF S
  <2> QED BY <1>2, <1>3, LeastNumber
<1>5. \A i \in 1 .. d - 1 : ~Stops(i)
  BY <1>1, <1>4 DEF Depths
<1> QED BY <1>4, <1>5 DEF EndsAt

(* A loop step without room has equal or adjacent digits. *)
LEMMA NoRoom ==
  ASSUME NEW left, NEW right, Neighbour(left), Neighbour(right),
         NEW i \in Nat \ {0},
         ~Crossed(left, right, i), ~HasRoom(left, right, i)
  PROVE  \/ RightDigit(right, i) = LeftDigit(left, i)
         \/ RightDigit(right, i) = LeftDigit(left, i) + 1
<1>1. LeftDigit(left, i) \in Nat /\ RightDigit(right, i) \in Nat
  BY Digits
<1> QED BY <1>1 DEF Crossed, HasRoom

(* Neither a key nor an extension of it is below a key it starts with; and *)
(* a key followed only by zeros is not well formed.                        *)
LEMMA NotAllEqual ==
  ASSUME NEW left, NEW right, Neighbour(left), WellFormed(right),
         Less(left, right)
  PROVE  \E i \in 1 .. Len(right) : right[i] # LeftDigit(left, i)
<1>1. SUFFICES ASSUME \A i \in 1 .. Len(right) : right[i] = LeftDigit(left, i)
               PROVE  FALSE
  OBVIOUS
<1>2. Len(left) \in Nat /\ Len(right) \in Nat /\ Len(right) > 0
  BY Digits DEF Neighbour, WellFormed
<1>3. PICK e \in 1 .. Len(right) :
        /\ e <= Len(left) + 1
        /\ e = Len(left) + 1 \/ left[e] < right[e]
  BY DEF Less
<1>4. \A i \in 1 .. Len(right) : right[i] \in Nat
  BY <1>1, Digits, <1>2, SMTT(30) DEF Neighbour
<1>5. CASE e <= Len(left)
  <2>1. right[e] = left[e] /\ right[e] \in Nat
    BY <1>1, <1>4, <1>5 DEF LeftDigit
  <2> QED BY <1>2, <1>3, <1>5, <2>1
<1>6. CASE e = Len(left) + 1
  <2>1. Len(right) > Len(left) /\ Len(right) \in 1 .. Len(right)
    BY <1>2, <1>3, <1>6
  <2>2. right[Len(right)] = 0
    BY <1>1, <1>2, <2>1 DEF LeftDigit
  <2> QED BY <2>2 DEF WellFormed
<1> QED BY <1>2, <1>3, <1>5, <1>6

(* allocate_between is correct when it succeeds: the key is well formed    *)
(* and above its left neighbour, and when the neighbours are in order it   *)
(* is below its right one.                                                 *)
THEOREM AllocatedStrictlyBetween ==
  ASSUME NEW left, NEW right, Neighbour(left), Neighbour(right),
         NEW k \in Allocated(left, right)
  PROVE  /\ WellFormed(k)
         /\ Less(left, k)
         /\ Less(left, right) => Less(k, right)
<1>1. Len(left) \in Nat /\ Len(right) \in Nat
  BY Digits
<1>2. PICK d \in Depths(left, right) :
        /\ EndsAt(left, right, d) /\ ~Crossed(left, right, d)
        /\ \E digit \in DigitChoices(LeftDigit(left, d), RightDigit(right, d)) :
             k = Extended(left, d, digit)
  BY DEF Allocated
<1>3. d \in Nat \ {0}
  BY <1>1 DEF Depths
<1> DEFINE ld == LeftDigit(left, d)
           rd == RightDigit(right, d)
<1>4. PICK digit \in DigitChoices(ld, rd) : k = Extended(left, d, digit)
  BY <1>2
<1>5. ld \in Nat /\ rd \in Nat /\ rd <= MaxDigit
  BY <1>3, Digits
<1>6. digit \in Nat /\ ld < digit /\ digit < rd
  <2>1. rd > ld + 1
    BY <1>2 DEF EndsAt, HasRoom
  <2> HIDE DEF ld, rd
  <2> QED BY <1>4, <1>5, <2>1, ChosenBetween
<1>7. \A i \in 1 .. d - 1 :
        /\ LeftDigit(left, i) \in Nat /\ LeftDigit(left, i) < MaxDigit
        /\ \/ RightDigit(right, i) = LeftDigit(left, i)
           \/ RightDigit(right, i) = LeftDigit(left, i) + 1
  <2>1. TAKE i \in 1 .. d - 1
  <2>2. i \in Nat \ {0}
    BY <1>3
  <2>3. ~Crossed(left, right, i) /\ ~HasRoom(left, right, i)
    BY <1>2, <2>1 DEF EndsAt
  <2> QED BY <2>2, <2>3, NoRoom, Digits
<1>8. /\ \A i \in 1 .. d - 1 : k[i] = LeftDigit(left, i)
      /\ k[d] = digit /\ DOMAIN k = 1 .. d
  BY <1>3, <1>4 DEF Extended
<1> HIDE DEF ld, rd
<1>9. k \in Key /\ Len(k) = d
  <2>1. \A i \in 1 .. d : k[i] \in 0 .. MaxDigit
    BY <1>3, <1>5, <1>6, <1>7, <1>8, DigitAssumption
  <2>2. k = [i \in 1 .. d |-> k[i]]
    BY <1>4, <1>8 DEF Extended
  <2>3. k \in [1 .. d -> 0 .. MaxDigit]
    BY <2>1, <2>2
  <2>4. k \in Seq(0 .. MaxDigit)
    <3>1. d \in Nat
      BY <1>3
    <3>2. [i \in 1 .. d |-> k[i]] \in Seq(0 .. MaxDigit)
      BY <2>1, <3>1
    <3> QED BY <2>2, <3>2, Zenon
  <2>5. DOMAIN k = 1 .. Len(k) /\ Len(k) \in Nat
    BY <2>4, LenProperties
  <2>6. Len(k) = d
    BY <1>3, <1>8, <2>5
  <2> QED BY <2>4, <2>6 DEF Key
<1>10. WellFormed(k)
  <2>1. \A i \in 1 .. d : k[i] < MaxDigit
    BY <1>3, <1>5, <1>6, <1>7, <1>8, DigitAssumption
  <2> QED BY <1>3, <1>5, <1>6, <1>8, <1>9, <2>1 DEF WellFormed
<1>11. Less(left, k)
  <2>1. CASE Len(left) < d
    <3>1. Len(left) + 1 \in 1 .. Len(k)
      BY <1>1, <1>3, <1>9, <2>1
    <3>2. \A i \in 1 .. Len(left) : left[i] = k[i]
      BY <1>1, <1>3, <1>8, <2>1 DEF LeftDigit
    <3> QED BY <1>1, <3>1, <3>2 DEF Less
  <2>2. CASE Len(left) >= d
    <3>1. left[d] = ld /\ \A i \in 1 .. d - 1 : left[i] = k[i]
      BY <1>1, <1>3, <1>8, <2>2 DEF LeftDigit, ld
    <3>2. d \in 1 .. Len(k) /\ d <= Len(left) + 1 /\ left[d] < k[d]
      BY <1>1, <1>3, <1>6, <1>8, <1>9, <2>2, <3>1
    <3> QED BY <3>1, <3>2 DEF Less
  <2> QED BY <1>1, <1>3, <2>1, <2>2
<1>12. ASSUME Less(left, right)
       PROVE  Less(k, right)
  <2>1. WellFormed(right) /\ Less(left, right)
    <3>1. right # <<>>
      BY <1>12 DEF Less
    <3> QED BY <1>12, <3>1 DEF Neighbour
  <2> DEFINE D == {i \in 1 .. d - 1 : RightDigit(right, i) # LeftDigit(left, i)}
  \* The neighbours part before depth d, or nowhere before it.
  <2>2. CASE D # {}
    <3>1. PICK i \in D : \A j \in D : i <= j
      <4>1. D \subseteq Nat
        BY <1>3
      <4> HIDE DEF D
      <4> QED BY <2>2, <4>1, LeastNumber
    <3>2. /\ i \in 1 .. d - 1 /\ RightDigit(right, i) = LeftDigit(left, i) + 1
          /\ \A j \in 1 .. i - 1 : RightDigit(right, j) = LeftDigit(left, j)
      BY <1>3, <1>7, <3>1
    <3>3. \A j \in 1 .. i - 1 : j <= Len(right)
      <4>1. TAKE j \in 1 .. i - 1
      <4>2. RightDigit(right, j) < MaxDigit
        BY <1>3, <1>7, <3>2
      <4> QED BY <1>1, <1>3, <3>2, <4>2, DigitAssumption DEF RightDigit
    <3>4. CASE i <= Len(right)
      <4>1. \A j \in 1 .. i - 1 : k[j] = right[j]
        BY <1>3, <1>8, <3>2, <3>3 DEF RightDigit
      <4>2. k[i] < right[i]
        BY <1>3, <1>7, <1>8, <3>2, <3>4 DEF RightDigit
      <4>3. i \in 1 .. Len(right) /\ i <= Len(k) + 1
        BY <1>1, <1>3, <1>9, <3>2, <3>4
      <4> QED BY <4>1, <4>2, <4>3 DEF Less
    <3>5. CASE i > Len(right)
      <4>1. \A j \in 1 .. Len(right) : right[j] = LeftDigit(left, j)
        BY <1>1, <1>3, <3>2, <3>5 DEF RightDigit
      <4> QED BY <2>1, <4>1, NotAllEqual
    <3> QED BY <1>1, <1>3, <3>2, <3>4, <3>5
  <2>3. CASE D = {}
    <3>1. \A j \in 1 .. d - 1 : RightDigit(right, j) = LeftDigit(left, j)
      BY <2>3
    <3>2. CASE d <= Len(right)
      <4>1. \A j \in 1 .. d - 1 : k[j] = right[j]
        BY <1>1, <1>3, <1>8, <3>1, <3>2 DEF RightDigit
      <4>2. k[d] < right[d]
        BY <1>6, <1>8, <3>2 DEF RightDigit, rd
      <4>3. d \in 1 .. Len(right) /\ d <= Len(k) + 1
        BY <1>1, <1>3, <1>9, <3>2
      <4> QED BY <4>1, <4>2, <4>3 DEF Less
    <3>3. CASE d > Len(right)
      <4>1. \A j \in 1 .. Len(right) : right[j] = LeftDigit(left, j)
        BY <1>1, <1>3, <3>1, <3>3 DEF RightDigit
      <4> QED BY <2>1, <4>1, NotAllEqual
    <3> QED BY <1>1, <1>3, <3>2, <3>3
  <2> QED BY <2>2, <2>3
<1> QED BY <1>10, <1>11, <1>12

-----------------------------------------------------------------------------
(* The order of keys, of any digits.                                       *)

LEMMA KeyDigits ==
  ASSUME NEW k, Neighbour(k)
  PROVE  Len(k) \in Nat /\ DOMAIN k = 1 .. Len(k) /\ \A i \in 1 .. Len(k) : k[i] \in Nat
<1>1. k \in Seq(0 .. MaxDigit)
  BY EmptySeq DEF Neighbour, WellFormed, Key
<1>2. 0 .. MaxDigit \subseteq Nat
  BY DigitAssumption
<1> QED BY <1>1, <1>2, LenProperties, ElementOfSeq

LEMMA LessIrreflexive ==
  ASSUME NEW k, Neighbour(k)
  PROVE  ~Less(k, k)
BY KeyDigits DEF Less

LEMMA LessTransitive ==
  ASSUME NEW a, NEW b, NEW c, Neighbour(a), Neighbour(b), Neighbour(c),
         Less(a, b), Less(b, c)
  PROVE  Less(a, c)
<1>1. /\ Len(a) \in Nat /\ \A i \in 1 .. Len(a) : a[i] \in Nat
      /\ Len(b) \in Nat /\ \A i \in 1 .. Len(b) : b[i] \in Nat
      /\ Len(c) \in Nat /\ \A i \in 1 .. Len(c) : c[i] \in Nat
  BY KeyDigits
<1>2. PICK d \in 1 .. Len(b) :
        /\ d <= Len(a) + 1
        /\ \A i \in 1 .. d - 1 : a[i] = b[i]
        /\ d = Len(a) + 1 \/ a[d] < b[d]
  BY DEF Less
<1>3. PICK e \in 1 .. Len(c) :
        /\ e <= Len(b) + 1
        /\ \A i \in 1 .. e - 1 : b[i] = c[i]
        /\ e = Len(b) + 1 \/ b[e] < c[e]
  BY DEF Less
<1>4. CASE d < e
  <2>1. d \in 1 .. Len(c) /\ b[d] = c[d] /\ \A i \in 1 .. d - 1 : a[i] = c[i]
    BY <1>1, <1>2, <1>3, <1>4
  <2> QED BY <1>2, <2>1 DEF Less
<1>5. CASE d = e
  <2>1. d \in 1 .. Len(c) /\ b[d] < c[d] /\ \A i \in 1 .. d - 1 : a[i] = c[i]
    BY <1>1, <1>2, <1>3, <1>5
  <2>2. d = Len(a) + 1 \/ a[d] < c[d]
    <3>1. CASE d <= Len(a)
      <4>1. a[d] \in Nat /\ b[d] \in Nat /\ c[d] \in Nat /\ a[d] < b[d]
        BY <1>1, <1>2, <2>1, <3>1
      <4> QED BY <2>1, <4>1
    <3> QED BY <1>1, <1>2, <3>1
  <2> QED BY <1>2, <2>1, <2>2 DEF Less
<1>6. CASE e < d
  <2>1. e \in 1 .. Len(c) /\ e <= Len(a) + 1 /\ a[e] = b[e] /\ b[e] < c[e]
    BY <1>1, <1>2, <1>3, <1>6
  <2>2. \A i \in 1 .. e - 1 : a[i] = c[i]
    BY <1>1, <1>2, <1>3, <1>6
  <2> QED BY <2>1, <2>2 DEF Less
<1> QED BY <1>1, <1>2, <1>3, <1>4, <1>5, <1>6

LEMMA LessTotal ==
  ASSUME NEW a, NEW b, Neighbour(a), Neighbour(b)
  PROVE  Less(a, b) \/ Less(b, a) \/ a = b
<1>1. /\ a \in Key /\ b \in Key
      /\ Len(a) \in Nat /\ \A i \in 1 .. Len(a) : a[i] \in Nat
      /\ Len(b) \in Nat /\ \A i \in 1 .. Len(b) : b[i] \in Nat
  BY KeyDigits, EmptySeq DEF Neighbour, WellFormed, Key
<1> DEFINE D == {i \in Nat \ {0} : \/ i = Len(a) + 1 \/ i = Len(b) + 1
                                   \/ i <= Len(a) /\ i <= Len(b) /\ a[i] # b[i]}
<1>2. PICK d \in D : \A i \in D : d <= i
  <2>1. D \subseteq Nat /\ Len(a) + 1 \in D
    BY <1>1
  <2> HIDE DEF D
  <2> QED BY <2>1, LeastNumber
<1>3. d <= Len(a) + 1 /\ d <= Len(b) + 1
  <2>1. Len(a) + 1 \in D /\ Len(b) + 1 \in D
    BY <1>1
  <2> QED BY <1>2, <2>1
<1>4. \A i \in 1 .. d - 1 : a[i] = b[i]
  <2>1. TAKE i \in 1 .. d - 1
  <2>2. i \in Nat \ {0} /\ i <= Len(a) /\ i <= Len(b) /\ i < d
    BY <1>1, <1>2, <1>3
  <2>3. i \notin D
    <3>1. i \in D => d <= i
      <4> HIDE DEF D
      <4> QED BY <1>2
    <3>2. d \in Nat
      BY <1>2
    <3> QED BY <2>2, <3>1, <3>2
  <2> QED BY <2>2, <2>3
<1>5. CASE d = Len(a) + 1 /\ d = Len(b) + 1
  <2>1. Len(a) = Len(b) /\ \A i \in 1 .. Len(a) : a[i] = b[i]
    BY <1>1, <1>4, <1>5
  <2> QED BY <1>1, <2>1, SeqEqual DEF Key
<1>6. CASE d = Len(a) + 1 /\ d # Len(b) + 1
  <2>1. d \in 1 .. Len(b)
    BY <1>1, <1>3, <1>6
  <2> QED BY <1>4, <1>6, <2>1 DEF Less
<1>7. CASE d # Len(a) + 1 /\ d = Len(b) + 1
  <2>1. d \in 1 .. Len(a)
    BY <1>1, <1>3, <1>7
  <2> QED BY <1>4, <1>7, <2>1 DEF Less
<1>8. CASE d # Len(a) + 1 /\ d # Len(b) + 1
  <2>1. d \in 1 .. Len(a) /\ d \in 1 .. Len(b) /\ a[d] # b[d]
    BY <1>1, <1>2, <1>3, <1>8
  <2>2. a[d] < b[d] \/ b[d] < a[d]
    BY <1>1, <2>1
  <2> QED BY <1>1, <1>4, <2>1, <2>2 DEF Less
<1> QED BY <1>5, <1>6, <1>7, <1>8

-----------------------------------------------------------------------------
(* Sorted lists of children, for every set of nodes.                       *)

\* Child a comes before child b when the keys are those of `keys`.
Before(keys, a, b) == Less(keys[a], keys[b]) \/ (keys[a] = keys[b] /\ a < b)
Sorted(seq, keys) ==
  \A i, j \in 1 .. Len(seq) : i < j => Before(keys, seq[i], seq[j])

Keys == {keys \in [Node -> Key] : \A n \in Node : Neighbour(keys[n])}

LEMMA BeforeIsOrder ==
  ASSUME NEW keys \in Keys, NEW a \in Node, NEW b \in Node, NEW c \in Node
  PROVE  /\ ~Before(keys, a, a)
         /\ Before(keys, a, b) /\ Before(keys, b, c) => Before(keys, a, c)
         /\ Before(keys, a, b) => ~Before(keys, b, a)
         /\ a # b => Before(keys, a, b) \/ Before(keys, b, a)
<1>1. Neighbour(keys[a]) /\ Neighbour(keys[b]) /\ Neighbour(keys[c])
  BY DEF Keys
<1>2. a \in Nat /\ b \in Nat /\ c \in Nat
  BY NodeAssumption
<1>3. ~Before(keys, a, a)
  BY <1>1, <1>2, LessIrreflexive DEF Before
<1>4. ASSUME Before(keys, a, b), Before(keys, b, c)
      PROVE  Before(keys, a, c)
  <2>1. CASE Less(keys[a], keys[b]) /\ Less(keys[b], keys[c])
    BY <1>1, <2>1, LessTransitive DEF Before
  <2> QED BY <1>2, <1>4, <2>1 DEF Before
<1>5. ASSUME Before(keys, a, b), Before(keys, b, a)
      PROVE  FALSE
  <2>1. CASE Less(keys[a], keys[b]) /\ Less(keys[b], keys[a])
    BY <1>1, <2>1, LessTransitive, LessIrreflexive
  <2>2. CASE keys[a] = keys[b]
    BY <1>1, <1>2, <1>5, <2>2, LessIrreflexive DEF Before
  <2> QED BY <1>5, <2>1, <2>2 DEF Before
<1>6. a # b => Before(keys, a, b) \/ Before(keys, b, a)
  BY <1>1, <1>2, LessTotal DEF Before
<1> QED BY <1>3, <1>4, <1>5, <1>6

\* The first position of a non-empty set.
LEMMA LeastOf ==
  ASSUME NEW S \in SUBSET Nat, S # {}
  PROVE  Min(S) \in S /\ \A i \in S : Min(S) <= i
<1>1. PICK m \in S : \A i \in S : m <= i
  BY LeastNumber
<1> QED BY <1>1, Zenon DEF Min

LEMMA PlaceInList ==
  ASSUME NEW seq \in Seq(Node), NEW c \in Node
  PROVE  /\ c \in ToSet(seq) => Place(seq, c) \in 1 .. Len(seq) /\ seq[Place(seq, c)] = c
         /\ c \notin ToSet(seq) => Place(seq, c) = 0
<1> DEFINE S == {i \in 1 .. Len(seq) : seq[i] = c}
<1>1. S \in SUBSET Nat /\ DOMAIN seq = 1 .. Len(seq)
  BY LenProperties
<1>2. Place(seq, c) = IF S # {} THEN Min(S) ELSE 0
  BY NodeAssumption DEF Place, SelectInSeq
<1>3. c \in ToSet(seq) <=> S # {}
  BY <1>1 DEF ToSet
<1>4. S # {} => Min(S) \in S
  <2> HIDE DEF S
  <2> QED BY <1>1, LeastOf
<1> QED BY <1>2, <1>3, <1>4

\* In a sorted list the places of children are as their order.
LEMMA PlacesAreOrdered ==
  ASSUME NEW keys \in Keys, NEW seq \in Seq(Node), Sorted(seq, keys),
         NEW c \in ToSet(seq), NEW d \in ToSet(seq)
  PROVE  Place(seq, c) < Place(seq, d) <=> Before(keys, c, d)
<1>1. c \in Node /\ d \in Node
  BY LenProperties, ElementOfSeq DEF ToSet
<1>2. /\ Place(seq, c) \in 1 .. Len(seq) /\ seq[Place(seq, c)] = c
      /\ Place(seq, d) \in 1 .. Len(seq) /\ seq[Place(seq, d)] = d
  BY <1>1, PlaceInList
<1>3. Place(seq, c) < Place(seq, d) => Before(keys, c, d)
  BY <1>2 DEF Sorted
<1>4. Place(seq, d) < Place(seq, c) => Before(keys, d, c)
  BY <1>2 DEF Sorted
<1>5. Place(seq, c) \in Nat /\ Place(seq, d) \in Nat
  BY <1>2
<1>6. Before(keys, c, d) => ~Before(keys, d, c) /\ c # d
  BY <1>1, BeforeIsOrder
<1> HIDE DEF Place
<1> QED BY <1>2, <1>3, <1>4, <1>5, <1>6

IsInserted(S, seq, n, p) ==
  /\ InsertAt(seq, p, n) \in Seq(S)
  /\ Len(InsertAt(seq, p, n)) = Len(seq) + 1
  /\ \A i \in 1 .. Len(seq) + 1 :
       InsertAt(seq, p, n)[i] = IF i < p THEN seq[i] ELSE IF i = p THEN n ELSE seq[i - 1]

LEMMA Inserted ==
  ASSUME NEW S, NEW seq \in Seq(S), NEW n \in S, NEW p \in 1 .. Len(seq) + 1
  PROVE  IsInserted(S, seq, n, p)
<1> DEFINE front == SubSeq(seq, 1, p - 1)
           back == SubSeq(seq, p, Len(seq))
<1>1. Len(seq) \in Nat
  BY LenProperties
<1>2. /\ front \in Seq(S) /\ Len(front) = p - 1
      /\ \A i \in 1 .. p - 1 : front[i] = seq[i]
  BY <1>1, SubSeqProperties
<1>3. /\ back \in Seq(S) /\ Len(back) = Len(seq) - p + 1
      /\ \A i \in 1 .. Len(seq) - p + 1 : back[i] = seq[p + i - 1]
  BY <1>1, SubSeqProperties
<1>4. <<n>> \in Seq(S) /\ Len(<<n>>) = 1 /\ <<n>>[1] = n
  OBVIOUS
<1> HIDE DEF front, back
<1>5. /\ front \o <<n>> \in Seq(S) /\ Len(front \o <<n>>) = p
      /\ \A i \in 1 .. p : (front \o <<n>>)[i] = IF i < p THEN seq[i] ELSE n
  BY <1>1, <1>2, <1>4, ConcatProperties
<1>6. InsertAt(seq, p, n) = front \o <<n>> \o back
  BY DEF InsertAt, front, back
<1>7. /\ front \o <<n>> \o back \in Seq(S)
      /\ Len(front \o <<n>> \o back) = Len(seq) + 1
      /\ \A i \in 1 .. Len(seq) + 1 :
           (front \o <<n>> \o back)[i] = IF i <= p THEN (front \o <<n>>)[i] ELSE back[i - p]
  <2> DEFINE first == front \o <<n>>
  <2>1. first \in Seq(S) /\ back \in Seq(S)
    BY <1>3, <1>5
  <2> HIDE DEF first
  <2>2. /\ first \o back \in Seq(S)
        /\ Len(first \o back) = Len(first) + Len(back)
        /\ \A i \in 1 .. Len(first) + Len(back) :
             (first \o back)[i] = IF i <= Len(first) THEN first[i] ELSE back[i - Len(first)]
    BY <2>1, ConcatProperties
  <2>3. Len(first) = p /\ Len(first) + Len(back) = Len(seq) + 1
    <3>1. Len(first) = p
      BY <1>5 DEF first
    <3> QED BY <1>1, <1>3, <3>1
  <2> QED BY <2>2, <2>3 DEF first
<1>8. \A i \in 1 .. Len(seq) + 1 : i > p => back[i - p] = seq[i - 1]
  <2>1. TAKE i \in 1 .. Len(seq) + 1
  <2>2. HAVE i > p
  <2>3. i - p \in 1 .. Len(seq) - p + 1 /\ p + (i - p) - 1 = i - 1
    BY <1>1, <2>2
  <2> QED BY <1>3, <2>3
<1>9. ASSUME NEW i \in 1 .. Len(seq) + 1
      PROVE  InsertAt(seq, p, n)[i] = IF i < p THEN seq[i] ELSE IF i = p THEN n ELSE seq[i - 1]
  <2>1. CASE i > p
    <3>1. InsertAt(seq, p, n)[i] = back[i - p]
      BY <1>6, <1>7, <2>1
    <3>2. back[i - p] = seq[i - 1]
      BY <1>8, <2>1
    <3> QED BY <2>1, <3>1, <3>2
  <2>2. CASE i <= p
    <3>1. i \in 1 .. p /\ i <= p
      BY <1>1, <2>2
    <3>2. InsertAt(seq, p, n)[i] = (front \o <<n>>)[i]
      BY <1>6, <1>7, <3>1
    <3> QED BY <1>1, <1>5, <2>2, <3>1, <3>2
  <2> QED BY <1>1, <2>1, <2>2
<1> QED BY <1>6, <1>7, <1>9 DEF IsInserted

LEMMA Removed ==
  ASSUME NEW S, NEW seq \in Seq(S), NEW p \in 1 .. Len(seq)
  PROVE  /\ RemoveAt(seq, p) \in Seq(S)
         /\ Len(RemoveAt(seq, p)) = Len(seq) - 1
         /\ \A i \in 1 .. Len(seq) - 1 :
              RemoveAt(seq, p)[i] = IF i < p THEN seq[i] ELSE seq[i + 1]
<1> DEFINE front == SubSeq(seq, 1, p - 1)
           back == SubSeq(seq, p + 1, Len(seq))
<1>1. Len(seq) \in Nat
  BY LenProperties
<1>2. /\ front \in Seq(S) /\ Len(front) = p - 1
      /\ \A i \in 1 .. p - 1 : front[i] = seq[i]
  BY <1>1, SubSeqProperties
<1>3. /\ back \in Seq(S) /\ Len(back) = Len(seq) - p
      /\ \A i \in 1 .. Len(seq) - p : back[i] = seq[p + i]
  BY <1>1, SubSeqProperties
<1> HIDE DEF front, back
<1>4. RemoveAt(seq, p) = front \o back
  BY DEF RemoveAt, front, back
<1>5. /\ front \o back \in Seq(S)
      /\ Len(front \o back) = Len(seq) - 1
      /\ \A i \in 1 .. Len(seq) - 1 :
           (front \o back)[i] = IF i < p THEN seq[i] ELSE back[i - p + 1]
  <2>1. /\ front \o back \in Seq(S)
        /\ Len(front \o back) = Len(front) + Len(back)
        /\ \A i \in 1 .. Len(front) + Len(back) :
             (front \o back)[i] = IF i <= Len(front) THEN front[i] ELSE back[i - Len(front)]
    BY <1>2, <1>3, ConcatProperties
  <2>2. Len(front) + Len(back) = Len(seq) - 1
    BY <1>1, <1>2, <1>3
  <2>3. \A i \in 1 .. Len(seq) - 1 :
          (i <= Len(front) <=> i < p) /\ i - Len(front) = i - p + 1
    BY <1>1, <1>2
  <2> QED BY <1>2, <2>1, <2>2, <2>3
<1>6. \A i \in 1 .. Len(seq) - 1 : i >= p => back[i - p + 1] = seq[i + 1]
  <2>1. TAKE i \in 1 .. Len(seq) - 1
  <2>2. HAVE i >= p
  <2>3. i - p + 1 \in 1 .. Len(seq) - p /\ p + (i - p + 1) = i + 1
    BY <1>1, <2>2
  <2> QED BY <1>3, <2>3
<1> QED BY <1>4, <1>5, <1>6

\* detach keeps the other children in order.
LEMMA DetachedKeepsOrder ==
  ASSUME NEW keys \in Keys, NEW seq \in Seq(Node), Sorted(seq, keys), NEW n \in Node
  PROVE  /\ Detached(seq, n) \in Seq(Node)
         /\ Sorted(Detached(seq, n), keys)
         /\ ToSet(Detached(seq, n)) = ToSet(seq) \ {n}
<1>1. Len(seq) \in Nat /\ DOMAIN seq = 1 .. Len(seq) /\ \A i \in 1 .. Len(seq) : seq[i] \in Node
  BY LenProperties, ElementOfSeq
<1>2. CASE n \notin ToSet(seq)
  <2>1. Detached(seq, n) = seq
    BY <1>1, <1>2 DEF Detached, RemoveFirst, ToSet
  <2> QED BY <1>2, <2>1
<1>3. CASE n \in ToSet(seq)
  <2> DEFINE p == Place(seq, n)
             rest == RemoveAt(seq, p)
  <2>1. p \in 1 .. Len(seq) /\ seq[p] = n
    BY <1>3, PlaceInList
  <2>2. Detached(seq, n) = rest
    BY <1>1, <2>1, NodeAssumption DEF Detached, RemoveFirst, Place
  <2> HIDE DEF p, rest
  <2>3. /\ rest \in Seq(Node) /\ Len(rest) = Len(seq) - 1 /\ DOMAIN rest = 1 .. Len(rest)
        /\ \A i \in 1 .. Len(rest) : rest[i] = IF i < p THEN seq[i] ELSE seq[i + 1]
    BY <2>1, Removed, LenProperties DEF rest
  <2>4. Sorted(rest, keys)
    <3> SUFFICES ASSUME NEW i \in 1 .. Len(rest), NEW j \in 1 .. Len(rest), i < j
                 PROVE  Before(keys, rest[i], rest[j])
      BY DEF Sorted
    <3> DEFINE f == IF i < p THEN i ELSE i + 1
               g == IF j < p THEN j ELSE j + 1
    <3>1. f \in 1 .. Len(seq) /\ g \in 1 .. Len(seq) /\ f < g
      BY <1>1, <2>1, <2>3
    <3>2. rest[i] = seq[f] /\ rest[j] = seq[g]
      BY <2>3
    <3> HIDE DEF f, g
    <3> QED BY <3>1, <3>2 DEF Sorted
  <2>5. \A i \in 1 .. Len(seq) : i # p => seq[i] # n
    <3>1. TAKE i \in 1 .. Len(seq)
    <3>2. HAVE i # p
    <3>3. i < p \/ p < i
      BY <1>1, <2>1, <3>2
    <3>4. Before(keys, seq[i], seq[p]) \/ Before(keys, seq[p], seq[i])
      BY <2>1, <3>3 DEF Sorted
    <3> QED BY <1>1, <2>1, <3>4, BeforeIsOrder
  <2>6. ToSet(rest) \subseteq ToSet(seq) \ {n}
    <3> SUFFICES ASSUME NEW i \in 1 .. Len(rest)
                 PROVE  rest[i] \in ToSet(seq) \ {n}
      BY <2>3 DEF ToSet
    <3> DEFINE f == IF i < p THEN i ELSE i + 1
    <3>1. f \in 1 .. Len(seq) /\ f # p
      BY <1>1, <2>1, <2>3
    <3>2. rest[i] = seq[f]
      BY <2>3
    <3> HIDE DEF f
    <3> QED BY <1>1, <2>5, <3>1, <3>2 DEF ToSet
  <2>7. ToSet(seq) \ {n} \subseteq ToSet(rest)
    <3> SUFFICES ASSUME NEW i \in 1 .. Len(seq), seq[i] # n
                 PROVE  \E j \in 1 .. Len(rest) : rest[j] = seq[i]
      BY <1>1, <2>3, SMTT(30) DEF ToSet
    <3> DEFINE f == IF i < p THEN i ELSE i - 1
    <3>1. f \in 1 .. Len(rest) /\ i = IF f < p THEN f ELSE f + 1
      BY <1>1, <2>1, <2>3
    <3>2. rest[f] = seq[i]
      <4> HIDE DEF f
      <4> QED BY <2>3, <3>1
    <3> HIDE DEF f
    <3> QED BY <3>1, <3>2
  <2> QED BY <2>2, <2>3, <2>4, <2>6, <2>7
<1> QED BY <1>2, <1>3

\* attach puts the node at its place among sorted children.
LEMMA AttachedAtItsPlace ==
  ASSUME NEW keys \in Keys, NEW seq \in Seq(Node), Sorted(seq, keys),
         NEW n \in Node, n \notin ToSet(seq), NEW p \in 1 .. Len(seq) + 1,
         \A i \in 1 .. Len(seq) : i < p => Before(keys, seq[i], n),
         p <= Len(seq) => Before(keys, n, seq[p])
  PROVE  /\ InsertAt(seq, p, n) \in Seq(Node)
         /\ Sorted(InsertAt(seq, p, n), keys)
         /\ ToSet(InsertAt(seq, p, n)) = ToSet(seq) \cup {n}
<1> DEFINE new == InsertAt(seq, p, n)
<1>1. Len(seq) \in Nat /\ DOMAIN seq = 1 .. Len(seq) /\ \A i \in 1 .. Len(seq) : seq[i] \in Node
  BY LenProperties, ElementOfSeq
<1>2. /\ new \in Seq(Node) /\ Len(new) = Len(seq) + 1 /\ DOMAIN new = 1 .. Len(new)
      /\ \A i \in 1 .. Len(new) :
           new[i] = IF i < p THEN seq[i] ELSE IF i = p THEN n ELSE seq[i - 1]
  <2>1. IsInserted(Node, seq, n, p)
    BY Inserted
  <2> QED BY <2>1, LenProperties DEF IsInserted
<1> HIDE DEF new
<1>3. \A j \in 1 .. Len(seq) : p <= j => Before(keys, n, seq[j])
  <2>1. TAKE j \in 1 .. Len(seq)
  <2>2. HAVE p <= j
  <2>3. p \in 1 .. Len(seq) /\ Before(keys, n, seq[p])
    BY <1>1, <2>2
  <2>4. p = j \/ Before(keys, seq[p], seq[j])
    BY <1>1, <2>2, <2>3 DEF Sorted
  <2> QED BY <1>1, <2>3, <2>4, BeforeIsOrder
<1>4. Sorted(new, keys)
  <2> SUFFICES ASSUME NEW i \in 1 .. Len(new), NEW j \in 1 .. Len(new), i < j
               PROVE  Before(keys, new[i], new[j])
    BY DEF Sorted
  <2>1. CASE i = p
    <3>1. new[i] = n /\ new[j] = seq[j - 1] /\ j - 1 \in 1 .. Len(seq) /\ p <= j - 1
      BY <1>1, <1>2, <2>1
    <3> QED BY <1>3, <3>1
  <2>2. CASE j = p
    <3>1. new[j] = n /\ new[i] = seq[i] /\ i \in 1 .. Len(seq) /\ i < p
      BY <1>1, <1>2, <2>2
    <3> QED BY <3>1
  <2>3. CASE i # p /\ j # p
    <3> DEFINE f == IF i < p THEN i ELSE i - 1
               g == IF j < p THEN j ELSE j - 1
    <3>1. f \in 1 .. Len(seq) /\ g \in 1 .. Len(seq) /\ f < g
      BY <1>1, <1>2, <2>3
    <3>2. new[i] = seq[f] /\ new[j] = seq[g]
      BY <1>2, <2>3
    <3> HIDE DEF f, g
    <3> QED BY <3>1, <3>2 DEF Sorted
  <2> QED BY <2>1, <2>2, <2>3
<1>5. ToSet(new) \subseteq ToSet(seq) \cup {n}
  <2> SUFFICES ASSUME NEW i \in 1 .. Len(new)
               PROVE  new[i] = n \/ \E j \in 1 .. Len(seq) : new[i] = seq[j]
    BY <1>1, <1>2 DEF ToSet
  <2>1. CASE i < p
    BY <1>1, <1>2, <2>1
  <2>2. CASE i > p
    <3>1. i - 1 \in 1 .. Len(seq) /\ new[i] = seq[i - 1]
      BY <1>1, <1>2, <2>2
    <3> QED BY <3>1
  <2> QED BY <1>1, <1>2, <2>1, <2>2
<1>6. ToSet(seq) \cup {n} \subseteq ToSet(new)
  <2>1. new[p] = n /\ p \in 1 .. Len(new)
    BY <1>1, <1>2
  <2>2. ASSUME NEW i \in 1 .. Len(seq)
        PROVE  \E j \in 1 .. Len(new) : new[j] = seq[i]
    <3>1. CASE i < p
      BY <1>1, <1>2, <3>1
    <3>2. CASE i >= p
      <4>1. i + 1 \in 1 .. Len(new) /\ new[i + 1] = seq[(i + 1) - 1] /\ (i + 1) - 1 = i
        BY <1>1, <1>2, <3>2
      <4> QED BY <4>1
    <3> QED BY <1>1, <3>1, <3>2
  <2> QED BY <1>1, <1>2, <2>1, <2>2, SMTT(30) DEF ToSet
<1> QED BY <1>2, <1>4, <1>5, <1>6 DEF new

-----------------------------------------------------------------------------
(* The children of a parent.                                               *)

\* The inductive invariant: what ChildrenAreSorted and KeysAreWellFormed need is that
\* a node that is no child has the empty key, so that every key is a neighbour.
SiblingsInv ==
  /\ children \in Seq(Node) /\ hidden \subseteq Node
  /\ order_key \in Keys
  /\ \A c \in ToSet(children) : WellFormed(order_key[c])
  /\ Sorted(children, order_key)

\* A detached node is attached with a well-formed key.
LEMMA AttachKeepsSiblings ==
  ASSUME SiblingsInv, NEW n \in Node, NEW k, WellFormed(k), Attach(n, k)
  PROVE  /\ SiblingsInv'
         /\ ToSet(children') = ToSet(children) \cup {n}
         /\ order_key' = [order_key EXCEPT ![n] = k]
<1> DEFINE rest == Detached(children, n)
           keys == [order_key EXCEPT ![n] = k]
           p == Position(rest, n, k)
           S == {i \in 1 .. Len(rest) + 1 : i = Len(rest) + 1 \/ SortsAfter(rest[i], n, k)}
<1>1. /\ rest \in Seq(Node) /\ Sorted(rest, order_key)
      /\ ToSet(rest) = ToSet(children) \ {n}
  BY DetachedKeepsOrder DEF SiblingsInv
<1> HIDE DEF rest
<1>2. /\ Len(rest) \in Nat /\ DOMAIN rest = 1 .. Len(rest)
      /\ \A i \in 1 .. Len(rest) : rest[i] \in Node \ {n}
  BY <1>1, LenProperties, ElementOfSeq DEF ToSet
<1>3. /\ keys \in Keys /\ keys[n] = k
      /\ \A c \in Node \ {n} : keys[c] = order_key[c]
  <2>1. order_key \in [Node -> Key] /\ \A c \in Node : Neighbour(order_key[c])
    BY DEF SiblingsInv, Keys
  <2>2. k \in Key /\ Neighbour(k)
    BY DEF Neighbour, WellFormed
  <2> QED BY <2>1, <2>2 DEF Keys
<1> HIDE DEF keys
<1>4. \A c, d \in Node \ {n} : Before(keys, c, d) <=> Before(order_key, c, d)
  BY <1>3 DEF Before
<1>5. Sorted(rest, keys)
  BY <1>1, <1>2, <1>4 DEF Sorted
<1>6. \A i \in 1 .. Len(rest) : SortsAfter(rest[i], n, k) <=> Before(keys, n, rest[i])
  <2>1. \A c \in Node \ {n} : SortsAfter(c, n, k) <=> Before(keys, n, c)
    BY <1>3, NodeAssumption DEF SortsAfter, Before
  <2> QED BY <1>2, <2>1
<1>7. p \in S /\ \A i \in S : p <= i
  <2>1. S \in SUBSET Nat /\ Len(rest) + 1 \in S
    BY <1>2
  <2>2. p = Min(S)
    BY DEF Position
  <2> HIDE DEF S, p
  <2> QED BY <2>1, <2>2, LeastOf
<1>8. p \in 1 .. Len(rest) + 1 /\ (p <= Len(rest) => Before(keys, n, rest[p]))
  <2> HIDE DEF p
  <2> QED BY <1>2, <1>6, <1>7
<1>9. \A i \in 1 .. Len(rest) : i < p => Before(keys, rest[i], n)
  <2>1. TAKE i \in 1 .. Len(rest)
  <2>2. HAVE i < p
  <2>3. i \notin S
    <3> HIDE DEF S, p
    <3> QED BY <1>2, <1>7, <1>8, <2>2
  <2>4. ~SortsAfter(rest[i], n, k)
    <3> HIDE DEF p
    <3> QED BY <1>2, <2>3
  <2> HIDE DEF p, S
  <2> QED BY <1>2, <1>3, <1>6, <2>4, BeforeIsOrder
<1> HIDE DEF p, S
<1>10. children' = InsertAt(rest, p, n) /\ order_key' = keys /\ hidden' = hidden \ {n}
  BY DEF Attach, rest, keys, p
<1>11. n \notin ToSet(rest)
  BY <1>1
<1>12. /\ children' \in Seq(Node)
       /\ Sorted(children', keys)
       /\ ToSet(children') = ToSet(rest) \cup {n}
  BY <1>1, <1>3, <1>5, <1>8, <1>9, <1>10, <1>11, AttachedAtItsPlace
<1>13. \A c \in ToSet(children') : WellFormed(keys[c])
  <2>1. \A c \in ToSet(rest) : WellFormed(order_key[c]) /\ c \in Node \ {n}
    BY <1>1, <1>2 DEF SiblingsInv, ToSet
  <2> QED BY <1>3, <1>12, <2>1
<1>14. SiblingsInv'
  BY <1>3, <1>10, <1>12, <1>13 DEF SiblingsInv
<1> QED BY <1>1, <1>10, <1>12, <1>14 DEF keys

\* The first visible child after a place, or none.
LEMMA RightNeighbour ==
  ASSUME SiblingsInv, NEW n \in Node, NEW after \in VisibleSiblings(n) \cup {None}
  PROVE  \/ /\ RightKey(n, after) = <<>>
            /\ \A c \in VisibleSiblings(n) : Place(children, c) <= Place(children, after)
         \/ \E r \in VisibleSiblings(n) :
              /\ RightKey(n, after) = order_key[r] /\ WellFormed(order_key[r])
              /\ Place(children, after) < Place(children, r)
              /\ \A c \in VisibleSiblings(n) :
                   \/ Place(children, c) <= Place(children, after)
                   \/ c = r \/ Before(order_key, r, c)
<1> DEFINE idx == Place(children, after)
           S == {i \in idx + 1 .. Len(children) : children[i] \in VisibleSiblings(n)}
<1>1. Len(children) \in Nat /\ DOMAIN children = 1 .. Len(children)
      /\ \A i \in 1 .. Len(children) : children[i] \in Node
  BY LenProperties, ElementOfSeq DEF SiblingsInv
<1>2. \A c \in VisibleSiblings(n) :
        /\ c \in ToSet(children) /\ c \in Node
        /\ Place(children, c) \in 1 .. Len(children) /\ children[Place(children, c)] = c
  BY <1>1, PlaceInList DEF SiblingsInv, VisibleSiblings, ToSet
<1>3. idx \in Nat
  <2>1. CASE after = None
    BY <2>1 DEF Place
  <2>2. CASE after # None
    BY <1>2, <2>2
  <2> QED BY <2>1, <2>2
<1>4. RightKey(n, after) = IF S = {} THEN <<>> ELSE order_key[children[Min(S)]]
  BY DEF RightKey
<1> HIDE DEF idx
<1>5. \A c \in VisibleSiblings(n) : Place(children, c) <= idx \/ Place(children, c) \in S
  BY <1>1, <1>2, <1>3
<1>6. CASE S = {}
  BY <1>4, <1>5, <1>6 DEF idx
<1>7. CASE S # {}
  <2> DEFINE m == Min(S)
             r == children[m]
  <2>1. m \in S /\ \A i \in S : m <= i
    <3>1. S \in SUBSET Nat
      BY <1>1, <1>3
    <3> HIDE DEF S
    <3> QED BY <1>7, <3>1, LeastOf
  <2>2. m \in 1 .. Len(children) /\ idx < m /\ r \in VisibleSiblings(n)
    <3> HIDE DEF m
    <3> QED BY <1>1, <1>3, <2>1
  <2>3. WellFormed(order_key[r]) /\ r \in Node
    BY <1>2, <2>2 DEF SiblingsInv
  <2> HIDE DEF m
  <2>4. \A c \in VisibleSiblings(n) :
          Place(children, c) <= idx \/ c = r \/ Before(order_key, r, c)
    <3>1. TAKE c \in VisibleSiblings(n)
    <3>2. SUFFICES ASSUME Place(children, c) \in S
                   PROVE  c = r \/ Before(order_key, r, c)
      BY <1>5
    <3>3. m <= Place(children, c)
      BY <2>1, <3>2
    <3>4. m = Place(children, c) \/ m < Place(children, c)
      BY <1>2, <2>2, <3>3
    <3> QED BY <1>2, <2>2, <3>4 DEF Sorted, SiblingsInv
  <2>5. idx < Place(children, r)
    <3>1. Place(children, r) \in 1 .. Len(children) /\ children[Place(children, r)] = r
      BY <1>2, <2>2
    <3>2. ~(Place(children, r) < m)
      <4>1. Place(children, r) < m => Before(order_key, r, r)
        BY <2>2, <3>1 DEF Sorted, SiblingsInv
      <4> QED BY <2>3, <4>1, BeforeIsOrder DEF SiblingsInv
    <3> QED BY <1>3, <2>2, <3>1, <3>2
  <2>6. RightKey(n, after) = order_key[r]
    BY <1>4, <1>7 DEF m
  <2> QED BY <2>2, <2>3, <2>4, <2>5, <2>6 DEF idx
<1> QED BY <1>6, <1>7

LEMMA PlaceAfterAttaches ==
  ASSUME SiblingsInv, NEW n \in Node, NEW after, PlaceAfter(n, after)
  PROVE  \E k \in Allocated(LeftKey(after), RightKey(n, after)) :
            /\ Neighbour(LeftKey(after)) /\ Neighbour(RightKey(n, after))
            /\ WellFormed(k) /\ Attach(n, k)
<1>1. after \in VisibleSiblings(n) \cup {None}
  BY DEF PlaceAfter
<1>2. Neighbour(RightKey(n, after))
  BY <1>1, RightNeighbour DEF Neighbour
<1>3. Neighbour(LeftKey(after))
  <2>1. CASE after = None
    BY <2>1 DEF LeftKey, Neighbour
  <2>2. CASE after # None
    BY <1>1, <2>2 DEF VisibleSiblings, SiblingsInv, LeftKey, Neighbour
  <2> QED BY <2>1, <2>2
<1>4. PICK k \in Allocated(LeftKey(after), RightKey(n, after)) : Attach(n, k)
  BY DEF PlaceAfter
<1> QED BY <1>2, <1>3, <1>4, AllocatedStrictlyBetween

\* Every step of the list keeps the invariant.
LEMMA SiblingsNext ==
  ASSUME SiblingsInv, [Next]_vars
  PROVE  SiblingsInv'
<1>1. ASSUME NEW n \in Node, NEW after \in Node \cup {None}, PlaceAfter(n, after)
      PROVE  SiblingsInv'
  BY <1>1, PlaceAfterAttaches, AttachKeepsSiblings
<1>2. ASSUME NEW n \in Node, PlaceRemote(n)
      PROVE  SiblingsInv'
  <2>1. \A c \in ToSet(children) : Neighbour(order_key[c])
    BY DEF SiblingsInv, Neighbour
  <2>2. PICK left, right \in {order_key[c] : c \in ToSet(children) \ {n}} \cup {<<>>} :
          \E k \in Allocated(left, right) : Attach(n, k)
    BY <1>2 DEF PlaceRemote
  <2>3. Neighbour(left) /\ Neighbour(right)
    BY <2>1 DEF Neighbour
  <2> QED BY <2>2, <2>3, AllocatedStrictlyBetween, AttachKeepsSiblings
<1>3. ASSUME NEW n \in Node, MoveAway(n)
      PROVE  SiblingsInv'
  <2> DEFINE keys == [order_key EXCEPT ![n] = <<>>]
  <2>1. /\ children' \in Seq(Node) /\ Sorted(children', order_key)
        /\ ToSet(children') = ToSet(children) \ {n}
    BY <1>3, DetachedKeepsOrder DEF SiblingsInv, MoveAway
  <2>2. keys \in Keys /\ \A c \in Node \ {n} : keys[c] = order_key[c]
    <3>1. order_key \in [Node -> Key] /\ \A c \in Node : Neighbour(order_key[c])
      BY DEF SiblingsInv, Keys
    <3>2. <<>> \in Key /\ Neighbour(<<>>)
      BY EmptySeq DEF Neighbour, Key
    <3> QED BY <3>1, <3>2 DEF Keys
  <2> HIDE DEF keys
  <2>3. \A i \in 1 .. Len(children') : children'[i] \in Node \ {n}
    BY <2>1, LenProperties, ElementOfSeq DEF ToSet
  <2>4. Sorted(children', keys)
    <3>1. \A c, d \in Node \ {n} : Before(keys, c, d) <=> Before(order_key, c, d)
      BY <2>2 DEF Before
    <3> QED BY <2>1, <2>3, <3>1 DEF Sorted
  <2>5. \A c \in ToSet(children') : WellFormed(keys[c])
    <3>1. \A c \in ToSet(children) : c \in Node
      BY LenProperties, ElementOfSeq DEF SiblingsInv, ToSet
    <3> QED BY <2>1, <2>2, <3>1 DEF SiblingsInv
  <2>6. order_key' = keys /\ hidden' \subseteq Node
    BY <1>3 DEF MoveAway, SiblingsInv, keys
  <2> QED BY <2>1, <2>2, <2>4, <2>5, <2>6 DEF SiblingsInv
<1>4. ASSUME NEW n \in Node, Hide(n) \/ Show(n)
      PROVE  SiblingsInv'
  BY <1>4 DEF Hide, Show, SiblingsInv
<1>5. CASE UNCHANGED vars
  BY <1>5 DEF vars, SiblingsInv
<1> QED BY <1>1, <1>2, <1>3, <1>4, <1>5 DEF Next

LEMMA SiblingsInit ==
  ASSUME Init
  PROVE  SiblingsInv
<1>1. <<>> \in Key /\ Neighbour(<<>>) /\ <<>> \in Seq(Node)
  BY EmptySeq DEF Neighbour, Key
<1>2. order_key \in Keys
  BY <1>1 DEF Init, Keys
<1>3. ToSet(children) = {} /\ Sorted(children, order_key)
  BY DEF Init, ToSet, Sorted
<1> QED BY <1>1, <1>2, <1>3 DEF Init, SiblingsInv

LEMMA SiblingsOfValues == ValuesSpec => []SiblingsInv
<1>1. ValuesInit => SiblingsInv
  BY SiblingsInit DEF ValuesInit
<1>2. SiblingsInv /\ [ValuesNext]_<<part, vars, entries, codecs>> => SiblingsInv'
  BY SiblingsNext DEF ValuesNext, vars
<1> QED BY <1>1, <1>2, PTL DEF ValuesSpec

(* The children of a parent are sorted by key and id and their keys are    *)
(* well formed (MemoryNodeStore::attach), for every set of nodes, digit    *)
(* width, boundary and length of keys, under any local and remote          *)
(* placements.                                                             *)
THEOREM ChildrenStaySorted == ValuesSpec => []SiblingsAreSorted
<1>1. SiblingsInv => SiblingsAreSorted
  <2>1. SiblingsInv => KeysAreWellFormed
    BY LenProperties DEF SiblingsInv, KeysAreWellFormed, ToSet
  <2>2. SiblingsInv => ChildrenAreSorted
    BY DEF SiblingsInv, ChildrenAreSorted, Sorted, Before
  <2> QED BY <2>1, <2>2 DEF SiblingsAreSorted
<1> QED BY <1>1, SiblingsOfValues, PTL

\* What local_insert_after and local_move_after do to the visible children.
LEMMA PlacedDirectlyAfter ==
  ASSUME SiblingsInv, NEW n \in Node, NEW after \in Node \cup {None}, PlaceAfter(n, after)
  PROVE  GoesDirectlyAfter(n, after)
<1> DEFINE left == LeftKey(after)
           right == RightKey(n, after)
<1>1. PICK k \in Allocated(left, right) :
        Neighbour(left) /\ Neighbour(right) /\ WellFormed(k) /\ Attach(n, k)
  BY PlaceAfterAttaches
<1>2. /\ SiblingsInv'
      /\ ToSet(children') = ToSet(children) \cup {n}
      /\ order_key' = [order_key EXCEPT ![n] = k]
  BY <1>1, AttachKeepsSiblings
<1>3. hidden' = hidden \ {n}
  BY <1>1 DEF Attach
<1>4. after \in VisibleSiblings(n) \cup {None}
  BY DEF PlaceAfter
<1>5. /\ children \in Seq(Node) /\ order_key \in Keys /\ Sorted(children, order_key)
      /\ children' \in Seq(Node) /\ order_key' \in Keys /\ Sorted(children', order_key')
  BY <1>2 DEF SiblingsInv
<1>6. \A c \in ToSet(children') : c \in Node
  BY <1>5, LenProperties, ElementOfSeq DEF ToSet
<1>7. /\ order_key'[n] = k
      /\ \A c \in Node \ {n} : order_key'[c] = order_key[c] /\ Neighbour(order_key[c])
  BY <1>2, <1>5 DEF Keys
<1>8. VisibleSiblings(n) \subseteq ToSet(children) /\ VisibleSiblings(n) \subseteq ToSet(children')
      /\ \A c \in VisibleSiblings(n) : c \in Node \ {n}
  BY <1>2, <1>6 DEF VisibleSiblings
<1>9. \A c, d \in ToSet(children') :
        /\ Place(children', c) < Place(children', d) <=> Before(order_key', c, d)
        /\ Place(children', c) \in Nat \ {0}
  <2>1. TAKE c, d \in ToSet(children')
  <2>2. Place(children', c) < Place(children', d) <=> Before(order_key', c, d)
    BY <1>5, PlacesAreOrdered
  <2>3. Place(children', c) \in 1 .. Len(children') /\ Len(children') \in Nat
    BY <1>5, <1>6, PlaceInList, LenProperties
  <2> QED BY <2>2, <2>3
<1>10. \A c, d \in VisibleSiblings(n) :
         /\ Place(children, c) < Place(children, d) <=> Before(order_key, c, d)
         /\ Before(order_key', c, d) <=> Before(order_key, c, d)
  <2>1. TAKE c, d \in VisibleSiblings(n)
  <2>2. Place(children, c) < Place(children, d) <=> Before(order_key, c, d)
    BY <1>5, <1>8, PlacesAreOrdered
  <2> QED BY <1>7, <1>8, <2>2 DEF Before
<1>11. n \in ToSet(children') \ hidden'
       /\ ToSet(children') \ ({n} \cup hidden') = VisibleSiblings(n)
  BY <1>2, <1>3 DEF VisibleSiblings
<1>12. \A c, d \in VisibleSiblings(n) :
         Place(children, c) < Place(children, d) => Place(children', c) < Place(children', d)
  BY <1>8, <1>9, <1>10
<1>13. Place(children', after) < Place(children', n)
  <2>1. CASE after = None
    <3>1. Place(children', after) = 0 /\ Place(children', n) \in Nat \ {0}
      BY <1>9, <1>11, <2>1 DEF Place
    <3> QED BY <3>1
  <2>2. CASE after # None
    <3>1. after \in VisibleSiblings(n) /\ left = order_key[after]
      BY <1>4, <2>2 DEF LeftKey
    <3>2. Less(left, k)
      BY <1>1, AllocatedStrictlyBetween
    <3>3. Before(order_key', after, n)
      BY <1>7, <1>8, <3>1, <3>2 DEF Before
    <3> QED BY <1>8, <1>9, <1>11, <3>1, <3>3
  <2> QED BY <2>1, <2>2
<1>14. ASSUME left # right \/ VisibleSiblings(n) = {}, NEW c \in VisibleSiblings(n)
       PROVE  Place(children', c) <= Place(children', after) \/ Place(children', n) < Place(children', c)
  <2>1. left # right
    BY <1>14
  <2>2. Place(children, c) \in Nat \ {0}
    BY <1>5, <1>8, PlaceInList, LenProperties
  <2>3. ASSUME Place(children, c) <= Place(children, after)
        PROVE  Place(children', c) <= Place(children', after)
    <3>1. after # None
      BY <2>2, <2>3 DEF Place
    <3>2. after \in VisibleSiblings(n)
      BY <1>4, <3>1
    <3>3. ~Before(order_key', after, c)
      <4>1. Place(children, after) \in Nat
        BY <1>5, <1>8, <3>2, PlaceInList, LenProperties
      <4>2. ~(Place(children, after) < Place(children, c))
        BY <2>2, <2>3, <4>1
      <4> QED BY <1>10, <3>2, <4>2
    <3>4. ~(Place(children', after) < Place(children', c))
      BY <1>8, <1>9, <3>2, <3>3
    <3>5. Place(children', after) \in Nat /\ Place(children', c) \in Nat
      BY <1>8, <1>9, <3>2
    <3> QED BY <3>4, <3>5
  <2>4. CASE ~(Place(children, c) <= Place(children, after))
    <3>1. PICK r \in VisibleSiblings(n) :
            /\ right = order_key[r] /\ WellFormed(order_key[r])
            /\ Place(children, after) < Place(children, r)
            /\ c = r \/ Before(order_key, r, c)
      BY <1>4, <2>4, RightNeighbour
    <3>2. Less(left, right)
      <4>1. CASE after = None
        <5>1. Len(right) \in Nat /\ Len(right) > 0 /\ left = <<>>
          BY <3>1, <4>1, KeyDigits DEF WellFormed, Neighbour, LeftKey
        <5>2. 1 \in 1 .. Len(right) /\ Len(left) = 0 /\ \A i \in 1 .. 0 : FALSE
          BY <5>1
        <5> QED BY <5>2 DEF Less
      <4>2. CASE after # None
        <5>1. after \in VisibleSiblings(n) /\ left = order_key[after]
          BY <1>4, <4>2 DEF LeftKey
        <5>2. Before(order_key, after, r)
          BY <1>10, <3>1, <5>1
        <5> QED BY <2>1, <3>1, <5>1, <5>2 DEF Before
      <4> QED BY <4>1, <4>2
    <3>3. Less(k, order_key[r])
      BY <1>1, <3>1, <3>2, AllocatedStrictlyBetween
    <3>4. Less(k, order_key[c])
      <4>1. Neighbour(k) /\ Neighbour(order_key[r]) /\ Neighbour(order_key[c])
        BY <1>1, <1>7, <1>8 DEF Neighbour
      <4>2. order_key[r] = order_key[c] \/ Less(order_key[r], order_key[c])
        BY <3>1 DEF Before
      <4> QED BY <3>3, <4>1, <4>2, LessTransitive
    <3>5. Before(order_key', n, c)
      BY <1>7, <1>8, <3>4 DEF Before
    <3> QED BY <1>8, <1>9, <1>11, <3>5
  <2> QED BY <2>3, <2>4
<1> QED BY <1>11, <1>12, <1>13, <1>14 DEF GoesDirectlyAfter

(* A local placement after a sibling puts the node directly after it       *)
(* (allocate_child_key_after and attach), whatever the other replicas      *)
(* placed, unless that sibling and the next have equal keys.               *)
THEOREM LocalPlacementIsDirect == ValuesSpec => PlacementIsDirectlyAfter
<1>1. SiblingsInv =>
        [\A n \in Node : \A after \in Node \cup {None} :
           PlaceAfter(n, after) => GoesDirectlyAfter(n, after)]_vars
  BY PlacedDirectlyAfter
<1> QED BY <1>1, SiblingsOfValues, PTL DEF PlacementIsDirectlyAfter

-----------------------------------------------------------------------------
(* Version vectors: frontier and ranges are a set of counters, for every   *)
(* set of vectors and replicas and every bound of counters.                *)

(* Steps of a fold over a list. *)
\* What holds at the start and is kept by each of n steps holds at the end.
LEMMA AfterSteps ==
  ASSUME NEW n \in Nat, NEW S, 0 \in S, \A i \in 1 .. n : i - 1 \in S => i \in S
  PROVE  \A i \in 0 .. n : i \in S
<1> DEFINE T == {i \in 0 .. n : i \notin S}
<1> SUFFICES ASSUME T # {} PROVE FALSE
  OBVIOUS
<1>1. PICK m \in T : \A i \in T : m <= i
  <2>1. T \in SUBSET Nat
    OBVIOUS
  <2> HIDE DEF T
  <2> QED BY <2>1, LeastNumber
<1>2. m \in 1 .. n /\ m - 1 \in 0 .. n /\ m - 1 \notin T
  BY <1>1
<1> QED BY <1>1, <1>2

\* A function of n steps, which exists.
Takes(f, n, base, step) ==
  f[0] = base /\ \A i \in 1 .. n : f[i] = step[<<i, f[i - 1]>>]

LEMMA StepsExist ==
  ASSUME NEW n \in Nat, NEW S, NEW base \in S, NEW step \in [(1 .. n) \X S -> S]
  PROVE  \E f \in [0 .. n -> S] : Takes(f, n, base, step)
<1> DEFINE Done == {k \in 0 .. n : \E f \in [0 .. k -> S] : Takes(f, k, base, step)}
<1>1. 0 \in Done
  <2> DEFINE g == [i \in 0 .. 0 |-> base]
  <2>1. g \in [0 .. 0 -> S] /\ Takes(g, 0, base, step)
    BY DEF Takes
  <2> HIDE DEF g
  <2>2. \E f \in [0 .. 0 -> S] : Takes(f, 0, base, step)
    BY <2>1
  <2> QED BY <2>2
<1>2. \A k \in 1 .. n : k - 1 \in Done => k \in Done
  <2> SUFFICES ASSUME NEW k \in 1 .. n, k - 1 \in Done PROVE k \in Done
    OBVIOUS
  <2>1. PICK f \in [0 .. k - 1 -> S] : Takes(f, k - 1, base, step)
    OBVIOUS
  <2> DEFINE g == [i \in 0 .. k |-> IF i = k THEN step[<<k, f[k - 1]>>] ELSE f[i]]
  <2>2. \A i \in 0 .. k : g[i] = IF i = k THEN step[<<k, f[k - 1]>>] ELSE f[i]
    OBVIOUS
  <2>3. g \in [0 .. k -> S]
    <3>1. f[k - 1] \in S
      OBVIOUS
    <3>2. step[<<k, f[k - 1]>>] \in S
      BY <3>1
    <3> QED BY <3>2
  <2> HIDE DEF g
  <2>4. Takes(g, k, base, step)
    <3>1. g[0] = base
      BY <2>1, <2>2 DEF Takes
    <3>2. ASSUME NEW i \in 1 .. k PROVE g[i] = step[<<i, g[i - 1]>>]
      <4>1. i \in 0 .. k /\ i - 1 \in 0 .. k /\ i - 1 # k /\ g[i - 1] = f[i - 1]
        BY <2>2
      <4>2. CASE i = k
        BY <2>2, <4>1, <4>2, SMTT(30)
      <4>3. CASE i # k
        BY <2>1, <2>2, <4>1, <4>3 DEF Takes
      <4> QED BY <4>2, <4>3
    <3> QED BY <3>1, <3>2 DEF Takes
  <2> QED BY <2>3, <2>4
<1>3. n \in Done
  <2>1. \A i \in 0 .. n : i \in Done
    <3> HIDE DEF Done
    <3> QED BY <1>1, <1>2, AfterSteps
  <2> QED BY <2>1
<1> QED BY <1>3

Ranges == Seq(Nat \X Nat)

\* The counters in the first k ranges, and in all.
CoveredBy(s, k) == {c \in Nat : \E i \in 1 .. k : s[i][1] <= c /\ c <= s[i][2]}
Covered(s) == CoveredBy(s, Len(s))

LEMMA RangeList ==
  ASSUME NEW s \in Ranges
  PROVE  /\ Len(s) \in Nat
         /\ s # <<>> <=> Len(s) > 0
         /\ \A i \in 1 .. Len(s) :
              /\ s[i] \in Nat \X Nat /\ s[i] = <<s[i][1], s[i][2]>>
              /\ s[i][1] \in Nat /\ s[i][2] \in Nat
<1>1. Len(s) \in Nat
  BY LenProperties DEF Ranges
<1>2. s # <<>> <=> Len(s) > 0
  BY <1>1, EmptySeq DEF Ranges
<1>3. ASSUME NEW i \in 1 .. Len(s) PROVE s[i] \in Nat \X Nat
  BY ElementOfSeq DEF Ranges
<1> QED BY <1>1, <1>2, <1>3

\* A range put into a list, taken from it and replaced in it.
Pair == Nat \X Nat

LEMMA RangeInserted ==
  ASSUME NEW s \in Ranges, NEW p \in 1 .. Len(s) + 1, NEW range \in Pair
  PROVE  LET t == Vectors!InsertAt(s, p, range)
         IN /\ t \in Ranges /\ Len(t) = Len(s) + 1
            /\ \A i \in 1 .. Len(s) + 1 :
                 t[i] = IF i < p THEN s[i] ELSE IF i = p THEN range ELSE s[i - 1]
<1>1. Vectors!InsertAt(s, p, range) = InsertAt(s, p, range)
  BY DEF Vectors!InsertAt, InsertAt
<1>2. s \in Seq(Pair)
  BY DEF Ranges, Pair
<1>3. IsInserted(Pair, s, range, p)
  BY <1>2, Inserted
<1> QED BY <1>1, <1>2, <1>3 DEF IsInserted, Ranges, Pair

LEMMA RangeRemoved ==
  ASSUME NEW s \in Ranges, NEW p \in 1 .. Len(s)
  PROVE  LET t == Vectors!RemoveAt(s, p)
         IN /\ t \in Ranges /\ Len(t) = Len(s) - 1
            /\ \A i \in 1 .. Len(s) - 1 : t[i] = IF i < p THEN s[i] ELSE s[i + 1]
<1>1. Vectors!RemoveAt(s, p) = RemoveAt(s, p)
  BY DEF Vectors!RemoveAt, RemoveAt
<1>2. s \in Seq(Nat \X Nat)
  BY DEF Ranges
<1>3. /\ RemoveAt(s, p) \in Seq(Nat \X Nat)
      /\ Len(RemoveAt(s, p)) = Len(s) - 1
      /\ \A i \in 1 .. Len(s) - 1 : RemoveAt(s, p)[i] = IF i < p THEN s[i] ELSE s[i + 1]
  BY <1>2, Removed
<1> QED BY <1>1, <1>3 DEF Ranges

LEMMA RangeReplaced ==
  ASSUME NEW s \in Ranges, NEW p \in 1 .. Len(s), NEW range \in Nat \X Nat
  PROVE  /\ [s EXCEPT ![p] = range] \in Ranges
         /\ Len([s EXCEPT ![p] = range]) = Len(s)
         /\ \A i \in 1 .. Len(s) :
              [s EXCEPT ![p] = range][i] = IF i = p THEN range ELSE s[i]
BY ExceptSeq DEF Ranges

LEMMA RangeAppended ==
  ASSUME NEW s \in Ranges, NEW range \in Nat \X Nat
  PROVE  /\ Append(s, range) \in Ranges
         /\ Len(Append(s, range)) = Len(s) + 1
         /\ \A i \in 1 .. Len(s) + 1 :
              Append(s, range)[i] = IF i = Len(s) + 1 THEN range ELSE s[i]
BY AppendProperties DEF Ranges

LEMMA MaxOfTwo ==
  ASSUME NEW m \in Nat, NEW n \in Nat
  PROVE  Vectors!Max({m, n}) = IF m <= n THEN n ELSE m
BY DEF Vectors!Max

LEMMA VectorsLeast ==
  ASSUME NEW S \in SUBSET Nat, S # {}
  PROVE  Vectors!Min(S) \in S /\ \A i \in S : Vectors!Min(S) <= i
<1>1. PICK m \in S : \A i \in S : m <= i
  BY LeastNumber
<1> QED BY <1>1, Zenon DEF Vectors!Min

ByStart(s) == \A i, j \in 1 .. Len(s) : i < j => s[i][1] <= s[j][1]

LEMMA InsertedByStart ==
  ASSUME NEW s \in Ranges, ByStart(s), NEW range \in Nat \X Nat
  PROVE  LET t == Vectors!InsertByStart(s, range)
         IN /\ t \in Ranges /\ ByStart(t)
            /\ \A c \in Nat : c \in Covered(t) <=>
                 c \in Covered(s) \/ (range[1] <= c /\ c <= range[2])
            /\ \A i \in 1 .. Len(t) : t[i] = range \/ \E j \in 1 .. Len(s) : t[i] = s[j]
<1> DEFINE S == {i \in 1 .. Len(s) + 1 : i = Len(s) + 1 \/ s[i][1] > range[1]}
           p == Vectors!Min(S)
           t == Vectors!InsertAt(s, p, range)
<1>1. Vectors!InsertByStart(s, range) = t
  BY DEF Vectors!InsertByStart
<1>2. /\ Len(s) \in Nat /\ range[1] \in Nat /\ range[2] \in Nat
      /\ \A i \in 1 .. Len(s) : s[i][1] \in Nat /\ s[i][2] \in Nat
  BY RangeList
<1>3. p \in S /\ \A i \in S : p <= i
  <2>1. Len(s) + 1 \in S /\ S \in SUBSET Nat
    BY <1>2
  <2> HIDE DEF S
  <2> QED BY <2>1, VectorsLeast
<1>4. /\ p \in 1 .. Len(s) + 1
      /\ \A i \in 1 .. Len(s) : i < p => s[i][1] <= range[1]
      /\ p <= Len(s) => range[1] < s[p][1]
  <2>1. p \in 1 .. Len(s) + 1 /\ (p <= Len(s) => range[1] < s[p][1])
    BY <1>2, <1>3
  <2>2. ASSUME NEW i \in 1 .. Len(s), i < p PROVE s[i][1] <= range[1]
    <3>1. i \notin S
      BY <1>2, <1>3, <2>1, <2>2
    <3> QED BY <1>2, <3>1
  <2> QED BY <2>1, <2>2
<1> HIDE DEF p
<1>5. /\ t \in Ranges /\ Len(t) = Len(s) + 1
      /\ \A i \in 1 .. Len(s) + 1 :
           t[i] = IF i < p THEN s[i] ELSE IF i = p THEN range ELSE s[i - 1]
  <2>1. range \in Pair
    BY DEF Pair
  <2>2. p \in 1 .. Len(s) + 1
    BY <1>4
  <2> QED BY <2>1, <2>2, RangeInserted, SMTT(60)
<1> HIDE DEF t
<1>6. \A i \in 1 .. Len(s) : i >= p => range[1] <= s[i][1]
  BY <1>2, <1>4 DEF ByStart
<1>7. ByStart(t)
  <2> SUFFICES ASSUME NEW i \in 1 .. Len(t), NEW j \in 1 .. Len(t), i < j
               PROVE  t[i][1] <= t[j][1]
    BY DEF ByStart
  <2>1. CASE j < p
    <3>1. i \in 1 .. Len(s) /\ j \in 1 .. Len(s) /\ t[i] = s[i] /\ t[j] = s[j]
      BY <1>2, <1>4, <1>5, <2>1
    <3> QED BY <3>1 DEF ByStart
  <2>2. CASE j = p
    <3>1. t[j] = range /\ t[i] = s[i] /\ i \in 1 .. Len(s)
      BY <1>2, <1>4, <1>5, <2>2
    <3> QED BY <1>4, <2>2, <3>1
  <2>3. CASE j > p
    <3>1. t[j] = s[j - 1] /\ j - 1 \in 1 .. Len(s) /\ j - 1 >= p
      BY <1>2, <1>4, <1>5, <2>3
    <3>2. CASE i < p
      BY <1>2, <1>4, <1>5, <3>1, <3>2 DEF ByStart
    <3>3. CASE i = p
      BY <1>5, <1>6, <3>1, <3>3
    <3>4. CASE i > p
      <4>1. t[i] = s[i - 1] /\ i - 1 \in 1 .. Len(s) /\ i - 1 < j - 1
        BY <1>2, <1>4, <1>5, <3>4
      <4> QED BY <3>1, <4>1 DEF ByStart
    <3> QED BY <1>4, <3>2, <3>3, <3>4
  <2> QED BY <1>4, <1>5, <2>1, <2>2, <2>3
<1>8. \A i \in 1 .. Len(t) : t[i] = range \/ \E j \in 1 .. Len(s) : t[i] = s[j]
  <2> SUFFICES ASSUME NEW i \in 1 .. Len(t)
               PROVE  t[i] = range \/ \E j \in 1 .. Len(s) : t[i] = s[j]
    OBVIOUS
  <2>1. CASE i < p
    <3>1. i \in 1 .. Len(s) /\ t[i] = s[i]
      BY <1>2, <1>4, <1>5, <2>1
    <3> QED BY <3>1
  <2>2. CASE i > p
    <3>1. i - 1 \in 1 .. Len(s) /\ t[i] = s[i - 1]
      BY <1>2, <1>4, <1>5, <2>2
    <3> QED BY <3>1
  <2> QED BY <1>2, <1>4, <1>5, <2>1, <2>2
<1>9. ASSUME NEW c \in Nat, c \in Covered(s) PROVE c \in Covered(t)
  <2>1. PICK i \in 1 .. Len(s) : s[i][1] <= c /\ c <= s[i][2]
    BY <1>9 DEF Covered, CoveredBy
  <2>2. CASE i < p
    <3>1. i \in 1 .. Len(t) /\ t[i] = s[i]
      BY <1>2, <1>4, <1>5, <2>2
    <3> QED BY <2>1, <3>1 DEF Covered, CoveredBy
  <2>3. CASE i >= p
    <3>1. i + 1 \in 1 .. Len(t) /\ t[i + 1] = s[i]
      BY <1>2, <1>4, <1>5, <2>3
    <3> QED BY <2>1, <3>1 DEF Covered, CoveredBy
  <2> QED BY <1>4, <2>2, <2>3
<1>10. ASSUME NEW c \in Nat, range[1] <= c, c <= range[2] PROVE c \in Covered(t)
  <2>1. p \in 1 .. Len(t) /\ t[p] = range
    BY <1>2, <1>4, <1>5
  <2> QED BY <1>10, <2>1 DEF Covered, CoveredBy
<1>11. ASSUME NEW c \in Nat, c \in Covered(t)
       PROVE  c \in Covered(s) \/ (range[1] <= c /\ c <= range[2])
  <2>1. PICK i \in 1 .. Len(t) : t[i][1] <= c /\ c <= t[i][2]
    BY <1>11 DEF Covered, CoveredBy
  <2>2. CASE t[i] = range
    BY <2>1, <2>2
  <2>3. CASE \E j \in 1 .. Len(s) : t[i] = s[j]
    <3>1. PICK j \in 1 .. Len(s) : t[i] = s[j]
      BY <2>3
    <3>2. s[j][1] <= c /\ c <= s[j][2]
      BY <2>1, <3>1
    <3> QED BY <3>2 DEF Covered, CoveredBy
  <2> QED BY <1>8, <2>2, <2>3
<1> QED BY <1>1, <1>5, <1>7, <1>8, <1>9, <1>10, <1>11

\* The lists of a sort and of a merge, step by step.
LEMMA SortSteps ==
  ASSUME NEW s \in Ranges
  PROVE  \E f :
           /\ f[0] = <<>> /\ Vectors!SortByStart(s) = f[Len(s)]
           /\ \A i \in 1 .. Len(s) : f[i] = Vectors!InsertByStart(f[i - 1], s[i])
<1> DEFINE n == Len(s)
           Lists == {l \in Ranges : ByStart(l)}
           step == [q \in (1 .. n) \X Lists |-> Vectors!InsertByStart(q[2], s[q[1]])]
           f == CHOOSE f : f = [i \in 0 .. n |->
                  IF i = 0 THEN <<>> ELSE Vectors!InsertByStart(f[i - 1], s[i])]
<1>1. Vectors!SortByStart(s) = f[n]
  BY DEF Vectors!SortByStart
<1>2. n \in Nat /\ \A i \in 1 .. n : s[i] \in Nat \X Nat
  BY RangeList
<1>3. <<>> \in Lists
  BY EmptySeq DEF Ranges, ByStart
<1>4. step \in [(1 .. n) \X Lists -> Lists]
  <2>1. ASSUME NEW q \in (1 .. n) \X Lists
        PROVE  Vectors!InsertByStart(q[2], s[q[1]]) \in Lists
    <3>1. q[2] \in Ranges /\ ByStart(q[2]) /\ s[q[1]] \in Nat \X Nat
      BY <1>2
    <3> HIDE DEF Ranges
    <3> QED BY <3>1, InsertedByStart
  <2> HIDE DEF Lists
  <2> QED BY <2>1
<1>5. \E g \in [0 .. n -> Lists] :
        g[0] = <<>> /\ \A i \in 1 .. n : g[i] = step[<<i, g[i - 1]>>]
  <2> HIDE DEF Lists, step, n
  <2>1. \E g \in [0 .. n -> Lists] : Takes(g, n, <<>>, step)
    BY <1>2, <1>3, <1>4, StepsExist
  <2> QED BY <2>1 DEF Takes
<1>6. PICK g \in [0 .. n -> Lists] :
        g[0] = <<>> /\ \A i \in 1 .. n : g[i] = step[<<i, g[i - 1]>>]
  BY <1>5
<1>7. \A i \in 1 .. n : g[i] = Vectors!InsertByStart(g[i - 1], s[i])
  <2> SUFFICES ASSUME NEW i \in 1 .. n PROVE g[i] = Vectors!InsertByStart(g[i - 1], s[i])
    OBVIOUS
  <2>1. g[i - 1] \in Lists /\ <<i, g[i - 1]>> \in (1 .. n) \X Lists
    <3>1. i - 1 \in 0 .. n
      BY <1>2
    <3> HIDE DEF Lists, n
    <3>2. g[i - 1] \in Lists
      BY <1>6, <3>1
    <3> QED BY <3>2
  <2> HIDE DEF Lists
  <2> QED BY <1>6, <2>1
<1>8. g = [i \in 0 .. n |-> IF i = 0 THEN <<>> ELSE Vectors!InsertByStart(g[i - 1], s[i])]
  <2> HIDE DEF Lists, step
  <2>1. ASSUME NEW i \in 0 .. n
        PROVE  g[i] = IF i = 0 THEN <<>> ELSE Vectors!InsertByStart(g[i - 1], s[i])
    BY <1>2, <1>6, <1>7
  <2> QED BY <1>6, <2>1
<1>9. f = [i \in 0 .. n |-> IF i = 0 THEN <<>> ELSE Vectors!InsertByStart(f[i - 1], s[i])]
  <2> HIDE DEF n
  <2> QED BY <1>8
<1>10. f[0] = <<>> /\ \A i \in 1 .. n : f[i] = Vectors!InsertByStart(f[i - 1], s[i])
  <2> HIDE DEF f
  <2>1. 0 \in 0 .. n /\ \A i \in 1 .. n : i \in 0 .. n /\ i # 0
    BY <1>2
  <2> QED BY <1>9, <2>1
<1> QED BY <1>1, <1>10

\* The sorted list covers the same counters with the same ranges.
LEMMA Sorting ==
  ASSUME NEW s \in Ranges
  PROVE  /\ Vectors!SortByStart(s) \in Ranges /\ ByStart(Vectors!SortByStart(s))
         /\ \A c \in Nat : c \in Covered(Vectors!SortByStart(s)) <=> c \in Covered(s)
         /\ \A i \in 1 .. Len(Vectors!SortByStart(s)) :
              \E j \in 1 .. Len(s) : Vectors!SortByStart(s)[i] = s[j]
<1> DEFINE n == Len(s)
<1>1. PICK f :
        /\ f[0] = <<>> /\ Vectors!SortByStart(s) = f[n]
        /\ \A i \in 1 .. n : f[i] = Vectors!InsertByStart(f[i - 1], s[i])
  BY SortSteps
<1> DEFINE From(l) == \A k \in 1 .. Len(l) : \E j \in 1 .. n : l[k] = s[j]
           Same(l, i) == \A c \in Nat : c \in Covered(l) <=> c \in CoveredBy(s, i)
           S == {i \in 0 .. n : /\ f[i] \in Ranges /\ ByStart(f[i])
                                /\ Same(f[i], i) /\ From(f[i])}
<1>2. n \in Nat /\ \A i \in 1 .. n : s[i] \in Nat \X Nat
  BY RangeList
<1>3. 0 \in S
  <2>1. f[0] \in Ranges /\ Len(f[0]) = 0
    BY <1>1, EmptySeq DEF Ranges
  <2> QED BY <1>2, <2>1 DEF ByStart, Covered, CoveredBy
<1>4. ASSUME NEW i \in 1 .. n, i - 1 \in S PROVE i \in S
  <2>1. /\ f[i - 1] \in Ranges /\ ByStart(f[i - 1])
        /\ Same(f[i - 1], i - 1) /\ From(f[i - 1])
    BY <1>4
  <2>2. f[i] = Vectors!InsertByStart(f[i - 1], s[i])
    BY <1>1
  <2>3. /\ f[i] \in Ranges /\ ByStart(f[i])
        /\ \A c \in Nat : c \in Covered(f[i]) <=>
             c \in Covered(f[i - 1]) \/ (s[i][1] <= c /\ c <= s[i][2])
        /\ \A k \in 1 .. Len(f[i]) :
             f[i][k] = s[i] \/ \E j \in 1 .. Len(f[i - 1]) : f[i][k] = f[i - 1][j]
    <3> DEFINE l == f[i - 1]
               range == s[i]
    <3>1. l \in Ranges /\ ByStart(l) /\ range \in Nat \X Nat
      BY <1>2, <2>1
    <3> HIDE DEF l, range
    <3>2. f[i] = Vectors!InsertByStart(l, range)
      BY <2>2 DEF l, range
    <3>3. /\ f[i] \in Ranges /\ ByStart(f[i])
          /\ \A c \in Nat : c \in Covered(f[i]) <=>
               c \in Covered(l) \/ (range[1] <= c /\ c <= range[2])
          /\ \A k \in 1 .. Len(f[i]) :
               f[i][k] = range \/ \E j \in 1 .. Len(l) : f[i][k] = l[j]
      BY <3>1, <3>2, InsertedByStart
    <3> QED BY <3>3 DEF l, range
  <2>4. Same(f[i], i)
    <3>1. \A c \in Nat : c \in CoveredBy(s, i) <=>
            c \in CoveredBy(s, i - 1) \/ (s[i][1] <= c /\ c <= s[i][2])
      <4>1. \A j : j \in 1 .. i <=> j \in 1 .. i - 1 \/ j = i
        BY <1>2
      <4> QED BY <4>1 DEF CoveredBy
    <3> QED BY <2>1, <2>3, <3>1
  <2>5. From(f[i])
    BY <2>1, <2>3
  <2> QED BY <1>2, <2>3, <2>4, <2>5
<1>5. n \in S
  <2> HIDE DEF S
  <2>1. \A i \in 0 .. n : i \in S
    BY <1>2, <1>3, <1>4, AfterSteps
  <2> QED BY <1>2, <2>1
<1>6. /\ f[n] \in Ranges /\ ByStart(f[n]) /\ Same(f[n], n) /\ From(f[n])
  BY <1>5
<1> QED BY <1>1, <1>6 DEF Covered

LEMMA MergeRangeType ==
  ASSUME NEW merged \in Ranges, NEW range \in Nat \X Nat
  PROVE  Vectors!MergeRange(merged, range) \in Ranges
<1>1. range[1] \in Nat /\ range[2] \in Nat /\ Append(merged, range) \in Ranges
  BY RangeAppended
<1>2. ASSUME merged # <<>>
      PROVE  LET n == Len(merged)
                 wider == <<merged[n][1], Vectors!Max({merged[n][2], range[2]})>>
             IN [merged EXCEPT ![n] = wider] \in Ranges
  <2> DEFINE n == Len(merged)
             wider == <<merged[n][1], Vectors!Max({merged[n][2], range[2]})>>
  <2>1. n \in 1 .. n /\ merged[n][1] \in Nat /\ merged[n][2] \in Nat
    BY <1>2, RangeList
  <2>2. wider \in Nat \X Nat
    BY <1>1, <2>1, MaxOfTwo
  <2> HIDE DEF wider
  <2>3. [merged EXCEPT ![n] = wider] \in Ranges
    BY <2>1, <2>2, RangeReplaced
  <2> QED BY <2>3 DEF wider
<1> QED BY <1>1, <1>2 DEF Vectors!MergeRange

LEMMA MergeSteps ==
  ASSUME NEW s \in Ranges
  PROVE  \E f :
           /\ f[0] = <<>> /\ Vectors!MergeRanges(s) = f[Len(s)]
           /\ \A i \in 1 .. Len(s) : f[i] = Vectors!MergeRange(f[i - 1], s[i])
<1> DEFINE n == Len(s)
           Lists == Ranges
           step == [q \in (1 .. n) \X Lists |-> Vectors!MergeRange(q[2], s[q[1]])]
           f == CHOOSE f : f = [i \in 0 .. n |->
                  IF i = 0 THEN <<>> ELSE Vectors!MergeRange(f[i - 1], s[i])]
<1>1. Vectors!MergeRanges(s) = f[n]
  BY DEF Vectors!MergeRanges
<1>2. n \in Nat /\ \A i \in 1 .. n : s[i] \in Nat \X Nat
  BY RangeList
<1>3. <<>> \in Lists
  BY EmptySeq DEF Ranges
<1>4. step \in [(1 .. n) \X Lists -> Lists]
  <2>1. ASSUME NEW q \in (1 .. n) \X Lists
        PROVE  Vectors!MergeRange(q[2], s[q[1]]) \in Lists
    <3>1. q[2] \in Ranges /\ s[q[1]] \in Nat \X Nat
      BY <1>2
    <3> QED BY <3>1, MergeRangeType
  <2> HIDE DEF Lists
  <2> QED BY <2>1
<1>5. \E g \in [0 .. n -> Lists] :
        g[0] = <<>> /\ \A i \in 1 .. n : g[i] = step[<<i, g[i - 1]>>]
  <2> HIDE DEF Lists, step, n
  <2>1. \E g \in [0 .. n -> Lists] : Takes(g, n, <<>>, step)
    BY <1>2, <1>3, <1>4, StepsExist
  <2> QED BY <2>1 DEF Takes
<1>6. PICK g \in [0 .. n -> Lists] :
        g[0] = <<>> /\ \A i \in 1 .. n : g[i] = step[<<i, g[i - 1]>>]
  BY <1>5
<1>7. \A i \in 1 .. n : g[i] = Vectors!MergeRange(g[i - 1], s[i])
  <2> SUFFICES ASSUME NEW i \in 1 .. n PROVE g[i] = Vectors!MergeRange(g[i - 1], s[i])
    OBVIOUS
  <2>1. g[i - 1] \in Lists /\ <<i, g[i - 1]>> \in (1 .. n) \X Lists
    <3>1. i - 1 \in 0 .. n
      BY <1>2
    <3> HIDE DEF Lists, n
    <3>2. g[i - 1] \in Lists
      BY <1>6, <3>1
    <3> QED BY <3>2
  <2> HIDE DEF Lists
  <2> QED BY <1>6, <2>1
<1>8. g = [i \in 0 .. n |-> IF i = 0 THEN <<>> ELSE Vectors!MergeRange(g[i - 1], s[i])]
  <2> HIDE DEF Lists, step
  <2>1. ASSUME NEW i \in 0 .. n
        PROVE  g[i] = IF i = 0 THEN <<>> ELSE Vectors!MergeRange(g[i - 1], s[i])
    BY <1>2, <1>6, <1>7
  <2> QED BY <1>6, <2>1
<1>9. f = [i \in 0 .. n |-> IF i = 0 THEN <<>> ELSE Vectors!MergeRange(f[i - 1], s[i])]
  <2> HIDE DEF n
  <2> QED BY <1>8
<1>10. f[0] = <<>> /\ \A i \in 1 .. n : f[i] = Vectors!MergeRange(f[i - 1], s[i])
  <2> HIDE DEF f
  <2>1. 0 \in 0 .. n /\ \A i \in 1 .. n : i \in 0 .. n /\ i # 0
    BY <1>2
  <2> QED BY <1>9, <2>1
<1> QED BY <1>1, <1>10

\* Ranges in order with a gap before each, all beyond a counter.
Apart(s, low) ==
  \A i \in 1 .. Len(s) :
    /\ low < s[i][1] /\ s[i][1] <= s[i][2]
    /\ \A j \in 1 .. i - 1 : s[j][2] + 1 < s[i][1]

LEMMA MergedRange ==
  ASSUME NEW s \in Ranges, Apart(s, 0), NEW range \in Nat \X Nat,
         1 <= range[1], range[1] <= range[2], \A i \in 1 .. Len(s) : s[i][1] <= range[1]
  PROVE  LET t == Vectors!MergeRange(s, range)
         IN /\ t \in Ranges /\ Apart(t, 0)
            /\ \A c \in Nat : c \in Covered(t) <=>
                 c \in Covered(s) \/ (range[1] <= c /\ c <= range[2])
            /\ \A i \in 1 .. Len(t) : t[i][1] <= range[1]
<1> DEFINE n == Len(s)
           t == Vectors!MergeRange(s, range)
<1>1. /\ n \in Nat /\ range[1] \in Nat /\ range[2] \in Nat
      /\ \A i \in 1 .. n : s[i][1] \in Nat /\ s[i][2] \in Nat
      /\ s # <<>> <=> n > 0
  BY RangeList
<1>2. CASE s # <<>> /\ range[1] <= s[n][2] + 1
  <2> DEFINE end == Vectors!Max({s[n][2], range[2]})
             wider == <<s[n][1], end>>
  <2>1. /\ n \in 1 .. n
        /\ end = IF s[n][2] <= range[2] THEN range[2] ELSE s[n][2]
    <3>1. n \in 1 .. n
      BY <1>1, <1>2
    <3>2. s[n][2] \in Nat /\ range[2] \in Nat
      BY <1>1, <3>1
    <3> QED BY <3>1, <3>2, MaxOfTwo
  <2>2. t = [s EXCEPT ![n] = wider]
    <3>1. ~(range[1] = 0 \/ range[2] = 0 \/ range[1] > range[2])
      BY <1>1
    <3>2. Vectors!Last(s) = s[n]
      BY DEF Vectors!Last
    <3> QED BY <1>2, <3>1, <3>2 DEF Vectors!MergeRange
  <2>3. end \in Nat
    BY <1>1, <2>1
  <2> HIDE DEF end, t
  <2>4. wider \in Nat \X Nat /\ wider[1] = s[n][1] /\ wider[2] = end
    BY <1>1, <2>1, <2>3
  <2> HIDE DEF wider
  <2>5. /\ t \in Ranges /\ Len(t) = n
        /\ \A i \in 1 .. n : t[i] = IF i = n THEN wider ELSE s[i]
    <3>1. /\ [s EXCEPT ![n] = wider] \in Ranges
          /\ Len([s EXCEPT ![n] = wider]) = n
          /\ \A i \in 1 .. n : [s EXCEPT ![n] = wider][i] = IF i = n THEN wider ELSE s[i]
      BY <2>1, <2>4, RangeReplaced
    <3> QED BY <2>2, <3>1
  <2>6. \A i \in 1 .. n : /\ t[i][1] = s[i][1] 
                          /\ t[i][2] = IF i = n THEN end ELSE s[i][2]
    BY <2>4, <2>5
  <2>7. Apart(t, 0)
    <3> SUFFICES ASSUME NEW i \in 1 .. n
                 PROVE  /\ 0 < t[i][1] /\ t[i][1] <= t[i][2]
                        /\ \A j \in 1 .. i - 1 : t[j][2] + 1 < t[i][1]
      BY <2>5 DEF Apart
    <3>1. 0 < t[i][1] /\ t[i][1] <= t[i][2]
      BY <1>1, <2>1, <2>6, SMTT(30) DEF Apart
    <3>2. ASSUME NEW j \in 1 .. i - 1 PROVE t[j][2] + 1 < t[i][1]
      <4>1. j \in 1 .. n /\ j # n
        BY <1>1
      <4> QED BY <2>6, <4>1 DEF Apart
    <3> QED BY <3>1, <3>2
  <2>8. ASSUME NEW c \in Nat, c \in Covered(t)
        PROVE  c \in Covered(s) \/ (range[1] <= c /\ c <= range[2])
    <3>1. PICK i \in 1 .. n : t[i][1] <= c /\ c <= t[i][2]
      BY <2>5, <2>8 DEF Covered, CoveredBy
    <3>2. CASE c <= s[i][2]
      BY <2>6, <3>1, <3>2 DEF Covered, CoveredBy
    <3>3. CASE c > s[i][2]
      BY <1>1, <1>2, <2>1, <2>6, <3>1, <3>3
    <3> QED BY <1>1, <3>2, <3>3
  <2>9. ASSUME NEW c \in Nat, c \in Covered(s) \/ (range[1] <= c /\ c <= range[2])
        PROVE  c \in Covered(t)
    <3>1. CASE c \in Covered(s)
      <4>1. PICK i \in 1 .. n : s[i][1] <= c /\ c <= s[i][2]
        BY <3>1 DEF Covered, CoveredBy
      <4>2. t[i][1] <= c /\ c <= t[i][2]
        BY <1>1, <2>1, <2>6, <4>1
      <4> QED BY <2>5, <4>2 DEF Covered, CoveredBy
    <3>2. CASE range[1] <= c /\ c <= range[2]
      <4>1. t[n][1] <= c /\ c <= t[n][2]
        BY <1>1, <2>1, <2>6, <3>2
      <4> QED BY <2>1, <2>5, <4>1 DEF Covered, CoveredBy
    <3> QED BY <2>9, <3>1, <3>2
  <2>10. \A i \in 1 .. n : t[i][1] <= range[1]
    BY <2>6
  <2> QED BY <2>5, <2>7, <2>8, <2>9, <2>10 DEF t
<1>3. CASE s = <<>> \/ range[1] > s[n][2] + 1
  <2>1. t = Append(s, range)
    <3>1. ~(range[1] = 0 \/ range[2] = 0 \/ range[1] > range[2])
      BY <1>1
    <3>2. Vectors!Last(s) = s[n]
      BY DEF Vectors!Last
    <3>3. s # <<>> => ~(range[1] <= s[n][2] + 1)
      BY <1>1, <1>3
    <3> QED BY <3>1, <3>2, <3>3 DEF Vectors!MergeRange
  <2> HIDE DEF t
  <2>2. /\ t \in Ranges /\ Len(t) = n + 1
        /\ \A i \in 1 .. n + 1 : t[i] = IF i = n + 1 THEN range ELSE s[i]
    BY <2>1, RangeAppended
  <2>3. \A j \in 1 .. n : s[j][2] + 1 < range[1]
    <3> SUFFICES ASSUME NEW j \in 1 .. n PROVE s[j][2] + 1 < range[1]
      OBVIOUS
    <3>1. n \in 1 .. n /\ s[n][2] + 1 < range[1]
      BY <1>1, <1>3
    <3>2. CASE j # n
      <4>1. s[j][2] + 1 < s[n][1] /\ s[n][1] <= s[n][2]
        BY <1>1, <3>1, <3>2 DEF Apart
      <4> QED BY <1>1, <3>1, <4>1
    <3> QED BY <3>1, <3>2
  <2>4. Apart(t, 0)
    <3> SUFFICES ASSUME NEW i \in 1 .. n + 1
                 PROVE  /\ 0 < t[i][1] /\ t[i][1] <= t[i][2]
                        /\ \A j \in 1 .. i - 1 : t[j][2] + 1 < t[i][1]
      BY <2>2 DEF Apart
    <3>1. \A j \in 1 .. i - 1 : j \in 1 .. n /\ t[j] = s[j]
      BY <1>1, <2>2
    <3>2. CASE i = n + 1
      <4>1. t[i] = range
        BY <2>2, <3>2
      <4> QED BY <1>1, <2>3, <3>1, <4>1
    <3>3. CASE i # n + 1
      <4>1. i \in 1 .. n /\ t[i] = s[i]
        BY <1>1, <2>2, <3>3
      <4> QED BY <3>1, <4>1 DEF Apart
    <3> QED BY <3>2, <3>3
  <2>5. ASSUME NEW c \in Nat, c \in Covered(t)
        PROVE  c \in Covered(s) \/ (range[1] <= c /\ c <= range[2])
    <3>1. PICK i \in 1 .. n + 1 : t[i][1] <= c /\ c <= t[i][2]
      BY <2>2, <2>5 DEF Covered, CoveredBy
    <3>2. CASE i = n + 1
      BY <2>2, <3>1, <3>2
    <3>3. CASE i # n + 1
      <4>1. i \in 1 .. n /\ t[i] = s[i]
        BY <1>1, <2>2, <3>3
      <4> QED BY <3>1, <4>1 DEF Covered, CoveredBy
    <3> QED BY <3>2, <3>3
  <2>6. ASSUME NEW c \in Nat, c \in Covered(s) \/ (range[1] <= c /\ c <= range[2])
        PROVE  c \in Covered(t)
    <3>1. CASE c \in Covered(s)
      <4>1. PICK i \in 1 .. n : s[i][1] <= c /\ c <= s[i][2]
        BY <3>1 DEF Covered, CoveredBy
      <4>2. i \in 1 .. n + 1 /\ t[i] = s[i]
        BY <1>1, <2>2
      <4> QED BY <2>2, <4>1, <4>2 DEF Covered, CoveredBy
    <3>2. CASE range[1] <= c /\ c <= range[2]
      <4>1. n + 1 \in 1 .. n + 1 /\ t[n + 1] = range
        BY <1>1, <2>2
      <4> QED BY <2>2, <3>2, <4>1 DEF Covered, CoveredBy
    <3> QED BY <2>6, <3>1, <3>2
  <2>7. \A i \in 1 .. n + 1 : t[i][1] <= range[1]
    BY <1>1, <2>2
  <2> QED BY <2>2, <2>4, <2>5, <2>6, <2>7 DEF t
<1> QED BY <1>1, <1>2, <1>3

\* A sorted list of ranges merged: the same counters, with gaps between.
LEMMA Merging ==
  ASSUME NEW s \in Ranges, ByStart(s),
         \A i \in 1 .. Len(s) : 1 <= s[i][1] /\ s[i][1] <= s[i][2]
  PROVE  /\ Vectors!MergeRanges(s) \in Ranges /\ Apart(Vectors!MergeRanges(s), 0)
         /\ \A c \in Nat : c \in Covered(Vectors!MergeRanges(s)) <=> c \in Covered(s)
<1> DEFINE n == Len(s)
<1>1. PICK f :
        /\ f[0] = <<>> /\ Vectors!MergeRanges(s) = f[n]
        /\ \A i \in 1 .. n : f[i] = Vectors!MergeRange(f[i - 1], s[i])
  BY MergeSteps
<1> DEFINE Earlier(l, i) == \A k \in 1 .. Len(l) : \A j \in i + 1 .. n : l[k][1] <= s[j][1]
           Same(l, i) == \A c \in Nat : c \in Covered(l) <=> c \in CoveredBy(s, i)
           S == {i \in 0 .. n : /\ f[i] \in Ranges /\ Apart(f[i], 0)
                                /\ Same(f[i], i) /\ Earlier(f[i], i)}
<1>2. n \in Nat /\ \A i \in 1 .. n : s[i] \in Nat \X Nat /\ s[i][1] \in Nat /\ s[i][2] \in Nat
  BY RangeList
<1>3. 0 \in S
  <2>1. f[0] \in Ranges /\ Len(f[0]) = 0
    BY <1>1, EmptySeq DEF Ranges
  <2> QED BY <1>2, <2>1 DEF Apart, Covered, CoveredBy
<1>4. ASSUME NEW i \in 1 .. n, i - 1 \in S PROVE i \in S
  <2> DEFINE l == f[i - 1]
             range == s[i]
             t == f[i]
  <2>1. l \in Ranges /\ Apart(l, 0) /\ Same(l, i - 1) /\ Earlier(l, i - 1)
    BY <1>4
  <2>2. t = Vectors!MergeRange(l, range)
    BY <1>1
  <2>3. /\ range \in Nat \X Nat /\ 1 <= range[1] /\ range[1] <= range[2]
        /\ \A k \in 1 .. Len(l) : l[k][1] <= range[1]
    BY <1>2, <2>1
  <2> HIDE DEF l, range, t
  <2>4. /\ t \in Ranges /\ Apart(t, 0)
        /\ \A c \in Nat : c \in Covered(t) <=>
             c \in Covered(l) \/ (range[1] <= c /\ c <= range[2])
        /\ \A k \in 1 .. Len(t) : t[k][1] <= range[1]
    BY <2>1, <2>2, <2>3, MergedRange
  <2>5. Same(t, i)
    <3>1. \A c \in Nat : c \in CoveredBy(s, i) <=>
            c \in CoveredBy(s, i - 1) \/ (s[i][1] <= c /\ c <= s[i][2])
      <4>1. \A j : j \in 1 .. i <=> j \in 1 .. i - 1 \/ j = i
        BY <1>2
      <4> QED BY <4>1 DEF CoveredBy
    <3> QED BY <2>1, <2>4, <3>1 DEF range
  <2>6. Earlier(t, i)
    <3> SUFFICES ASSUME NEW k \in 1 .. Len(t), NEW j \in i + 1 .. n PROVE t[k][1] <= s[j][1]
      OBVIOUS
    <3>1. range[1] <= s[j][1] /\ j \in 1 .. n
      BY <1>2 DEF range, ByStart
    <3>2. t[k][1] <= range[1] /\ t[k][1] \in Nat
      BY <2>4, RangeList
    <3> QED BY <1>2, <2>3, <3>1, <3>2 DEF range
  <2> QED BY <1>2, <2>4, <2>5, <2>6 DEF t
<1>5. n \in S
  <2> HIDE DEF S
  <2>1. \A i \in 0 .. n : i \in S
    BY <1>2, <1>3, <1>4, AfterSteps
  <2> QED BY <1>2, <2>1
<1>6. f[n] \in Ranges /\ Apart(f[n], 0) /\ Same(f[n], n)
  BY <1>5
<1> QED BY <1>1, <1>6 DEF Covered

Versions == [frontier : Nat, ranges : Ranges]

\* The counters a version stands for, and a version as the code keeps it.
Seen(v) == {c \in Nat : 1 <= c /\ (c <= v.frontier \/ c \in Covered(v.ranges))}
IsVersion(v) == v \in Versions /\ Apart(v.ranges, v.frontier + 1)

LEMMA VectorsGreatest ==
  ASSUME NEW S \in SUBSET Nat, NEW m \in S, \A i \in S : i <= m
  PROVE  Vectors!Max(S) = m
<1>1. m \in S /\ \A i \in S : m >= i
  OBVIOUS
<1>2. ASSUME NEW k \in S, \A i \in S : k >= i PROVE k = m
  <2>1. k \in Nat /\ m \in Nat /\ k >= m /\ m >= k
    BY <1>2
  <2> QED BY <2>1
<1> QED BY <1>1, <1>2, Zenon DEF Vectors!Max

LEMMA Absorbed ==
  ASSUME NEW v \in Versions, Apart(v.ranges, v.frontier)
  PROVE  /\ IsVersion(Vectors!AbsorbFrontierRanges(v))
         /\ \A c \in Nat : c \in Seen(Vectors!AbsorbFrontierRanges(v)) <=> c \in Seen(v)
<1> DEFINE r == v.ranges
           n == Len(r)
           After(i) == IF i = 0 THEN v.frontier ELSE r[i][2]
           S == {i \in 0 .. n : \A j \in 1 .. i : r[j][1] = After(j - 1) + 1}
           m == Vectors!Max(S)
           w == Vectors!AbsorbFrontierRanges(v)
<1>1. /\ v.frontier \in Nat /\ r \in Ranges /\ n \in Nat
      /\ \A i \in 1 .. n : r[i][1] \in Nat /\ r[i][2] \in Nat
  BY RangeList DEF Versions
<1>2. w = [frontier |-> After(m), ranges |-> SubSeq(r, m + 1, n)]
  BY DEF Vectors!AbsorbFrontierRanges
<1>3. CASE n > 0 /\ r[1][1] = v.frontier + 1
  <2>1. m = 1
    <3>1. S \in SUBSET Nat
      BY <1>1
    <3>2. 1 \in S
      BY <1>1, <1>3
    <3>3. ASSUME NEW i \in S PROVE i <= 1
      <4> SUFFICES ASSUME i >= 2 PROVE FALSE
        BY <1>1
      <4>1. 2 \in 1 .. i /\ 2 \in 1 .. n /\ 1 \in 1 .. 2 - 1
        BY <1>1
      <4>2. r[2][1] = After(2 - 1) + 1
        BY <4>1
      <4>3. r[2][1] = r[1][2] + 1
        BY <4>2
      <4>4. r[1][2] + 1 < r[2][1]
        BY <4>1 DEF Apart
      <4> QED BY <1>1, <4>1, <4>3, <4>4
    <3> HIDE DEF S
    <3> QED BY <3>1, <3>2, <3>3, VectorsGreatest
  <2>2. /\ w.frontier = r[1][2] /\ w.ranges = SubSeq(r, 2, n)
        /\ w = [frontier |-> w.frontier, ranges |-> w.ranges]
    <3>1. After(1) = r[1][2] /\ 1 + 1 = 2
      OBVIOUS
    <3>2. w = [frontier |-> r[1][2], ranges |-> SubSeq(r, 2, n)]
      BY <1>2, <2>1, <3>1
    <3> HIDE DEF w
    <3> QED BY <3>2
  <2> DEFINE t == SubSeq(r, 2, n)
  <2>3. /\ t \in Ranges /\ Len(t) = n - 1
        /\ \A i \in 1 .. n - 1 : t[i] = r[i + 1]
    <3> DEFINE pairs == Nat \X Nat
    <3>1. \A i \in 2 .. n : r[i] \in pairs
      BY <1>1, RangeList
    <3> HIDE DEF pairs
    <3>2. /\ t \in Seq(pairs) /\ Len(t) = IF 2 <= n THEN n - 2 + 1 ELSE 0
          /\ \A i \in 1 .. n - 2 + 1 : t[i] = r[2 + i - 1]
      BY <1>1, <3>1, SubSeqProperties
    <3>3. \A i \in 1 .. n - 1 : 2 + i - 1 = i + 1
      BY <1>1
    <3>4. (IF 2 <= n THEN n - 2 + 1 ELSE 0) = n - 1 /\ n - 2 + 1 = n - 1
      BY <1>1, <1>3
    <3> QED BY <3>2, <3>3, <3>4 DEF Ranges, pairs
  <2> HIDE DEF t, w
  <2>4. w.frontier \in Nat /\ w \in Versions
    <3>1. w.frontier \in Nat
      BY <1>1, <1>3, <2>2
    <3> QED BY <2>2, <2>3, <3>1 DEF Versions, t
  <2>5. Apart(t, w.frontier + 1)
    <3> SUFFICES ASSUME NEW i \in 1 .. n - 1
                 PROVE  /\ w.frontier + 1 < t[i][1] /\ t[i][1] <= t[i][2]
                        /\ \A j \in 1 .. i - 1 : t[j][2] + 1 < t[i][1]
      BY <2>3 DEF Apart
    <3>1. /\ i + 1 \in 1 .. n /\ t[i] = r[i + 1] /\ 1 \in 1 .. i + 1 - 1
          /\ \A j \in 1 .. i - 1 : t[j] = r[j + 1] /\ j + 1 \in 1 .. i + 1 - 1
      BY <1>1, <2>3
    <3>2. /\ r[i + 1][1] <= r[i + 1][2]
          /\ \A j \in 1 .. i + 1 - 1 : r[j][2] + 1 < r[i + 1][1]
      BY <3>1 DEF Apart
    <3> QED BY <2>2, <3>1, <3>2
  <2>6. ASSUME NEW c \in Nat PROVE c \in Seen(w) <=> c \in Seen(v)
    <3>1. ASSUME c \in Covered(t) PROVE c \in Covered(r)
      <4>1. PICK i \in 1 .. n - 1 : t[i][1] <= c /\ c <= t[i][2]
        BY <2>3, <3>1 DEF Covered, CoveredBy
      <4>2. i + 1 \in 1 .. n /\ t[i] = r[i + 1]
        BY <1>1, <2>3
      <4> QED BY <4>1, <4>2 DEF Covered, CoveredBy
    <3>2. ASSUME c \in Covered(r) PROVE c \in Covered(t) \/ c <= w.frontier
      <4>1. PICK i \in 1 .. n : r[i][1] <= c /\ c <= r[i][2]
        BY <3>2 DEF Covered, CoveredBy
      <4>2. CASE i = 1
        BY <2>2, <4>1, <4>2
      <4>3. CASE i # 1
        <5>1. i - 1 \in 1 .. n - 1 /\ t[i - 1] = r[i]
          BY <1>1, <2>3, <4>3
        <5> QED BY <2>3, <4>1, <5>1 DEF Covered, CoveredBy
      <4> QED BY <4>2, <4>3
    <3>3. ASSUME c <= w.frontier PROVE c <= v.frontier \/ c \in Covered(r)
      <4> SUFFICES ASSUME c > v.frontier PROVE c \in Covered(r)
        BY <1>1
      <4>1. 1 \in 1 .. n /\ r[1][1] <= c /\ c <= r[1][2]
        BY <1>1, <1>3, <2>2, <3>3
      <4> QED BY <4>1 DEF Covered, CoveredBy
    <3>4. v.frontier <= w.frontier
      BY <1>1, <1>3, <2>2 DEF Apart
    <3>5. c <= v.frontier => c <= w.frontier
      BY <1>1, <2>4, <3>4
    <3>6. w.ranges = t
      BY <2>2 DEF t
    <3> QED BY <3>1, <3>2, <3>3, <3>5, <3>6 DEF Seen
  <2> QED BY <2>2, <2>4, <2>5, <2>6 DEF IsVersion, t, w
<1>4. CASE n = 0 \/ r[1][1] # v.frontier + 1
  <2>1. m = 0
    <3>1. S \in SUBSET Nat
      BY <1>1
    <3>2. 0 \in S
      BY <1>1
    <3>3. ASSUME NEW i \in S PROVE i <= 0
      <4> SUFFICES ASSUME i >= 1 PROVE FALSE
        BY <1>1
      <4>1. 1 \in 1 .. i /\ n # 0
        BY <1>1
      <4>2. r[1][1] = After(1 - 1) + 1
        BY <4>1
      <4> QED BY <1>4, <4>1, <4>2
    <3> HIDE DEF S
    <3> QED BY <3>1, <3>2, <3>3, VectorsGreatest
  <2>2. w = v
    <3>1. SubSeq(r, 0 + 1, n) = r
      BY <1>1, SubSeqFull DEF Ranges
    <3>2. w = [frontier |-> v.frontier, ranges |-> r]
      BY <1>2, <2>1, <3>1
    <3>3. v = [frontier |-> v.frontier, ranges |-> v.ranges]
      BY DEF Versions
    <3> QED BY <3>2, <3>3
  <2>3. Apart(r, v.frontier + 1)
    <3> SUFFICES ASSUME NEW i \in 1 .. n
                 PROVE  /\ v.frontier + 1 < r[i][1] /\ r[i][1] <= r[i][2]
                        /\ \A j \in 1 .. i - 1 : r[j][2] + 1 < r[i][1]
      BY DEF Apart
    <3>1. /\ v.frontier < r[i][1] /\ r[i][1] <= r[i][2]
          /\ \A j \in 1 .. i - 1 : r[j][2] + 1 < r[i][1]
      BY DEF Apart
    <3>2. CASE i = 1
      BY <1>1, <1>4, <3>1, <3>2
    <3>3. CASE i # 1
      <4>1. 1 \in 1 .. n /\ 1 \in 1 .. i - 1
        BY <1>1, <3>3
      <4>2. v.frontier < r[1][1] /\ r[1][1] <= r[1][2] /\ r[1][2] + 1 < r[i][1]
        BY <4>1 DEF Apart
      <4> QED BY <1>1, <3>1, <4>1, <4>2, SMTT(30)
    <3> QED BY <3>2, <3>3
  <2> QED BY <2>2, <2>3 DEF IsVersion
<1> QED BY <1>1, <1>3, <1>4

LEMMA GapFollows ==
  ASSUME NEW c \in Nat, NEW first \in Nat, NEW last \in Nat, NEW next \in Nat,
         c <= first, first <= last, last + 1 < next
  PROVE  c + 1 < next
OBVIOUS

\* Ranges with gaps between become a version of the same counters.
LEMMA VersionFromRanges ==
  ASSUME NEW s \in Ranges, Apart(s, 0)
  PROVE  /\ IsVersion(Vectors!FromRanges(s))
         /\ \A c \in Nat : c \in Seen(Vectors!FromRanges(s)) <=> c \in Covered(s)
<1> DEFINE n == Len(s)
<1>1. /\ n \in Nat /\ s # <<>> <=> n > 0
      /\ \A i \in 1 .. n : s[i][1] \in Nat /\ s[i][2] \in Nat
  BY RangeList
<1>2. ASSUME NEW c \in Nat, c \in Covered(s) PROVE 1 <= c
  BY <1>1, <1>2 DEF Covered, CoveredBy, Apart
<1>3. CASE n > 0 /\ s[1][1] = 1
  <2> DEFINE t == Tail(s)
             v == [frontier |-> s[1][2], ranges |-> t]
  <2>1. Vectors!FromRanges(s) = Vectors!AbsorbFrontierRanges(v)
    BY <1>1, <1>3 DEF Vectors!FromRanges
  <2>2. /\ t \in Ranges /\ Len(t) = n - 1
        /\ \A i \in 1 .. n - 1 : t[i] = s[i + 1]
    BY <1>1, <1>3, HeadTailProperties DEF Ranges
  <2> HIDE DEF t
  <2>3. v \in Versions /\ v.frontier = s[1][2] /\ v.ranges = t
    BY <1>1, <1>3, <2>2 DEF Versions
  <2>4. Apart(t, s[1][2])
    <3> SUFFICES ASSUME NEW i \in 1 .. n - 1
                 PROVE  /\ s[1][2] < t[i][1] /\ t[i][1] <= t[i][2]
                        /\ \A j \in 1 .. i - 1 : t[j][2] + 1 < t[i][1]
      BY <2>2 DEF Apart
    <3>1. /\ i + 1 \in 1 .. n /\ t[i] = s[i + 1] /\ 1 \in 1 .. i + 1 - 1
          /\ \A j \in 1 .. i - 1 : t[j] = s[j + 1] /\ j + 1 \in 1 .. i + 1 - 1
      BY <1>1, <2>2
    <3>2. /\ s[i + 1][1] <= s[i + 1][2]
          /\ \A j \in 1 .. i + 1 - 1 : s[j][2] + 1 < s[i + 1][1]
      BY <3>1 DEF Apart
    <3>3. s[1][2] < t[i][1] /\ t[i][1] <= t[i][2]
      <4>1. s[1][2] + 1 < s[i + 1][1] /\ s[1][2] \in Nat /\ s[i + 1][1] \in Nat
        BY <1>1, <1>3, <3>1, <3>2
      <4>2. s[1][2] < s[i + 1][1]
        BY <4>1
      <4> QED BY <3>1, <3>2, <4>2
    <3>4. ASSUME NEW j \in 1 .. i - 1 PROVE t[j][2] + 1 < t[i][1]
      <4>1. t[j] = s[j + 1] /\ j + 1 \in 1 .. i + 1 - 1
        BY <3>1
      <4> QED BY <3>1, <3>2, <4>1
    <3> QED BY <3>3, <3>4
  <2>5. ASSUME NEW c \in Nat PROVE c \in Seen(v) <=> c \in Covered(s)
    <3>1. ASSUME c \in Covered(s) PROVE c <= s[1][2] \/ c \in Covered(t)
      <4>1. PICK i \in 1 .. n : s[i][1] <= c /\ c <= s[i][2]
        BY <3>1 DEF Covered, CoveredBy
      <4>2. CASE i # 1
        <5>1. i - 1 \in 1 .. n - 1 /\ t[i - 1] = s[i]
          BY <1>1, <2>2, <4>2
        <5> QED BY <2>2, <4>1, <5>1 DEF Covered, CoveredBy
      <4> QED BY <4>1, <4>2
    <3>2. ASSUME c \in Covered(t) PROVE c \in Covered(s)
      <4>1. PICK i \in 1 .. n - 1 : t[i][1] <= c /\ c <= t[i][2]
        BY <2>2, <3>2 DEF Covered, CoveredBy
      <4>2. i + 1 \in 1 .. n /\ t[i] = s[i + 1]
        BY <1>1, <2>2
      <4> QED BY <4>1, <4>2 DEF Covered, CoveredBy
    <3>3. ASSUME 1 <= c, c <= s[1][2] PROVE c \in Covered(s)
      <4>1. 1 \in 1 .. n
        BY <1>1, <1>3
      <4> QED BY <1>3, <3>3, <4>1 DEF Covered, CoveredBy
    <3> HIDE DEF v
    <3> QED BY <1>2, <2>3, <3>1, <3>2, <3>3 DEF Seen
  <2> HIDE DEF v
  <2>6. Apart(v.ranges, v.frontier)
    BY <2>3, <2>4
  <2>7. /\ IsVersion(Vectors!AbsorbFrontierRanges(v))
        /\ \A c \in Nat : c \in Seen(Vectors!AbsorbFrontierRanges(v)) <=> c \in Seen(v)
    BY <2>3, <2>6, Absorbed
  <2> QED BY <2>1, <2>5, <2>7
<1>4. CASE n = 0 \/ s[1][1] # 1
  <2> DEFINE v == [frontier |-> 0, ranges |-> s]
  <2>1. Vectors!FromRanges(s) = Vectors!AbsorbFrontierRanges(v)
    BY <1>1, <1>4 DEF Vectors!FromRanges
  <2>2. v \in Versions /\ v.frontier = 0 /\ v.ranges = s
    BY DEF Versions
  <2> HIDE DEF v
  <2>3. ASSUME NEW c \in Nat PROVE c \in Seen(v) <=> c \in Covered(s)
    BY <1>2, <2>2 DEF Seen
  <2>4. Apart(v.ranges, v.frontier)
    BY <2>2
  <2>5. /\ IsVersion(Vectors!AbsorbFrontierRanges(v))
        /\ \A c \in Nat : c \in Seen(Vectors!AbsorbFrontierRanges(v)) <=> c \in Seen(v)
    BY <2>2, <2>4, Absorbed
  <2> QED BY <2>1, <2>3, <2>5
<1> QED BY <1>1, <1>3, <1>4

LEMMA VersionType ==
  ASSUME NEW v, IsVersion(v)
  PROVE  /\ v \in Versions /\ v.frontier \in Nat /\ v.ranges \in Ranges
         /\ v = [frontier |-> v.frontier, ranges |-> v.ranges]
         /\ Apart(v.ranges, v.frontier + 1)
BY DEF IsVersion, Versions

LEMMA CoveredByBoth ==
  ASSUME NEW s \in Ranges, NEW t \in Ranges
  PROVE  /\ s \o t \in Ranges /\ Len(s \o t) = Len(s) + Len(t)
         /\ \A i \in 1 .. Len(s) + Len(t) :
              (s \o t)[i] = IF i <= Len(s) THEN s[i] ELSE t[i - Len(s)]
         /\ \A c \in Nat : c \in Covered(s \o t) <=> c \in Covered(s) \/ c \in Covered(t)
<1> DEFINE m == Len(s)
           n == Len(t)
           u == s \o t
<1>1. m \in Nat /\ n \in Nat
  BY RangeList
<1>2. /\ u \in Ranges /\ Len(u) = m + n
      /\ \A i \in 1 .. m + n : u[i] = IF i <= m THEN s[i] ELSE t[i - m]
  BY ConcatProperties DEF Ranges
<1> HIDE DEF u
<1>3. ASSUME NEW c \in Nat, c \in Covered(u) PROVE c \in Covered(s) \/ c \in Covered(t)
  <2>1. PICK i \in 1 .. m + n : u[i][1] <= c /\ c <= u[i][2]
    BY <1>2, <1>3 DEF Covered, CoveredBy
  <2>2. CASE i <= m
    <3>1. i \in 1 .. m /\ u[i] = s[i]
      BY <1>1, <1>2, <2>2
    <3> QED BY <2>1, <3>1 DEF Covered, CoveredBy
  <2>3. CASE i > m
    <3>1. i - m \in 1 .. n /\ u[i] = t[i - m]
      BY <1>1, <1>2, <2>3
    <3> QED BY <2>1, <3>1 DEF Covered, CoveredBy
  <2> QED BY <1>1, <2>2, <2>3
<1>4. ASSUME NEW c \in Nat, c \in Covered(s) PROVE c \in Covered(u)
  <2>1. PICK i \in 1 .. m : s[i][1] <= c /\ c <= s[i][2]
    BY <1>4 DEF Covered, CoveredBy
  <2>2. i \in 1 .. m + n /\ u[i] = s[i]
    BY <1>1, <1>2
  <2> QED BY <1>2, <2>1, <2>2 DEF Covered, CoveredBy
<1>5. ASSUME NEW c \in Nat, c \in Covered(t) PROVE c \in Covered(u)
  <2>1. PICK i \in 1 .. n : t[i][1] <= c /\ c <= t[i][2]
    BY <1>5 DEF Covered, CoveredBy
  <2>2. m + i \in 1 .. m + n /\ u[m + i] = t[i]
    <3>1. m + i \in 1 .. m + n /\ ~(m + i <= m) /\ m + i - m = i
      BY <1>1
    <3> QED BY <1>2, <3>1
  <2> QED BY <1>2, <2>1, <2>2 DEF Covered, CoveredBy
<1> QED BY <1>2, <1>3, <1>4, <1>5 DEF u

\* A version as a list of ranges.
LEMMA VersionAsRanges ==
  ASSUME NEW v, IsVersion(v)
  PROVE  /\ Vectors!AsRanges(v) \in Ranges
         /\ \A i \in 1 .. Len(Vectors!AsRanges(v)) :
              1 <= Vectors!AsRanges(v)[i][1] /\ Vectors!AsRanges(v)[i][1] <= Vectors!AsRanges(v)[i][2]
         /\ \A c \in Nat : c \in Covered(Vectors!AsRanges(v)) <=> c \in Seen(v)
<1> DEFINE r == v.ranges
           f == v.frontier
           head == IF f > 0 THEN <<<<1, f>>>> ELSE <<>>
<1>1. f \in Nat /\ r \in Ranges /\ Apart(r, f + 1)
  BY VersionType
<1>2. Vectors!AsRanges(v) = head \o r
  BY DEF Vectors!AsRanges
<1>3. /\ \A i \in 1 .. Len(r) : 1 <= r[i][1] /\ r[i][1] <= r[i][2]
      /\ \A c \in Nat : c \in Covered(r) => 1 <= c
  <2>1. \A i \in 1 .. Len(r) : r[i][1] \in Nat
    BY <1>1, RangeList
  <2>2. \A i \in 1 .. Len(r) : 1 <= r[i][1] /\ r[i][1] <= r[i][2]
    BY <1>1, <2>1 DEF Apart
  <2> QED BY <2>1, <2>2 DEF Covered, CoveredBy
<1>4. CASE f > 0
  <2> DEFINE range == <<1, f>>
             one == <<range>>
  <2>1. range \in Nat \X Nat /\ range[1] = 1 /\ range[2] = f
    BY <1>1
  <2> HIDE DEF range
  <2>2. one \in Ranges /\ Len(one) = 1 /\ one[1] = range
    BY <2>1 DEF Ranges
  <2> HIDE DEF one
  <2>3. head = one
    BY <1>4 DEF one, range
  <2>4. \A c \in Nat : c \in Covered(one) <=> 1 <= c /\ c <= f
    BY <2>1, <2>2 DEF Covered, CoveredBy
  <2>5. /\ one \o r \in Ranges /\ Len(one \o r) = 1 + Len(r)
        /\ \A i \in 1 .. 1 + Len(r) : (one \o r)[i] = IF i <= 1 THEN one[i] ELSE r[i - 1]
        /\ \A c \in Nat : c \in Covered(one \o r) <=> c \in Covered(one) \/ c \in Covered(r)
    <3>1. /\ one \o r \in Ranges /\ Len(one \o r) = Len(one) + Len(r)
          /\ \A i \in 1 .. Len(one) + Len(r) :
               (one \o r)[i] = IF i <= Len(one) THEN one[i] ELSE r[i - Len(one)]
          /\ \A c \in Nat : c \in Covered(one \o r) <=> c \in Covered(one) \/ c \in Covered(r)
      BY <1>1, <2>2, CoveredByBoth
    <3> QED BY <2>2, <3>1
  <2>6. ASSUME NEW i \in 1 .. 1 + Len(r)
        PROVE  1 <= (one \o r)[i][1] /\ (one \o r)[i][1] <= (one \o r)[i][2]
    <3>1. Len(r) \in Nat
      BY <1>1, RangeList
    <3>2. CASE i = 1
      BY <1>1, <1>4, <2>1, <2>2, <2>5, <3>2
    <3>3. CASE i # 1
      <4>1. i - 1 \in 1 .. Len(r) /\ (one \o r)[i] = r[i - 1]
        BY <2>5, <3>1, <3>3
      <4> QED BY <1>3, <4>1
    <3> QED BY <3>2, <3>3
  <2>7. \A c \in Nat : c \in Covered(one \o r) <=> c \in Seen(v)
    BY <1>3, <2>4, <2>5 DEF Seen
  <2> QED BY <1>2, <2>3, <2>5, <2>6, <2>7
<1>5. CASE f = 0
  <2>1. head = <<>>
    BY <1>5
  <2> HIDE DEF head
  <2>2. head \o r = r
    BY <1>1, <2>1, ConcatEmptySeq DEF Ranges
  <2>3. \A c \in Nat : c \in Covered(r) <=> c \in Seen(v)
    BY <1>3, <1>5 DEF Seen
  <2> QED BY <1>1, <1>2, <1>3, <2>2, <2>3
<1> QED BY <1>1, <1>4, <1>5

\* union: the counters of both, kept as the code keeps them.
LEMMA VersionsUnited ==
  ASSUME NEW v, IsVersion(v), NEW w, IsVersion(w)
  PROVE  /\ IsVersion(Vectors!UnionOf(v, w))
         /\ \A c \in Nat : c \in Seen(Vectors!UnionOf(v, w)) <=> c \in Seen(v) \/ c \in Seen(w)
<1>1. CASE w = Vectors!Default
  <2>1. Vectors!UnionOf(v, w) = v
    BY <1>1 DEF Vectors!UnionOf
  <2>2. \A c \in Nat : c \notin Seen(w)
    <3>1. w.frontier = 0 /\ w.ranges = <<>> /\ Len(w.ranges) = 0
      BY <1>1 DEF Vectors!Default
    <3> QED BY <3>1 DEF Seen, Covered, CoveredBy
  <2> QED BY <2>1, <2>2
<1>2. CASE w # Vectors!Default
  <2> DEFINE a == Vectors!AsRanges(v)
             b == Vectors!AsRanges(w)
             all == a \o b
             sorted == Vectors!SortByStart(all)
             merged == Vectors!MergeRanges(sorted)
             u == Vectors!FromRanges(merged)
  <2>1. Vectors!UnionOf(v, w) = u
    BY <1>2 DEF Vectors!UnionOf
  <2>2. /\ a \in Ranges /\ \A i \in 1 .. Len(a) : 1 <= a[i][1] /\ a[i][1] <= a[i][2]
        /\ \A c \in Nat : c \in Covered(a) <=> c \in Seen(v)
    BY VersionAsRanges
  <2>3. /\ b \in Ranges /\ \A i \in 1 .. Len(b) : 1 <= b[i][1] /\ b[i][1] <= b[i][2]
        /\ \A c \in Nat : c \in Covered(b) <=> c \in Seen(w)
    BY VersionAsRanges
  <2> HIDE DEF a, b
  <2>4. /\ all \in Ranges /\ Len(all) = Len(a) + Len(b)
        /\ \A i \in 1 .. Len(a) + Len(b) : all[i] = IF i <= Len(a) THEN a[i] ELSE b[i - Len(a)]
        /\ \A c \in Nat : c \in Covered(all) <=> c \in Covered(a) \/ c \in Covered(b)
    BY <2>2, <2>3, CoveredByBoth
  <2> HIDE DEF all
  <2>5. \A i \in 1 .. Len(all) : 1 <= all[i][1] /\ all[i][1] <= all[i][2]
    <3> SUFFICES ASSUME NEW i \in 1 .. Len(all) PROVE 1 <= all[i][1] /\ all[i][1] <= all[i][2]
      OBVIOUS
    <3>1. Len(a) \in Nat /\ Len(b) \in Nat
      BY <2>2, <2>3, RangeList
    <3>2. CASE i <= Len(a)
      <4>1. i \in 1 .. Len(a) /\ all[i] = a[i]
        BY <2>4, <3>1, <3>2
      <4> QED BY <2>2, <4>1
    <3>3. CASE i > Len(a)
      <4>1. i - Len(a) \in 1 .. Len(b) /\ all[i] = b[i - Len(a)]
        BY <2>4, <3>1, <3>3
      <4> QED BY <2>3, <4>1
    <3> QED BY <3>1, <3>2, <3>3
  <2>6. /\ sorted \in Ranges /\ ByStart(sorted)
        /\ \A c \in Nat : c \in Covered(sorted) <=> c \in Covered(all)
        /\ \A i \in 1 .. Len(sorted) : \E j \in 1 .. Len(all) : sorted[i] = all[j]
    BY <2>4, Sorting
  <2> HIDE DEF sorted
  <2>7. \A i \in 1 .. Len(sorted) : 1 <= sorted[i][1] /\ sorted[i][1] <= sorted[i][2]
    <3> SUFFICES ASSUME NEW i \in 1 .. Len(sorted)
                 PROVE  1 <= sorted[i][1] /\ sorted[i][1] <= sorted[i][2]
      OBVIOUS
    <3>1. PICK j \in 1 .. Len(all) : sorted[i] = all[j]
      BY <2>6
    <3> QED BY <2>5, <3>1
  <2>8. /\ merged \in Ranges /\ Apart(merged, 0)
        /\ \A c \in Nat : c \in Covered(merged) <=> c \in Covered(sorted)
    BY <2>6, <2>7, Merging
  <2> HIDE DEF merged
  <2>9. IsVersion(u) /\ \A c \in Nat : c \in Seen(u) <=> c \in Covered(merged)
    BY <2>8, VersionFromRanges
  <2> HIDE DEF u
  <2> QED BY <2>1, <2>2, <2>3, <2>4, <2>6, <2>8, <2>9
<1> QED BY <1>1, <1>2

\* merge_with_next: the list is in order but for the gap after idx.
LEMMA MergedWithNext ==
  ASSUME NEW l \in Ranges, NEW idx \in 1 .. Len(l), NEW low \in Nat,
         \A i \in 1 .. Len(l) : low < l[i][1] /\ l[i][1] <= l[i][2],
         \A i \in 1 .. Len(l) : \A j \in 1 .. i - 1 :
           (j = idx /\ i = idx + 1) \/ l[j][2] + 1 < l[i][1],
         idx + 1 <= Len(l) => l[idx][1] <= l[idx + 1][1]
  PROVE  /\ Vectors!MergeWithNext(l, idx) \in Ranges
         /\ Apart(Vectors!MergeWithNext(l, idx), low)
         /\ \A c \in Nat : c \in Covered(Vectors!MergeWithNext(l, idx)) <=> c \in Covered(l)
<1> DEFINE n == Len(l)
           t == Vectors!MergeWithNext(l, idx)
<1>1. /\ n \in Nat /\ \A i \in 1 .. n : l[i][1] \in Nat /\ l[i][2] \in Nat
  BY RangeList
<1>2. CASE ~(idx + 1 <= n /\ l[idx + 1][1] <= l[idx][2] + 1)
  <2>1. t = l
    BY <1>2 DEF Vectors!MergeWithNext
  <2>2. Apart(l, low)
    <3> SUFFICES ASSUME NEW i \in 1 .. n, NEW j \in 1 .. i - 1 PROVE l[j][2] + 1 < l[i][1]
      BY DEF Apart
    <3>1. CASE j = idx /\ i = idx + 1
      BY <1>1, <1>2, <3>1
    <3> QED BY <3>1
  <2> QED BY <2>1, <2>2
<1>3. CASE idx + 1 <= n /\ l[idx + 1][1] <= l[idx][2] + 1
  <2> DEFINE end == Vectors!Max({l[idx][2], l[idx + 1][2]})
             wider == <<l[idx][1], end>>
             m == [l EXCEPT ![idx] = wider]
  <2>1. /\ idx + 1 \in 1 .. n
        /\ end = IF l[idx][2] <= l[idx + 1][2] THEN l[idx + 1][2] ELSE l[idx][2]
    <3>1. idx + 1 \in 1 .. n
      BY <1>1, <1>3
    <3>2. l[idx][2] \in Nat /\ l[idx + 1][2] \in Nat
      BY <1>1, <3>1
    <3> QED BY <3>1, <3>2, MaxOfTwo
  <2>2. t = Vectors!RemoveAt(m, idx + 1)
    BY <1>3 DEF Vectors!MergeWithNext
  <2>3. end \in Nat
    BY <1>1, <2>1
  <2> HIDE DEF end, t
  <2>4. wider \in Nat \X Nat /\ wider[1] = l[idx][1] /\ wider[2] = end
    BY <1>1, <2>3
  <2> HIDE DEF wider
  <2>5. /\ m \in Ranges /\ Len(m) = n
        /\ \A i \in 1 .. n : m[i] = IF i = idx THEN wider ELSE l[i]
    BY <2>4, RangeReplaced
  <2> HIDE DEF m
  <2>6. /\ t \in Ranges /\ Len(t) = n - 1
        /\ \A i \in 1 .. n - 1 : t[i] = IF i < idx + 1 THEN m[i] ELSE m[i + 1]
    <3>1. idx + 1 \in 1 .. Len(m)
      BY <2>1, <2>5
    <3>2. /\ t \in Ranges /\ Len(t) = Len(m) - 1
          /\ \A i \in 1 .. Len(m) - 1 : t[i] = IF i < idx + 1 THEN m[i] ELSE m[i + 1]
      BY <2>2, <2>5, <3>1, RangeRemoved
    <3> QED BY <2>5, <3>2
  <2>7. \A i \in 1 .. n - 1 :
          /\ i < idx => i \in 1 .. n /\ t[i] = l[i]
          /\ i = idx => t[i][1] = l[idx][1] /\ t[i][2] = end
          /\ i > idx => i + 1 \in 1 .. n /\ t[i] = l[i + 1]
    <3> SUFFICES ASSUME NEW i \in 1 .. n - 1
                 PROVE  /\ i < idx => i \in 1 .. n /\ t[i] = l[i]
                        /\ i = idx => t[i][1] = l[idx][1] /\ t[i][2] = end
                        /\ i > idx => i + 1 \in 1 .. n /\ t[i] = l[i + 1]
      OBVIOUS
    <3>1. i \in 1 .. n /\ i + 1 \in 1 .. n
      BY <1>1
    <3>2. CASE i < idx
      BY <2>5, <2>6, <3>1, <3>2
    <3>3. CASE i = idx
      BY <2>4, <2>5, <2>6, <3>1, <3>3
    <3>4. CASE i > idx
      BY <2>5, <2>6, <3>1, <3>4
    <3> QED BY <3>2, <3>3, <3>4
  <2>8. Apart(t, low)
    <3> SUFFICES ASSUME NEW i \in 1 .. n - 1
                 PROVE  /\ low < t[i][1] /\ t[i][1] <= t[i][2]
                        /\ \A j \in 1 .. i - 1 : t[j][2] + 1 < t[i][1]
      BY <2>6 DEF Apart
    <3>1. ASSUME NEW j \in 1 .. i - 1
          PROVE  /\ j \in 1 .. n - 1 /\ j \in 1 .. n /\ j < i
                 /\ j \in 1 .. i + 1 - 1 /\ j + 1 \in 1 .. i + 1 - 1
      BY <1>1
    <3>2. CASE i < idx
      <4>1. t[i] = l[i] /\ i \in 1 .. n
        BY <2>7, <3>2
      <4>2. ASSUME NEW j \in 1 .. i - 1 PROVE t[j][2] + 1 < t[i][1]
        <5>1. t[j] = l[j] /\ ~(j = idx /\ i = idx + 1)
          BY <2>7, <3>1, <3>2
        <5> QED BY <4>1, <5>1
      <4> QED BY <4>1, <4>2
    <3>3. CASE i = idx
      <4>1. t[i][1] = l[idx][1] /\ t[i][2] = end /\ l[idx][2] <= end
        BY <1>1, <2>1, <2>7, <3>3
      <4>2. ASSUME NEW j \in 1 .. i - 1 PROVE t[j][2] + 1 < t[i][1]
        <5>1. t[j] = l[j] /\ ~(j = idx /\ i = idx + 1) /\ j \in 1 .. idx - 1
          BY <2>7, <3>1, <3>3
        <5> QED BY <3>3, <4>1, <5>1
      <4>3. low < l[idx][1] /\ l[idx][1] <= end
        BY <1>1, <2>1, <4>1
      <4> QED BY <4>1, <4>2, <4>3
    <3>4. CASE i > idx
      <4>1. t[i] = l[i + 1] /\ i + 1 \in 1 .. n
        BY <2>7, <3>4
      <4>2. ASSUME NEW j \in 1 .. i - 1 PROVE t[j][2] + 1 < t[i][1]
        <5>1. CASE j < idx
          <6>1. t[j] = l[j]
            BY <2>7, <3>1, <5>1
          <6>2. ~(j = idx /\ i + 1 = idx + 1)
            BY <5>1
          <6> QED BY <3>1, <4>1, <6>1, <6>2
        <5>2. CASE j = idx
          <6>1. t[j][2] = end /\ idx \in 1 .. i + 1 - 1 /\ idx + 1 \in 1 .. i + 1 - 1
            BY <2>7, <3>1, <5>2
          <6>2. l[idx][2] + 1 < l[i + 1][1] /\ l[idx + 1][2] + 1 < l[i + 1][1]
            <7>1. ~(idx = idx /\ i + 1 = idx + 1) /\ ~(idx + 1 = idx /\ i + 1 = idx + 1)
              BY <1>1, <3>4
            <7> QED BY <4>1, <6>1, <7>1
          <6> QED BY <2>1, <4>1, <6>1, <6>2
        <5>3. CASE j > idx
          <6>1. t[j] = l[j + 1] /\ j + 1 # idx
            BY <2>7, <3>1, <5>3
          <6> QED BY <3>1, <4>1, <6>1
        <5> QED BY <3>1, <5>1, <5>2, <5>3
      <4> QED BY <4>1, <4>2
    <3> QED BY <1>1, <3>2, <3>3, <3>4
  <2>9. ASSUME NEW c \in Nat, c \in Covered(t) PROVE c \in Covered(l)
    <3>1. PICK i \in 1 .. n - 1 : t[i][1] <= c /\ c <= t[i][2]
      BY <2>6, <2>9 DEF Covered, CoveredBy
    <3>2. CASE i < idx
      <4>1. t[i] = l[i] /\ i \in 1 .. n
        BY <2>7, <3>2
      <4> QED BY <3>1, <4>1 DEF Covered, CoveredBy
    <3>3. CASE i = idx
      <4>1. l[idx][1] <= c /\ c <= end
        BY <2>7, <3>1, <3>3
      <4>2. CASE c <= l[idx][2]
        BY <4>1, <4>2 DEF Covered, CoveredBy
      <4>3. CASE c > l[idx][2]
        <5>1. l[idx + 1][1] <= c /\ c <= l[idx + 1][2]
          BY <1>1, <1>3, <2>1, <4>1, <4>3
        <5> QED BY <2>1, <5>1 DEF Covered, CoveredBy
      <4> QED BY <1>1, <4>2, <4>3
    <3>4. CASE i > idx
      <4>1. t[i] = l[i + 1] /\ i + 1 \in 1 .. n
        BY <2>7, <3>4
      <4> QED BY <3>1, <4>1 DEF Covered, CoveredBy
    <3> QED BY <1>1, <3>2, <3>3, <3>4
  <2>10. ASSUME NEW c \in Nat, c \in Covered(l) PROVE c \in Covered(t)
    <3>1. PICK i \in 1 .. n : l[i][1] <= c /\ c <= l[i][2]
      BY <2>10 DEF Covered, CoveredBy
    <3>2. CASE i < idx
      <4>1. i \in 1 .. n - 1 /\ t[i] = l[i]
        BY <1>1, <1>3, <2>7, <3>2
      <4> QED BY <2>6, <3>1, <4>1 DEF Covered, CoveredBy
    <3>3. CASE i = idx \/ i = idx + 1
      <4>1. idx \in 1 .. n - 1
        BY <1>1, <1>3
      <4>2. t[idx][1] <= c /\ c <= t[idx][2]
        BY <1>1, <1>3, <2>1, <2>7, <3>1, <3>3, <4>1, SMTT(30)
      <4> QED BY <2>6, <4>1, <4>2 DEF Covered, CoveredBy
    <3>4. CASE i > idx + 1
      <4>1. i - 1 \in 1 .. n - 1 /\ i - 1 > idx
        BY <1>1, <3>4
      <4>2. t[i - 1] = l[i]
        BY <2>7, <4>1
      <4> QED BY <2>6, <3>1, <4>1, <4>2 DEF Covered, CoveredBy
    <3> QED BY <1>1, <3>2, <3>3, <3>4
  <2> QED BY <2>6, <2>8, <2>9, <2>10 DEF t
<1> QED BY <1>2, <1>3

\* A counter beyond low added to ranges beyond low.
LEMMA PointAdded ==
  ASSUME NEW r \in Ranges, NEW low \in Nat, Apart(r, low), NEW c \in Nat, low < c
  PROVE  /\ Vectors!AddPoint(r, c) \in Ranges /\ Apart(Vectors!AddPoint(r, c), low)
         /\ \A d \in Nat : d \in Covered(Vectors!AddPoint(r, c)) <=> d \in Covered(r) \/ d = c
<1> DEFINE n == Len(r)
           S == {i \in 1 .. n + 1 : i = n + 1 \/ r[i][1] >= c}
           next == Vectors!Min(S)
           prev == next - 1
           a == Vectors!AddPoint(r, c)
<1>1. /\ n \in Nat /\ \A i \in 1 .. n : r[i][1] \in Nat /\ r[i][2] \in Nat
  BY RangeList
<1>2. next \in S /\ \A i \in S : next <= i
  <2>1. n + 1 \in S /\ S \in SUBSET Nat
    BY <1>1
  <2> HIDE DEF S
  <2> QED BY <2>1, VectorsLeast
<1>3. /\ next \in 1 .. n + 1 /\ next \in Nat
      /\ next <= n => next \in 1 .. n /\ c <= r[next][1]
      /\ prev > 0 => prev \in 1 .. n /\ r[prev][1] < c
  <2>1. next \in 1 .. n + 1 /\ next \in Nat /\ (next <= n => next \in 1 .. n /\ c <= r[next][1])
    BY <1>1, <1>2
  <2>2. ASSUME prev > 0 PROVE prev \in 1 .. n /\ r[prev][1] < c
    <3>1. prev \in 1 .. n
      BY <1>1, <2>1, <2>2
    <3>2. prev \notin S
      BY <1>2, <2>1
    <3> QED BY <1>1, <3>1, <3>2
  <2> QED BY <2>1, <2>2
<1>4. a = IF prev > 0 /\ c <= r[prev][2]
          THEN r
          ELSE IF prev > 0 /\ c = r[prev][2] + 1
          THEN Vectors!MergeWithNext([r EXCEPT ![prev] = <<r[prev][1], c>>], prev)
          ELSE IF next <= n /\ c + 1 = r[next][1]
          THEN IF prev > 0
               THEN Vectors!MergeWithNext([r EXCEPT ![next] = <<c, r[next][2]>>], prev)
               ELSE [r EXCEPT ![next] = <<c, r[next][2]>>]
          ELSE IF next <= n /\ c \in r[next][1] .. r[next][2]
          THEN r
          ELSE Vectors!InsertAt(r, next, <<c, c>>)
  BY DEF Vectors!AddPoint
<1> HIDE DEF next, a
<1>5. CASE prev > 0 /\ c <= r[prev][2]
  <2>1. a = r /\ c \in Covered(r)
    BY <1>1, <1>3, <1>4, <1>5 DEF Covered, CoveredBy
  <2> QED BY <2>1 DEF a
<1>6. CASE prev > 0 /\ c = r[prev][2] + 1
  <2> DEFINE wider == <<r[prev][1], c>>
             l == [r EXCEPT ![prev] = wider]
  <2>1. prev \in 1 .. n /\ wider \in Nat \X Nat /\ wider[1] = r[prev][1] /\ wider[2] = c
    BY <1>1, <1>3, <1>6
  <2>2. a = Vectors!MergeWithNext(l, prev)
    <3>1. ~(c <= r[prev][2])
      BY <1>1, <1>6, <2>1
    <3> QED BY <1>4, <1>6, <3>1
  <2> HIDE DEF wider
  <2>3. /\ l \in Ranges /\ Len(l) = n
        /\ \A i \in 1 .. n : l[i] = IF i = prev THEN wider ELSE r[i]
    BY <2>1, RangeReplaced
  <2> HIDE DEF l
  <2>4. \A i \in 1 .. n : l[i][1] = r[i][1] /\ l[i][2] = IF i = prev THEN c ELSE r[i][2]
    BY <2>1, <2>3
  <2>5. \A i \in 1 .. n : low < l[i][1] /\ l[i][1] <= l[i][2]
    BY <1>1, <1>3, <1>6, <2>4, SMTT(30) DEF Apart
  <2>6. ASSUME NEW i \in 1 .. n, NEW j \in 1 .. i - 1
        PROVE  (j = prev /\ i = prev + 1) \/ l[j][2] + 1 < l[i][1]
    <3>1. j \in 1 .. n
      BY <1>1
    <3>2. CASE j # prev
      BY <2>4, <3>1, <3>2 DEF Apart
    <3>3. CASE j = prev /\ i # prev + 1
      <4>1. next \in 1 .. i - 1 /\ next \in 1 .. n /\ next <= n
        BY <1>1, <1>3, <2>1, <3>3
      <4>2. c <= r[next][1] /\ r[next][1] <= r[next][2] /\ r[next][2] + 1 < r[i][1]
        BY <1>3, <4>1 DEF Apart
      <4>3. l[j][2] = c /\ l[i][1] = r[i][1]
        BY <2>4, <3>1, <3>3
      <4>4. r[next][1] \in Nat /\ r[next][2] \in Nat /\ r[i][1] \in Nat
        BY <1>1, <4>1
      <4>5. c + 1 < r[i][1]
        BY <4>2, <4>4, GapFollows
      <4> QED BY <4>3, <4>5
    <3> QED BY <3>2, <3>3
  <2>7. prev + 1 <= n => l[prev][1] <= l[prev + 1][1]
    <3> SUFFICES ASSUME prev + 1 <= n PROVE l[prev][1] <= l[prev + 1][1]
      OBVIOUS
    <3>1. prev + 1 = next /\ next \in 1 .. n /\ c <= r[next][1]
      BY <1>3
    <3> QED BY <1>1, <1>3, <1>6, <2>1, <2>4, <3>1, SMTT(30)
  <2>8. prev \in 1 .. Len(l)
    BY <2>1, <2>3
  <2> HIDE DEF prev
  <2>9. /\ a \in Ranges /\ Apart(a, low)
        /\ \A d \in Nat : d \in Covered(a) <=> d \in Covered(l)
    BY <2>2, <2>3, <2>5, <2>6, <2>7, <2>8, MergedWithNext
  <2>10. ASSUME NEW d \in Nat PROVE d \in Covered(l) <=> d \in Covered(r) \/ d = c
    <3>1. ASSUME d \in Covered(l), d # c PROVE d \in Covered(r)
      <4>1. PICK i \in 1 .. n : l[i][1] <= d /\ d <= l[i][2]
        BY <2>3, <3>1 DEF Covered, CoveredBy
      <4>2. r[i][1] <= d /\ d <= r[i][2]
        BY <1>1, <1>6, <2>4, <3>1, <4>1, SMTT(30)
      <4> QED BY <4>2 DEF Covered, CoveredBy
    <3>2. ASSUME d \in Covered(r) PROVE d \in Covered(l)
      <4>1. PICK i \in 1 .. n : r[i][1] <= d /\ d <= r[i][2]
        BY <3>2 DEF Covered, CoveredBy
      <4>2. l[i][1] <= d /\ d <= l[i][2]
        <5>1. CASE i = prev
          BY <1>1, <1>6, <2>4, <4>1, <5>1
        <5>2. CASE i # prev
          BY <2>4, <4>1, <5>2
        <5> QED BY <5>1, <5>2
      <4> QED BY <2>3, <4>2 DEF Covered, CoveredBy
    <3>3. c \in Covered(l)
      <4>1. l[prev][1] <= c /\ c <= l[prev][2]
        BY <1>1, <1>3, <1>6, <2>1, <2>4 DEF prev
      <4> QED BY <2>8, <4>1 DEF Covered, CoveredBy
    <3> QED BY <3>1, <3>2, <3>3
  <2> QED BY <2>9, <2>10 DEF a
<1>7. CASE ~(prev > 0 /\ c <= r[prev][2] + 1) /\ next <= n /\ c + 1 = r[next][1]
  <2> DEFINE wider == <<c, r[next][2]>>
             l == [r EXCEPT ![next] = wider]
  <2>1. next \in 1 .. n /\ wider \in Nat \X Nat /\ wider[1] = c /\ wider[2] = r[next][2]
    BY <1>1, <1>3, <1>7
  <2>2. a = IF prev > 0 THEN Vectors!MergeWithNext(l, prev) ELSE l
    <3>1. ~(prev > 0 /\ c <= r[prev][2]) /\ ~(prev > 0 /\ c = r[prev][2] + 1)
      BY <1>1, <1>3, <1>7
    <3> QED BY <1>4, <1>7, <3>1
  <2> HIDE DEF wider
  <2>3. /\ l \in Ranges /\ Len(l) = n
        /\ \A i \in 1 .. n : l[i] = IF i = next THEN wider ELSE r[i]
    BY <2>1, RangeReplaced
  <2> HIDE DEF l
  <2>4. \A i \in 1 .. n : l[i][2] = r[i][2] /\ l[i][1] = IF i = next THEN c ELSE r[i][1]
    BY <2>1, <2>3
  <2>5. Apart(l, low)
    <3> SUFFICES ASSUME NEW i \in 1 .. n
                 PROVE  /\ low < l[i][1] /\ l[i][1] <= l[i][2]
                        /\ \A j \in 1 .. i - 1 : l[j][2] + 1 < l[i][1]
      BY <2>3 DEF Apart
    <3>1. low < l[i][1] /\ l[i][1] <= l[i][2]
      <4>1. low < r[i][1] /\ r[i][1] <= r[i][2] /\ l[i][2] = r[i][2]
        BY <2>4 DEF Apart
      <4>2. CASE i = next
        BY <1>1, <1>7, <2>4, <4>1, <4>2
      <4>3. CASE i # next
        BY <2>4, <4>1, <4>3
      <4> QED BY <4>2, <4>3
    <3>2. ASSUME NEW j \in 1 .. i - 1 PROVE l[j][2] + 1 < l[i][1]
      <4>1. j \in 1 .. n
        BY <1>1
      <4>2. CASE i # next
        BY <2>4, <4>1, <4>2 DEF Apart
      <4>3. CASE i = next
        <5>1. prev > 0 /\ prev \in 1 .. n /\ r[prev][2] + 1 < c /\ j <= prev
          BY <1>1, <1>3, <1>7, <4>3
        <5>2. CASE j = prev
          BY <2>4, <4>1, <4>3, <5>1, <5>2
        <5>3. CASE j # prev
          <6>1. j \in 1 .. prev - 1
            BY <5>1, <5>3
          <6>2. r[j][2] + 1 < r[prev][1] /\ r[prev][1] <= r[prev][2]
            BY <5>1, <6>1 DEF Apart
          <6>3. l[j][2] = r[j][2] /\ l[i][1] = c
            BY <2>4, <4>1, <4>3
          <6>4. /\ r[j][2] \in Nat /\ r[prev][1] \in Nat /\ r[prev][2] \in Nat
            BY <1>1, <4>1, <5>1
          <6>5. r[prev][2] + 1 < c
            BY <5>1
          <6>6. r[j][2] + 1 < c
            <7> HIDE DEF prev
            <7> QED BY <6>2, <6>4, <6>5, SMTT(30)
          <6> QED BY <6>3, <6>6
        <5> QED BY <5>2, <5>3
      <4> QED BY <4>2, <4>3
    <3> QED BY <3>1, <3>2
  <2>6. /\ a \in Ranges /\ Apart(a, low)
        /\ \A d \in Nat : d \in Covered(a) <=> d \in Covered(l)
    <3>1. CASE prev > 0
      <4>1. prev \in 1 .. Len(l) /\ Len(l) \in Nat
        BY <1>1, <1>3, <2>3, <3>1
      <4>2. \A i \in 1 .. Len(l) : low < l[i][1] /\ l[i][1] <= l[i][2]
        BY <2>5 DEF Apart
      <4>3. \A i \in 1 .. Len(l) : \A j \in 1 .. i - 1 :
              (j = prev /\ i = prev + 1) \/ l[j][2] + 1 < l[i][1]
        BY <2>5 DEF Apart
      <4>4. prev + 1 <= Len(l) => l[prev][1] <= l[prev + 1][1]
        <5>1. ASSUME prev + 1 <= Len(l) PROVE prev + 1 \in 1 .. Len(l) /\ prev \in 1 .. prev + 1 - 1
          BY <4>1, <5>1
        <5>2. \A i \in 1 .. Len(l) : l[i][1] \in Nat /\ l[i][2] \in Nat
          BY <2>3, RangeList
        <5> QED BY <4>1, <4>2, <5>1, <5>2, <2>5, SMTT(30) DEF Apart
      <4>5. a = Vectors!MergeWithNext(l, prev)
        BY <2>2, <3>1
      <4> HIDE DEF prev
      <4> QED BY <2>3, <4>1, <4>2, <4>3, <4>4, <4>5, MergedWithNext
    <3>2. CASE ~(prev > 0)
      BY <2>2, <2>3, <2>5, <3>2
    <3> QED BY <3>1, <3>2
  <2>7. ASSUME NEW d \in Nat PROVE d \in Covered(l) <=> d \in Covered(r) \/ d = c
    <3>1. ASSUME d \in Covered(l), d # c PROVE d \in Covered(r)
      <4>1. PICK i \in 1 .. n : l[i][1] <= d /\ d <= l[i][2]
        BY <2>3, <3>1 DEF Covered, CoveredBy
      <4>2. r[i][1] <= d /\ d <= r[i][2]
        BY <1>1, <1>7, <2>4, <3>1, <4>1, SMTT(30)
      <4> QED BY <4>2 DEF Covered, CoveredBy
    <3>2. ASSUME d \in Covered(r) PROVE d \in Covered(l)
      <4>1. PICK i \in 1 .. n : r[i][1] <= d /\ d <= r[i][2]
        BY <3>2 DEF Covered, CoveredBy
      <4>2. l[i][1] <= d /\ d <= l[i][2]
        BY <1>1, <1>7, <2>4, <4>1, SMTT(30)
      <4> QED BY <2>3, <4>2 DEF Covered, CoveredBy
    <3>3. c \in Covered(l)
      <4>1. l[next][1] <= c /\ c <= l[next][2]
        <5>1. r[next][1] <= r[next][2]
          BY <2>1 DEF Apart
        <5> QED BY <1>1, <1>7, <2>1, <2>4, <5>1
      <4> QED BY <2>1, <2>3, <4>1 DEF Covered, CoveredBy
    <3> QED BY <3>1, <3>2, <3>3
  <2> QED BY <2>6, <2>7 DEF a
<1>8. CASE /\ ~(prev > 0 /\ c <= r[prev][2] + 1) /\ ~(next <= n /\ c + 1 = r[next][1])
           /\ next <= n /\ c \in r[next][1] .. r[next][2]
  <2>1. a = r
    <3>1. ~(prev > 0 /\ c <= r[prev][2]) /\ ~(prev > 0 /\ c = r[prev][2] + 1)
      BY <1>1, <1>3, <1>8
    <3> QED BY <1>4, <1>8, <3>1
  <2>2. c \in Covered(r)
    BY <1>1, <1>3, <1>8 DEF Covered, CoveredBy
  <2> QED BY <2>1, <2>2 DEF a
<1>9. CASE /\ ~(prev > 0 /\ c <= r[prev][2] + 1) /\ ~(next <= n /\ c + 1 = r[next][1])
           /\ ~(next <= n /\ c \in r[next][1] .. r[next][2])
  <2> DEFINE point == <<c, c>>
  <2>1. point \in Pair /\ point[1] = c /\ point[2] = c
    BY DEF Pair
  <2>2. a = Vectors!InsertAt(r, next, point)
    <3>1. ~(prev > 0 /\ c <= r[prev][2]) /\ ~(prev > 0 /\ c = r[prev][2] + 1)
      BY <1>1, <1>3, <1>9
    <3> QED BY <1>4, <1>9, <3>1
  <2> HIDE DEF point
  <2>3. /\ a \in Ranges /\ Len(a) = n + 1
        /\ \A i \in 1 .. n + 1 :
             a[i] = IF i < next THEN r[i] ELSE IF i = next THEN point ELSE r[i - 1]
    BY <1>3, <2>1, <2>2, RangeInserted, SMTT(60)
  <2>4. \A i \in 1 .. n + 1 :
          /\ i < next => i \in 1 .. n /\ a[i] = r[i]
          /\ i = next => a[i][1] = c /\ a[i][2] = c
          /\ i > next => i - 1 \in 1 .. n /\ i - 1 >= next /\ a[i] = r[i - 1]
    <3> SUFFICES ASSUME NEW i \in 1 .. n + 1
                 PROVE  /\ i < next => i \in 1 .. n /\ a[i] = r[i]
                        /\ i = next => a[i][1] = c /\ a[i][2] = c
                        /\ i > next => i - 1 \in 1 .. n /\ i - 1 >= next /\ a[i] = r[i - 1]
      OBVIOUS
    <3>1. CASE i < next
      BY <1>1, <1>3, <2>3, <3>1
    <3>2. CASE i = next
      BY <2>1, <2>3, <3>2
    <3>3. CASE i > next
      BY <1>1, <1>3, <2>3, <3>3
    <3> QED BY <3>1, <3>2, <3>3
  <2>5. \A i \in 1 .. n : i < next => r[i][2] + 1 < c
    <3> SUFFICES ASSUME NEW i \in 1 .. n, i < next PROVE r[i][2] + 1 < c
      OBVIOUS
    <3>1. prev > 0 /\ prev \in 1 .. n /\ r[prev][2] + 1 < c
      BY <1>1, <1>3, <1>9, SMTT(30)
    <3>2. CASE i # prev
      <4>1. i \in 1 .. prev - 1
        BY <1>3, <3>1, <3>2
      <4>2. r[i][2] + 1 < r[prev][1] /\ r[prev][1] <= r[prev][2]
        BY <3>1, <4>1 DEF Apart
      <4> QED BY <1>1, <3>1, <4>2, SMTT(30)
    <3> QED BY <3>1, <3>2
  <2>6. \A i \in 1 .. n : i >= next => c + 1 < r[i][1]
    <3> SUFFICES ASSUME NEW i \in 1 .. n, i >= next PROVE c + 1 < r[i][1]
      OBVIOUS
    <3>1. next \in 1 .. n /\ c <= r[next][1] /\ r[next][1] <= r[next][2]
      BY <1>1, <1>3 DEF Apart
    <3>2. c + 1 < r[next][1]
      BY <1>1, <1>9, <3>1
    <3>3. CASE i # next
      <4>1. next \in 1 .. i - 1
        BY <1>3, <3>1, <3>3
      <4>2. r[next][2] + 1 < r[i][1]
        BY <4>1 DEF Apart
      <4> QED BY <1>1, <3>1, <3>2, <4>2
    <3> QED BY <3>2, <3>3
  <2>7. Apart(a, low)
    <3> SUFFICES ASSUME NEW i \in 1 .. n + 1
                 PROVE  /\ low < a[i][1] /\ a[i][1] <= a[i][2]
                        /\ \A j \in 1 .. i - 1 : a[j][2] + 1 < a[i][1]
      BY <2>3 DEF Apart
    <3>1. CASE i < next
      <4>1. i \in 1 .. n /\ a[i] = r[i] /\ \A j \in 1 .. i - 1 : a[j] = r[j]
        BY <1>1, <1>3, <2>4, <3>1
      <4> QED BY <4>1 DEF Apart
    <3>2. CASE i = next
      <4>1. \A j \in 1 .. i - 1 : j \in 1 .. n /\ j < next /\ a[j] = r[j]
        BY <1>1, <1>3, <2>4, <3>2
      <4> QED BY <2>4, <2>5, <3>2, <4>1
    <3>3. CASE i > next
      <4>1. i - 1 \in 1 .. n /\ i - 1 >= next /\ a[i] = r[i - 1]
        BY <2>4, <3>3
      <4>2. low < a[i][1] /\ a[i][1] <= a[i][2]
        BY <4>1 DEF Apart
      <4>3. ASSUME NEW j \in 1 .. i - 1 PROVE a[j][2] + 1 < a[i][1]
        <5>1. j \in 1 .. n + 1 /\ j < i
          BY <1>1
        <5>2. CASE j < next
          <6>1. a[j] = r[j] /\ j \in 1 .. i - 1 - 1
            BY <1>1, <1>3, <2>4, <3>3, <5>1, <5>2
          <6> QED BY <4>1, <6>1 DEF Apart
        <5>3. CASE j = next
          BY <2>4, <2>6, <4>1, <5>1, <5>3
        <5>4. CASE j > next
          <6>1. a[j] = r[j - 1] /\ j - 1 \in 1 .. i - 1 - 1
            BY <1>3, <2>4, <3>3, <5>1, <5>4
          <6> QED BY <4>1, <6>1 DEF Apart
        <5> QED BY <1>3, <5>1, <5>2, <5>3, <5>4
      <4> QED BY <4>2, <4>3
    <3> QED BY <1>3, <3>1, <3>2, <3>3
  <2>8. ASSUME NEW d \in Nat PROVE d \in Covered(a) <=> d \in Covered(r) \/ d = c
    <3>1. ASSUME d \in Covered(a), d # c PROVE d \in Covered(r)
      <4>1. PICK i \in 1 .. n + 1 : a[i][1] <= d /\ d <= a[i][2]
        BY <2>3, <3>1 DEF Covered, CoveredBy
      <4>2. i # next
        BY <2>4, <3>1, <4>1
      <4>3. CASE i < next
        <5>1. i \in 1 .. n /\ a[i] = r[i]
          BY <2>4, <4>3
        <5> QED BY <4>1, <5>1 DEF Covered, CoveredBy
      <4>4. CASE i > next
        <5>1. i - 1 \in 1 .. n /\ a[i] = r[i - 1]
          BY <2>4, <4>4
        <5> QED BY <4>1, <5>1 DEF Covered, CoveredBy
      <4> QED BY <1>3, <4>2, <4>3, <4>4
    <3>2. ASSUME d \in Covered(r) PROVE d \in Covered(a)
      <4>1. PICK i \in 1 .. n : r[i][1] <= d /\ d <= r[i][2]
        BY <3>2 DEF Covered, CoveredBy
      <4>2. CASE i < next
        <5>1. i \in 1 .. n + 1 /\ a[i] = r[i]
          BY <1>1, <2>4, <4>2
        <5> QED BY <2>3, <4>1, <5>1 DEF Covered, CoveredBy
      <4>3. CASE i >= next
        <5>1. i + 1 \in 1 .. n + 1 /\ i + 1 > next /\ i + 1 - 1 = i
          BY <1>1, <1>3, <4>3
        <5>2. a[i + 1] = r[i]
          BY <2>4, <5>1
        <5> QED BY <2>3, <4>1, <5>1, <5>2 DEF Covered, CoveredBy
      <4> QED BY <1>3, <4>2, <4>3
    <3>3. c \in Covered(a)
      <4>1. a[next][1] <= c /\ c <= a[next][2]
        BY <1>3, <2>4
      <4> QED BY <1>3, <2>3, <4>1 DEF Covered, CoveredBy
    <3> QED BY <3>1, <3>2, <3>3
  <2> QED BY <2>3, <2>7, <2>8 DEF a
<1>10. (prev > 0 /\ c <= r[prev][2] + 1) <=>
         (prev > 0 /\ c <= r[prev][2]) \/ (prev > 0 /\ c = r[prev][2] + 1)
  <2>1. prev > 0 => r[prev][2] \in Nat
    BY <1>1, <1>3
  <2> HIDE DEF prev
  <2> QED BY <2>1
<1> QED BY <1>5, <1>6, <1>7, <1>8, <1>9, <1>10

\* observe: the counter is added, and kept as the code keeps it.
LEMMA CounterObserved ==
  ASSUME NEW v, IsVersion(v), NEW c \in Nat
  PROVE  /\ IsVersion(Vectors!ObserveCounter(v, c))
         /\ \A d \in Nat : d \in Seen(Vectors!ObserveCounter(v, c)) <=>
              d \in Seen(v) \/ (d = c /\ 1 <= c)
<1> DEFINE f == v.frontier
           r == v.ranges
<1>1. /\ f \in Nat /\ r \in Ranges /\ Apart(r, f + 1)
      /\ v = [frontier |-> f, ranges |-> r]
  BY VersionType
<1>2. CASE c <= f
  BY <1>2 DEF Vectors!ObserveCounter, Seen
<1>3. CASE c = f + 1
  <2> DEFINE w == [frontier |-> c, ranges |-> r]
  <2>1. [v EXCEPT !.frontier = c] = w
    BY <1>1
  <2>2. Vectors!ObserveCounter(v, c) = Vectors!AbsorbFrontierRanges(w)
    BY <1>1, <1>3, <2>1 DEF Vectors!ObserveCounter
  <2>3. w \in Versions /\ w.frontier = c /\ w.ranges = r
    BY <1>1 DEF Versions
  <2> HIDE DEF w
  <2>4. Apart(w.ranges, w.frontier)
    BY <1>1, <1>3, <2>3
  <2>5. /\ IsVersion(Vectors!AbsorbFrontierRanges(w))
        /\ \A d \in Nat : d \in Seen(Vectors!AbsorbFrontierRanges(w)) <=> d \in Seen(w)
    BY <2>3, <2>4, Absorbed
  <2>6. \A d \in Nat : d \in Seen(w) <=> d \in Seen(v) \/ (d = c /\ 1 <= c)
    BY <1>1, <1>3, <2>3 DEF Seen
  <2> QED BY <2>2, <2>5, <2>6
<1>4. CASE c > f + 1
  <2> DEFINE a == Vectors!AddPoint(r, c)
             w == [frontier |-> f, ranges |-> a]
  <2>1. [v EXCEPT !.ranges = a] = w
    BY <1>1
  <2>2. Vectors!ObserveCounter(v, c) = w
    BY <1>1, <1>4, <2>1 DEF Vectors!ObserveCounter
  <2>3. /\ a \in Ranges /\ Apart(a, f + 1)
        /\ \A d \in Nat : d \in Covered(a) <=> d \in Covered(r) \/ d = c
    BY <1>1, <1>4, PointAdded
  <2> HIDE DEF a
  <2>4. w \in Versions /\ w.frontier = f /\ w.ranges = a
    BY <1>1, <2>3 DEF Versions
  <2> HIDE DEF w
  <2>5. IsVersion(w)
    BY <2>3, <2>4 DEF IsVersion
  <2>6. \A d \in Nat : d \in Seen(w) <=> d \in Seen(v) \/ (d = c /\ 1 <= c)
    BY <1>1, <1>4, <2>3, <2>4 DEF Seen
  <2> QED BY <2>2, <2>5, <2>6
<1> QED BY <1>1, <1>2, <1>3, <1>4

\* What the frontier and the ranges say.
LEMMA FrontierIsGap ==
  ASSUME NEW v, IsVersion(v)
  PROVE  /\ \A c \in 1 .. v.frontier : c \in Seen(v)
         /\ v.frontier + 1 \notin Seen(v)
         /\ \A c \in Nat : c \in Covered(v.ranges) => c > v.frontier + 1
<1>1. /\ v.frontier \in Nat /\ v.ranges \in Ranges /\ Apart(v.ranges, v.frontier + 1)
  BY VersionType
<1>2. \A i \in 1 .. Len(v.ranges) : v.ranges[i][1] \in Nat /\ v.ranges[i][2] \in Nat
  BY <1>1, RangeList
<1>3. \A c \in Nat : c \in Covered(v.ranges) => c > v.frontier + 1
  BY <1>1, <1>2 DEF Covered, CoveredBy, Apart
<1>4. v.frontier + 1 \notin Seen(v)
  BY <1>1, <1>3 DEF Seen
<1>5. \A c \in 1 .. v.frontier : c \in Seen(v)
  BY <1>1 DEF Seen
<1> QED BY <1>3, <1>4, <1>5

\* is_superset_of compares what the versions stand for.
LEMMA SupersetOfSeen ==
  ASSUME NEW v, IsVersion(v), NEW w, IsVersion(w)
  PROVE  Vectors!IsSupersetOf(v, w) <=> \A c \in Nat : c \in Seen(w) => c \in Seen(v)
<1> DEFINE r == v.ranges
           s == w.ranges
           Includes(i) == Vectors!ContainsRange(v, s[i][1], s[i][2])
<1>1. /\ v.frontier \in Nat /\ r \in Ranges /\ Apart(r, v.frontier + 1)
      /\ w.frontier \in Nat /\ s \in Ranges /\ Apart(s, w.frontier + 1)
  BY VersionType
<1>2. /\ \A i \in 1 .. Len(r) : r[i][1] \in Nat /\ r[i][2] \in Nat
      /\ \A i \in 1 .. Len(s) : s[i][1] \in Nat /\ s[i][2] \in Nat
      /\ Len(r) \in Nat /\ Len(s) \in Nat
  BY <1>1, RangeList
<1>3. Vectors!IsSupersetOf(v, w) <=>
        v.frontier >= w.frontier /\ \A i \in 1 .. Len(s) : Includes(i)
  BY DEF Vectors!IsSupersetOf
<1>4. ASSUME v.frontier >= w.frontier, \A i \in 1 .. Len(s) : Includes(i),
             NEW c \in Nat, c \in Seen(w)
      PROVE  c \in Seen(v)
  <2>1. CASE c <= w.frontier
    BY <1>1, <1>4, <2>1 DEF Seen
  <2>2. CASE c \in Covered(s)
    <3>1. PICK i \in 1 .. Len(s) : s[i][1] <= c /\ c <= s[i][2]
      BY <2>2 DEF Covered, CoveredBy
    <3>2. Includes(i)
      BY <1>4
    <3>3. CASE s[i][2] <= v.frontier
      BY <1>1, <1>2, <1>4, <3>1, <3>3 DEF Seen
    <3>4. CASE \E k \in 1 .. Len(r) : r[k][1] <= s[i][1] /\ r[k][2] >= s[i][2]
      <4>1. PICK k \in 1 .. Len(r) : r[k][1] <= s[i][1] /\ r[k][2] >= s[i][2]
        BY <3>4
      <4>2. r[k][1] <= c /\ c <= r[k][2]
        BY <1>2, <3>1, <4>1, SMTT(30)
      <4> QED BY <1>4, <4>2 DEF Seen, Covered, CoveredBy
    <3> QED BY <3>2, <3>3, <3>4 DEF Vectors!ContainsRange
  <2> QED BY <1>4, <2>1, <2>2 DEF Seen
<1>5. ASSUME \A c \in Nat : c \in Seen(w) => c \in Seen(v)
      PROVE  v.frontier >= w.frontier
  <2> SUFFICES ASSUME v.frontier < w.frontier PROVE FALSE
    BY <1>1
  <2>1. v.frontier + 1 \in 1 .. w.frontier
    BY <1>1
  <2>2. v.frontier + 1 \in Seen(w)
    BY <2>1, FrontierIsGap
  <2>3. v.frontier + 1 \notin Seen(v)
    BY FrontierIsGap
  <2> QED BY <1>1, <1>5, <2>2, <2>3
<1>6. ASSUME \A c \in Nat : c \in Seen(w) => c \in Seen(v), NEW i \in 1 .. Len(s)
      PROVE  Includes(i)
  <2> DEFINE first == s[i][1]
             last == s[i][2]
  <2>1. first \in Nat /\ last \in Nat /\ 1 <= first /\ first <= last
    BY <1>1, <1>2 DEF Apart
  <2>2. \A c \in first .. last : c \in Nat /\ c \in Seen(v)
    <3> SUFFICES ASSUME NEW c \in first .. last PROVE c \in Nat /\ c \in Seen(v)
      OBVIOUS
    <3>1. c \in Nat /\ 1 <= c /\ s[i][1] <= c /\ c <= s[i][2]
      BY <2>1
    <3>2. c \in Seen(w)
      BY <3>1 DEF Seen, Covered, CoveredBy
    <3> QED BY <1>6, <3>1, <3>2
  <2> HIDE DEF first, last
  <2>3. Includes(i) <=> Vectors!ContainsRange(v, first, last)
    BY DEF first, last
  <2>4. CASE last <= v.frontier
    BY <2>1, <2>3, <2>4 DEF Vectors!ContainsRange
  <2>5. CASE last > v.frontier
    <3>1. first > v.frontier
      <4> SUFFICES ASSUME first <= v.frontier PROVE FALSE
        BY <1>1, <2>1
      <4>1. v.frontier + 1 \in first .. last
        BY <1>1, <2>1, <2>5
      <4>2. v.frontier + 1 \notin Seen(v)
        BY FrontierIsGap
      <4> QED BY <2>2, <4>1, <4>2
    <3>2. first \in Covered(r)
      <4>1. first \in Seen(v)
        BY <2>1, <2>2
      <4> QED BY <1>1, <2>1, <3>1, <4>1 DEF Seen
    <3>3. PICK k \in 1 .. Len(r) : r[k][1] <= first /\ first <= r[k][2]
      BY <3>2 DEF Covered, CoveredBy
    <3>4. r[k][2] >= last
      <4> SUFFICES ASSUME r[k][2] < last PROVE FALSE
        BY <1>2, <2>1
      <4> DEFINE c == r[k][2] + 1
      <4>1. c \in first .. last /\ c \in Nat /\ c > v.frontier
        <5>1. r[k][2] \in Nat /\ first <= r[k][2] /\ r[k][2] < last
          BY <1>2, <3>3
        <5> DEFINE e == r[k][2]
        <5>2. e \in Nat /\ first <= e /\ e < last /\ v.frontier \in Nat
          BY <1>1, <5>1
        <5> HIDE DEF e
        <5>3. e + 1 \in first .. last /\ e + 1 \in Nat /\ e + 1 > v.frontier
          BY <2>1, <3>1, <5>2
        <5> QED BY <5>3 DEF e
      <4>2. c \in Covered(r)
        <5>1. c \in Seen(v)
          BY <2>2, <4>1
        <5> HIDE DEF c
        <5> QED BY <1>1, <4>1, <5>1 DEF Seen
      <4>3. PICK j \in 1 .. Len(r) : r[j][1] <= c /\ c <= r[j][2]
        BY <4>2 DEF Covered, CoveredBy
      <4>4. CASE j = k
        BY <1>2, <4>3, <4>4
      <4>5. CASE j < k
        <5>1. j \in 1 .. k - 1
          BY <1>2, <4>5
        <5>2. r[j][2] + 1 < r[k][1] /\ r[k][1] <= r[k][2]
          BY <1>1, <5>1 DEF Apart
        <5> QED BY <1>2, <4>3, <5>2
      <4>6. CASE j > k
        <5>1. k \in 1 .. j - 1
          BY <1>2, <4>6
        <5>2. r[k][2] + 1 < r[j][1]
          BY <1>1, <5>1 DEF Apart
        <5> QED BY <1>2, <4>3, <5>2
      <4> QED BY <1>2, <4>4, <4>5, <4>6
    <3>5. \A j \in 1 .. k : r[j][1] <= first
      <4> SUFFICES ASSUME NEW j \in 1 .. k, j # k PROVE r[j][1] <= first
        BY <3>3
      <4>1. j \in 1 .. k - 1 /\ j \in 1 .. Len(r)
        BY <1>2
      <4>2. r[j][2] + 1 < r[k][1] /\ r[j][1] <= r[j][2]
        BY <1>1, <4>1 DEF Apart
      <4> QED BY <1>2, <2>1, <3>3, <4>1, <4>2, SMTT(30)
    <3> QED BY <2>1, <2>3, <3>1, <3>3, <3>4, <3>5 DEF Vectors!ContainsRange
  <2> QED BY <1>1, <2>1, <2>4, <2>5
<1> QED BY <1>3, <1>4, <1>5, <1>6

\* get: the largest counter.
LEMMA LargestSeen ==
  ASSUME NEW v, IsVersion(v)
  PROVE  LET m == Vectors!MaxSeenOf(v)
         IN m \in Nat /\ (m = 0 \/ m \in Seen(v)) /\ \A c \in Seen(v) : c <= m
<1> DEFINE r == v.ranges
           n == Len(r)
           m == Vectors!MaxSeenOf(v)
<1>1. v.frontier \in Nat /\ r \in Ranges /\ Apart(r, v.frontier + 1)
  BY VersionType
<1>2. /\ \A i \in 1 .. n : r[i][1] \in Nat /\ r[i][2] \in Nat
      /\ n \in Nat /\ r # <<>> <=> n > 0
  BY <1>1, RangeList
<1>3. CASE r = <<>>
  <2>1. m = v.frontier /\ n = 0
    BY <1>2, <1>3 DEF Vectors!MaxSeenOf
  <2> QED BY <1>1, <2>1 DEF Seen, Covered, CoveredBy
<1>4. CASE r # <<>>
  <2>1. n \in 1 .. n
    BY <1>2, <1>4
  <2>2. v.frontier + 1 < r[n][1] /\ r[n][1] <= r[n][2]
    BY <1>1, <2>1 DEF Apart
  <2>3. m = r[n][2]
    <3>1. m = Vectors!Max({r[n][2], v.frontier})
      BY <1>4 DEF Vectors!MaxSeenOf, Vectors!Last
    <3>2. r[n][2] \in Nat
      BY <1>2, <2>1
    <3>3. m = IF r[n][2] <= v.frontier THEN v.frontier ELSE r[n][2]
      BY <1>1, <3>1, <3>2, MaxOfTwo
    <3>4. ~(r[n][2] <= v.frontier)
      BY <1>1, <1>2, <2>1, <2>2
    <3> QED BY <3>3, <3>4
  <2>4. m \in Nat /\ m \in Seen(v)
    BY <1>1, <1>2, <2>1, <2>2, <2>3 DEF Seen, Covered, CoveredBy
  <2>5. ASSUME NEW c \in Seen(v) PROVE c <= m
    <3>1. CASE c <= v.frontier
      BY <1>1, <1>2, <2>1, <2>2, <2>3, <3>1 DEF Seen
    <3>2. CASE c \in Covered(r)
      <4>1. PICK i \in 1 .. n : r[i][1] <= c /\ c <= r[i][2] /\ c \in Nat
        BY <3>2 DEF Covered, CoveredBy
      <4>2. CASE i # n
        <5>1. i \in 1 .. n - 1
          BY <1>2, <4>2
        <5>2. r[i][2] + 1 < r[n][1]
          BY <1>1, <2>1, <5>1 DEF Apart
        <5> QED BY <1>2, <2>1, <2>2, <2>3, <4>1, <5>2, SMTT(30)
      <4> QED BY <2>3, <4>1, <4>2
    <3> QED BY <2>5, <3>1, <3>2 DEF Seen
  <2> QED BY <2>4, <2>5
<1> QED BY <1>3, <1>4

\* A version vector: what it stands for is within the bound of counters.
IsVector(vv) ==
  /\ DOMAIN vv \subseteq Replica
  /\ \A r \in DOMAIN vv : IsVersion(vv[r]) /\ \A c \in Seen(vv[r]) : c <= MaxSeen[r]

VectorsInv ==
  /\ entries = [z \in Vector |-> entries[z]]
  /\ \A z \in Vector : IsVector(entries[z])

LEMMA EmptyVersion ==
  IsVersion(Vectors!Default) /\ Seen(Vectors!Default) = {}
<1> DEFINE none == <<>>
           v == [frontier |-> 0, ranges |-> none]
<1>1. none \in Ranges /\ Len(none) = 0
  BY EmptySeq DEF Ranges
<1>2. Vectors!Default = v
  BY DEF Vectors!Default
<1> HIDE DEF none
<1>3. v.frontier = 0 /\ v.ranges = none /\ v \in Versions
  BY <1>1 DEF Versions
<1> HIDE DEF v
<1>4. IsVersion(v)
  BY <1>1, <1>3 DEF IsVersion, Apart
<1>5. Seen(v) = {}
  BY <1>1, <1>3 DEF Seen, Covered, CoveredBy
<1> QED BY <1>2, <1>4, <1>5

LEMMA EntryOfVector ==
  ASSUME NEW vv, IsVector(vv), NEW r
  PROVE  /\ IsVersion(Vectors!EntryOf(vv, r))
         /\ \A c : c \in Seen(Vectors!EntryOf(vv, r)) <=> r \in DOMAIN vv /\ c \in Seen(vv[r])
<1>1. CASE r \in DOMAIN vv
  BY <1>1 DEF Vectors!EntryOf, IsVector
<1>2. CASE r \notin DOMAIN vv
  BY <1>2, EmptyVersion DEF Vectors!EntryOf
<1> QED BY <1>1, <1>2

\* The ids a vector contains.
LEMMA CountersAreSeen ==
  ASSUME NEW v, IsVersion(v), NEW c
  PROVE  c \in Vectors!CountersOf(v) <=> c \in Seen(v)
<1> DEFINE r == v.ranges
           Part(i) == r[i][1] .. r[i][2]
           beyond == UNION {Part(i) : i \in 1 .. Len(r)}
<1>1. v.frontier \in Nat /\ r \in Ranges /\ Apart(r, v.frontier + 1)
  BY VersionType
<1>2. \A i \in 1 .. Len(r) : r[i][1] \in Nat /\ r[i][2] \in Nat
  BY <1>1, RangeList
<1>3. Vectors!CountersOf(v) = (1 .. v.frontier) \cup beyond
  BY DEF Vectors!CountersOf
<1>4. c \in beyond <=> \E i \in 1 .. Len(r) : c \in Part(i)
  <2> HIDE DEF Part
  <2> QED BY Zenon
<1>5. c \in beyond <=> c \in Nat /\ 1 <= c /\ c \in Covered(r)
  <2>1. ASSUME NEW i \in 1 .. Len(r), c \in Part(i)
        PROVE  c \in Nat /\ 1 <= c /\ c \in Covered(r)
    <3>1. c \in Nat /\ r[i][1] <= c /\ c <= r[i][2]
      BY <1>2, <2>1
    <3>2. v.frontier + 1 < r[i][1] /\ r[i][1] \in Nat
      BY <1>1, <1>2 DEF Apart
    <3> QED BY <1>1, <3>1, <3>2 DEF Covered, CoveredBy
  <2>2. ASSUME c \in Nat, c \in Covered(r) PROVE \E i \in 1 .. Len(r) : c \in Part(i)
    BY <1>2, <2>2 DEF Covered, CoveredBy
  <2> HIDE DEF beyond, Part
  <2> QED BY <1>4, <2>1, <2>2
<1>6. c \in 1 .. v.frontier <=> c \in Nat /\ 1 <= c /\ c <= v.frontier
  BY <1>1
<1> HIDE DEF beyond
<1> QED BY <1>3, <1>5, <1>6 DEF Seen

LEMMA IdsOfVector ==
  ASSUME NEW vv, IsVector(vv), NEW p
  PROVE  p \in Vectors!Contents(vv) <=>
           \E r \in DOMAIN vv : \E c \in Seen(vv[r]) : p = <<r, c>>
<1> DEFINE Part(r) == {r} \X Vectors!CountersOf(vv[r])
<1>1. p \in Vectors!Contents(vv) <=> \E r \in DOMAIN vv : p \in Part(r)
  <2>1. Vectors!Contents(vv) = UNION {Part(r) : r \in DOMAIN vv}
    BY DEF Vectors!Contents
  <2> HIDE DEF Part
  <2> QED BY <2>1, Zenon
<1>2. ASSUME NEW r \in DOMAIN vv
      PROVE  p \in Part(r) <=> \E c \in Seen(vv[r]) : p = <<r, c>>
  <2>1. \A c : c \in Vectors!CountersOf(vv[r]) <=> c \in Seen(vv[r])
    BY CountersAreSeen DEF IsVector
  <2> QED BY <2>1
<1> HIDE DEF Part
<1> QED BY <1>1, <1>2

\* VersionVector::observe and merge.
LEMMA ObservedVector ==
  ASSUME NEW vv, IsVector(vv), NEW r \in Replica, MaxSeen[r] \in Nat, NEW c \in 0 .. MaxSeen[r]
  PROVE  /\ IsVector(Vectors!Observed(vv, r, c))
         /\ Vectors!Contents(Vectors!Observed(vv, r, c)) =
              Vectors!Contents(vv) \cup (IF c = 0 THEN {} ELSE {<<r, c>>})
<1> DEFINE e == Vectors!EntryOf(vv, r)
           o == Vectors!ObserveCounter(e, c)
           w == Vectors!Observed(vv, r, c)
<1>1. IsVersion(e) /\ \A d : d \in Seen(e) <=> r \in DOMAIN vv /\ d \in Seen(vv[r])
  BY EntryOfVector
<1>2. c \in Nat
  OBVIOUS
<1> HIDE DEF e
<1>3. IsVersion(o) /\ \A d \in Nat : d \in Seen(o) <=> d \in Seen(e) \/ (d = c /\ 1 <= c)
  BY <1>1, <1>2, CounterObserved
<1>4. /\ DOMAIN w = DOMAIN vv \cup {r} /\ w[r] = o
      /\ \A s \in DOMAIN vv : s # r => w[s] = vv[s]
  BY DEF Vectors!Observed, e
<1> HIDE DEF o, w
<1>5. \A d \in Seen(o) : d \in Nat
  BY DEF Seen
<1>6. IsVector(w)
  <2>1. DOMAIN w \subseteq Replica
    BY <1>4 DEF IsVector
  <2>2. ASSUME NEW s \in DOMAIN w
        PROVE  IsVersion(w[s]) /\ \A d \in Seen(w[s]) : d <= MaxSeen[s]
    <3>1. CASE s = r
      <4>1. ASSUME NEW d \in Seen(o) PROVE d <= MaxSeen[r]
        <5>1. d \in Seen(e) \/ d = c
          BY <1>3, <1>5
        <5> QED BY <1>1, <5>1 DEF IsVector
      <4> QED BY <1>3, <1>4, <3>1, <4>1
    <3>2. CASE s # r
      BY <1>4, <2>2, <3>2 DEF IsVector
    <3> QED BY <3>1, <3>2
  <2> QED BY <2>1, <2>2 DEF IsVector
<1>7. ASSUME NEW p
      PROVE  p \in Vectors!Contents(w) <=>
               p \in Vectors!Contents(vv) \cup (IF c = 0 THEN {} ELSE {<<r, c>>})
  <2>1. p \in Vectors!Contents(w) <=> \E s \in DOMAIN w : \E d \in Seen(w[s]) : p = <<s, d>>
    BY <1>6, IdsOfVector
  <2>2. p \in Vectors!Contents(vv) <=> \E s \in DOMAIN vv : \E d \in Seen(vv[s]) : p = <<s, d>>
    BY IdsOfVector
  <2>3. ASSUME NEW s \in DOMAIN w, NEW d \in Seen(w[s]), p = <<s, d>>
        PROVE  p \in Vectors!Contents(vv) \cup (IF c = 0 THEN {} ELSE {<<r, c>>})
    <3>1. CASE s # r
      <4>1. s \in DOMAIN vv /\ d \in Seen(vv[s])
        BY <1>4, <2>3, <3>1
      <4> QED BY <2>2, <2>3, <4>1
    <3>2. CASE s = r
      <4>1. d \in Nat /\ (d \in Seen(e) \/ (d = c /\ 1 <= c))
        BY <1>3, <1>4, <1>5, <2>3, <3>2
      <4>2. CASE d \in Seen(e)
        BY <1>1, <2>2, <2>3, <3>2, <4>2
      <4>3. CASE d = c /\ 1 <= c
        BY <1>2, <2>3, <3>2, <4>3
      <4> QED BY <4>1, <4>2, <4>3
    <3> QED BY <3>1, <3>2
  <2>4. ASSUME p \in Vectors!Contents(vv) PROVE p \in Vectors!Contents(w)
    <3>0. PICK s \in DOMAIN vv : \E d \in Seen(vv[s]) : p = <<s, d>>
      BY <2>2, <2>4
    <3>1. PICK d \in Seen(vv[s]) : p = <<s, d>>
      BY <3>0
    <3>2. CASE s # r
      BY <1>4, <2>1, <3>1, <3>2
    <3>3. CASE s = r
      <4>1. d \in Seen(o) /\ d \in Nat
        BY <1>1, <1>3, <3>3 DEF Seen
      <4> QED BY <1>4, <2>1, <3>1, <3>3, <4>1
    <3> QED BY <3>2, <3>3
  <2>5. ASSUME c # 0, p = <<r, c>> PROVE p \in Vectors!Contents(w)
    <3>1. c \in Seen(o)
      BY <1>2, <1>3, <2>5
    <3> QED BY <1>4, <2>1, <2>5, <3>1
  <2> QED BY <2>1, <2>3, <2>4, <2>5
<1> QED BY <1>6, <1>7 DEF w

LEMMA MergedVector ==
  ASSUME NEW vv, IsVector(vv), NEW other, IsVector(other), MaxSeen \in [Replica -> Nat]
  PROVE  /\ IsVector(Vectors!Merged(vv, other))
         /\ Vectors!Contents(Vectors!Merged(vv, other)) =
              Vectors!Contents(vv) \cup Vectors!Contents(other)
<1> DEFINE e(s) == Vectors!EntryOf(vv, s)
           u(s) == Vectors!UnionOf(e(s), other[s])
           w == Vectors!Merged(vv, other)
<1>1. /\ DOMAIN w = DOMAIN vv \cup DOMAIN other
      /\ \A s \in DOMAIN other : w[s] = u(s)
      /\ \A s \in DOMAIN vv : s \notin DOMAIN other => w[s] = vv[s]
  BY DEF Vectors!Merged
<1> HIDE DEF w
<1>2. ASSUME NEW s \in DOMAIN other
      PROVE  /\ IsVersion(u(s))
             /\ \A c : c \in Seen(u(s)) <=>
                  (s \in DOMAIN vv /\ c \in Seen(vv[s])) \/ c \in Seen(other[s])
  <2>1. IsVersion(e(s)) /\ \A c : c \in Seen(e(s)) <=> s \in DOMAIN vv /\ c \in Seen(vv[s])
    BY EntryOfVector
  <2>2. IsVersion(other[s])
    BY DEF IsVector
  <2>3. /\ IsVersion(u(s))
        /\ \A c \in Nat : c \in Seen(u(s)) <=> c \in Seen(e(s)) \/ c \in Seen(other[s])
    BY <2>1, <2>2, VersionsUnited
  <2>4. \A c : (c \in Seen(u(s)) \/ c \in Seen(e(s)) \/ c \in Seen(other[s])) => c \in Nat
    BY DEF Seen
  <2> QED BY <2>1, <2>3, <2>4
<1> HIDE DEF u
<1>3. IsVector(w)
  <2>1. DOMAIN w \subseteq Replica
    BY <1>1 DEF IsVector
  <2>2. ASSUME NEW s \in DOMAIN w
        PROVE  IsVersion(w[s]) /\ \A d \in Seen(w[s]) : d <= MaxSeen[s]
    <3>1. CASE s \in DOMAIN other
      BY <1>1, <1>2, <3>1 DEF IsVector
    <3>2. CASE s \notin DOMAIN other
      BY <1>1, <2>2, <3>2 DEF IsVector
    <3> QED BY <3>1, <3>2
  <2> QED BY <2>1, <2>2 DEF IsVector
<1>4. ASSUME NEW p
      PROVE  p \in Vectors!Contents(w) <=> p \in Vectors!Contents(vv) \cup Vectors!Contents(other)
  <2>1. p \in Vectors!Contents(w) <=> \E s \in DOMAIN w : \E d \in Seen(w[s]) : p = <<s, d>>
    BY <1>3, IdsOfVector
  <2>2. p \in Vectors!Contents(vv) <=> \E s \in DOMAIN vv : \E d \in Seen(vv[s]) : p = <<s, d>>
    BY IdsOfVector
  <2>3. p \in Vectors!Contents(other) <=>
          \E s \in DOMAIN other : \E d \in Seen(other[s]) : p = <<s, d>>
    BY IdsOfVector
  <2>4. ASSUME NEW s \in DOMAIN w, NEW d \in Seen(w[s]), p = <<s, d>>
        PROVE  p \in Vectors!Contents(vv) \cup Vectors!Contents(other)
    <3>1. CASE s \in DOMAIN other
      <4>1. (s \in DOMAIN vv /\ d \in Seen(vv[s])) \/ d \in Seen(other[s])
        BY <1>1, <1>2, <2>4, <3>1
      <4> QED BY <2>2, <2>3, <2>4, <3>1, <4>1
    <3>2. CASE s \notin DOMAIN other
      BY <1>1, <2>2, <2>4, <3>2
    <3> QED BY <3>1, <3>2
  <2>5. ASSUME NEW s \in DOMAIN vv, NEW d \in Seen(vv[s]), p = <<s, d>>
        PROVE  p \in Vectors!Contents(w)
    <3>1. CASE s \in DOMAIN other
      <4>1. d \in Seen(w[s]) /\ s \in DOMAIN w
        BY <1>1, <1>2, <3>1
      <4> QED BY <2>1, <2>5, <4>1
    <3>2. CASE s \notin DOMAIN other
      BY <1>1, <2>1, <2>5, <3>2
    <3> QED BY <3>1, <3>2
  <2>6. ASSUME NEW s \in DOMAIN other, NEW d \in Seen(other[s]), p = <<s, d>>
        PROVE  p \in Vectors!Contents(w)
    <3>1. d \in Seen(w[s]) /\ s \in DOMAIN w
      BY <1>1, <1>2
    <3> QED BY <2>1, <2>6, <3>1
  <2> QED BY <2>1, <2>2, <2>3, <2>4, <2>5, <2>6
<1> QED BY <1>3, <1>4 DEF w

LEMMA VectorsInit == Vectors!Init => VectorsInv /\ Vectors!Sets!Init
<1> SUFFICES ASSUME Vectors!Init PROVE VectorsInv /\ Vectors!Sets!Init
  OBVIOUS
<1>1. DOMAIN Vectors!EmptyVector = {}
  BY DEF Vectors!EmptyVector
<1>2. IsVector(Vectors!EmptyVector)
  BY <1>1 DEF IsVector
<1>3. \A z \in Vector : entries[z] = Vectors!EmptyVector
  BY DEF Vectors!Init
<1>4. Vectors!Contents(Vectors!EmptyVector) = {}
  BY <1>1, <1>2, IdsOfVector
<1>5. VectorsInv
  BY <1>2, <1>3 DEF Vectors!Init, VectorsInv
<1>6. Vectors!Sets!Init
  BY <1>3, <1>4 DEF Vectors!Sets!Init, Vectors!Known
<1> QED BY <1>5, <1>6

\* Every step replaces one vector by another, and changes its ids as the
\* specification of sets does.
LEMMA VectorsNext ==
  ASSUME VectorsInv, Vectors!Assumptions, Vectors!Next
  PROVE  VectorsInv' /\ [Vectors!Sets!Next]_Vectors!Known
<1> SUFFICES ASSUME NEW z \in Vector,
                    \/ Vectors!New(z)
                    \/ \E r \in Replica : \E c \in 0 .. MaxSeen[r] : Vectors!Observe(z, r, c)
                    \/ \E u \in Vector : Vectors!Merge(z, u)
             PROVE  VectorsInv' /\ (Vectors!Sets!Next \/ UNCHANGED Vectors!Known)
  BY DEF Vectors!Next
<1>1. /\ entries = [u \in Vector |-> entries[u]]
      /\ \A u \in Vector : IsVector(entries[u])
      /\ MaxSeen \in [Replica -> Nat]
  BY DEF VectorsInv, Vectors!Assumptions
<1>2. ASSUME NEW vv, IsVector(vv), entries' = [entries EXCEPT ![z] = vv]
      PROVE  /\ VectorsInv'
             /\ Vectors!Known' = [Vectors!Known EXCEPT ![z] = Vectors!Contents(vv)]
             /\ Vectors!Known[z] = Vectors!Contents(entries[z])
  <2>1. \A u \in Vector : entries'[u] = IF u = z THEN vv ELSE entries[u]
    BY <1>1, <1>2
  <2>2. entries' = [u \in Vector |-> entries'[u]]
    BY <1>1, <1>2
  <2>3. VectorsInv'
    BY <1>1, <1>2, <2>1, <2>2 DEF VectorsInv, IsVector
  <2>4. Vectors!Known' = [u \in Vector |-> Vectors!Contents(entries'[u])]
    BY DEF Vectors!Known
  <2>5. Vectors!Known' = [Vectors!Known EXCEPT ![z] = Vectors!Contents(vv)]
    BY <2>1, <2>4 DEF Vectors!Known
  <2> QED BY <2>3, <2>5 DEF Vectors!Known
<1>3. CASE Vectors!New(z)
  <2> DEFINE vv == Vectors!EmptyVector
  <2>1. DOMAIN vv = {}
    BY DEF Vectors!EmptyVector
  <2>2. IsVector(vv)
    BY <2>1 DEF IsVector
  <2>3. Vectors!Contents(vv) = {}
    BY <2>1, <2>2, IdsOfVector
  <2>4. VectorsInv' /\ Vectors!Known' = [Vectors!Known EXCEPT ![z] = {}]
    BY <1>2, <1>3, <2>2, <2>3 DEF Vectors!New
  <2> QED BY <2>4 DEF Vectors!Sets!Next
<1>4. CASE \E r \in Replica : \E c \in 0 .. MaxSeen[r] : Vectors!Observe(z, r, c)
  <2>1. PICK r \in Replica : \E c \in 0 .. MaxSeen[r] : Vectors!Observe(z, r, c)
    BY <1>4
  <2>2. PICK c \in 0 .. MaxSeen[r] : Vectors!Observe(z, r, c)
    BY <2>1
  <2> DEFINE vv == Vectors!Observed(entries[z], r, c)
  <2>3. /\ IsVector(vv)
        /\ Vectors!Contents(vv) =
             Vectors!Contents(entries[z]) \cup (IF c = 0 THEN {} ELSE {<<r, c>>})
    <3>1. IsVector(entries[z]) /\ MaxSeen[r] \in Nat
      BY <1>1
    <3> QED BY <3>1, ObservedVector
  <2>4. entries' = [entries EXCEPT ![z] = vv]
    BY <1>1, <2>2 DEF Vectors!Observe
  <2> HIDE DEF vv
  <2>5. VectorsInv' /\ Vectors!Known' = [Vectors!Known EXCEPT ![z] = Vectors!Contents(vv)]
        /\ Vectors!Known[z] = Vectors!Contents(entries[z])
    BY <1>2, <2>3, <2>4
  <2>6. CASE c = 0
    <3>1. Vectors!Known' = [Vectors!Known EXCEPT ![z] = Vectors!Known[z]]
      BY <2>3, <2>5, <2>6
    <3>2. Vectors!Known' = Vectors!Known
      BY <3>1 DEF Vectors!Known
    <3> QED BY <2>5, <3>2
  <2>7. CASE c # 0
    <3>1. c \in 1 .. MaxSeen[r]
      BY <1>1, <2>7
    <3>2. Vectors!Known' = [Vectors!Known EXCEPT ![z] = Vectors!Known[z] \cup {<<r, c>>}]
      BY <2>3, <2>5, <2>7
    <3>3. \E s \in Replica : \E d \in 1 .. MaxSeen[s] :
            Vectors!Known' = [Vectors!Known EXCEPT ![z] = Vectors!Known[z] \cup {<<s, d>>}]
      BY <3>1, <3>2
    <3>4. Vectors!Sets!Next
      BY <3>3 DEF Vectors!Sets!Next
    <3> QED BY <2>5, <3>4
  <2> QED BY <2>6, <2>7
<1>5. CASE \E u \in Vector : Vectors!Merge(z, u)
  <2>1. PICK u \in Vector : Vectors!Merge(z, u)
    BY <1>5
  <2> DEFINE vv == Vectors!Merged(entries[z], entries[u])
  <2>2. /\ IsVector(vv)
        /\ Vectors!Contents(vv) = Vectors!Contents(entries[z]) \cup Vectors!Contents(entries[u])
    BY <1>1, MergedVector
  <2>3. entries' = [entries EXCEPT ![z] = vv]
    BY <1>1, <2>1 DEF Vectors!Merge
  <2> HIDE DEF vv
  <2>4. VectorsInv' /\ Vectors!Known' = [Vectors!Known EXCEPT ![z] = Vectors!Contents(vv)]
        /\ Vectors!Known[z] = Vectors!Contents(entries[z])
    BY <1>2, <2>2, <2>3
  <2>5. Vectors!Known[u] = Vectors!Contents(entries[u])
    BY DEF Vectors!Known
  <2>6. Vectors!Known' = [Vectors!Known EXCEPT ![z] = Vectors!Known[z] \cup Vectors!Known[u]]
    BY <2>2, <2>4, <2>5
  <2> QED BY <2>4, <2>6 DEF Vectors!Sets!Next
<1> QED BY <1>3, <1>4, <1>5

\* What is asked of the vectors is what is asked of their sets.
LEMMA AwareIsSubset ==
  ASSUME NEW vv, IsVector(vv), NEW other, IsVector(other)
  PROVE  Vectors!IsAwareOf(vv, other) <=> Vectors!Contents(other) \subseteq Vectors!Contents(vv)
<1>1. ASSUME Vectors!IsAwareOf(vv, other), NEW p \in Vectors!Contents(other)
      PROVE  p \in Vectors!Contents(vv)
  <2>0. PICK r \in DOMAIN other : \E c \in Seen(other[r]) : p = <<r, c>>
    BY <1>1, IdsOfVector
  <2>1. PICK c \in Seen(other[r]) : p = <<r, c>>
    BY <2>0
  <2>2. /\ IsVersion(Vectors!EntryOf(vv, r)) /\ IsVersion(other[r])
        /\ Vectors!IsSupersetOf(Vectors!EntryOf(vv, r), other[r])
    BY <1>1, EntryOfVector DEF Vectors!IsAwareOf, IsVector
  <2>3. c \in Seen(Vectors!EntryOf(vv, r))
    <3>1. c \in Nat
      BY DEF Seen
    <3> QED BY <2>2, <3>1, SupersetOfSeen
  <2>4. r \in DOMAIN vv /\ c \in Seen(vv[r])
    BY <2>3, EntryOfVector
  <2> QED BY <2>1, <2>4, IdsOfVector
<1>2. ASSUME Vectors!Contents(other) \subseteq Vectors!Contents(vv), NEW r \in DOMAIN other
      PROVE  Vectors!IsSupersetOf(Vectors!EntryOf(vv, r), other[r])
  <2>1. IsVersion(Vectors!EntryOf(vv, r)) /\ IsVersion(other[r])
    BY EntryOfVector DEF IsVector
  <2>2. ASSUME NEW c \in Nat, c \in Seen(other[r]) PROVE c \in Seen(Vectors!EntryOf(vv, r))
    <3>1. <<r, c>> \in Vectors!Contents(other)
      BY <2>2, IdsOfVector
    <3>2. <<r, c>> \in Vectors!Contents(vv)
      BY <1>2, <3>1
    <3>3. r \in DOMAIN vv /\ c \in Seen(vv[r])
      BY <3>2, IdsOfVector
    <3> QED BY <3>3, EntryOfVector
  <2> QED BY <2>1, <2>2, SupersetOfSeen
<1> QED BY <1>1, <1>2 DEF Vectors!IsAwareOf

LEMMA AnswersOfVector ==
  ASSUME NEW vv, IsVector(vv), NEW r \in Replica, MaxSeen[r] \in Nat
  PROVE  LET seen == {c \in 1 .. MaxSeen[r] : <<r, c>> \in Vectors!Contents(vv)}
         IN /\ Vectors!Get(vv, r) = Vectors!Max(seen \cup {0})
            /\ Vectors!Frontier(vv, r) = Vectors!Max({c \in 0 .. MaxSeen[r] : 1 .. c \subseteq seen})
<1> DEFINE e == Vectors!EntryOf(vv, r)
           seen == {c \in 1 .. MaxSeen[r] : <<r, c>> \in Vectors!Contents(vv)}
           full == {c \in 0 .. MaxSeen[r] : 1 .. c \subseteq seen}
           m == Vectors!MaxSeenOf(e)
           f == e.frontier
<1>1. IsVersion(e) /\ \A c : c \in Seen(e) <=> r \in DOMAIN vv /\ c \in Seen(vv[r])
  BY EntryOfVector
<1>2. /\ \A c \in Seen(e) : c \in 1 .. MaxSeen[r]
      /\ \A c \in Nat : c \in seen <=> c \in Seen(e)
  <2>1. \A c \in Seen(e) : c \in Nat /\ 1 <= c /\ c <= MaxSeen[r]
    BY <1>1 DEF Seen, IsVector
  <2>2. ASSUME NEW c PROVE <<r, c>> \in Vectors!Contents(vv) <=> c \in Seen(e)
    BY <1>1, IdsOfVector
  <2> HIDE DEF e
  <2> QED BY <2>1, <2>2
<1> HIDE DEF e
<1>3. Vectors!Max(seen \cup {0}) = m
  <2>1. m \in Nat /\ (m = 0 \/ m \in Seen(e)) /\ \A c \in Seen(e) : c <= m
    BY <1>1, LargestSeen
  <2> DEFINE S == seen \cup {0}
  <2>2. S \in SUBSET Nat
    OBVIOUS
  <2>3. m \in S
    BY <1>2, <2>1
  <2>4. \A c \in S : c <= m
    BY <1>2, <2>1
  <2> HIDE DEF S, m
  <2>5. Vectors!Max(S) = m
    BY <2>2, <2>3, <2>4, VectorsGreatest
  <2> QED BY <2>5 DEF S
<1>4. Vectors!Max(full) = f
  <2>1. /\ f \in Nat /\ f + 1 \notin Seen(e)
        /\ \A c \in 1 .. f : c \in Seen(e)
    BY <1>1, FrontierIsGap, VersionType
  <2>2. full \in SUBSET Nat
    OBVIOUS
  <2>3. f \in full
    <3>1. \A c \in 1 .. f : c \in seen
      BY <1>2, <2>1
    <3>2. f <= MaxSeen[r]
      <4>1. CASE f > 0
        <5>1. f \in 1 .. f
          BY <2>1, <4>1
        <5> QED BY <1>2, <2>1, <5>1
      <4> QED BY <2>1, <4>1
    <3> QED BY <2>1, <3>1, <3>2
  <2>4. ASSUME NEW c \in full PROVE c <= f
    <3> SUFFICES ASSUME c > f PROVE FALSE
      BY <2>1
    <3>1. f + 1 \in 1 .. c
      BY <2>1
    <3>2. f + 1 \in seen /\ f + 1 \in Nat
      BY <2>1, <3>1
    <3> QED BY <1>2, <2>1, <3>2
  <2> HIDE DEF full, f
  <2> QED BY <2>2, <2>3, <2>4, VectorsGreatest
<1> QED BY <1>3, <1>4 DEF Vectors!Get, Vectors!Frontier, e

LEMMA VectorsAnswer ==
  ASSUME VectorsInv, Vectors!Assumptions
  PROVE  Vectors!AwarenessIsInclusion /\ Vectors!GetAndFrontier /\ Vectors!Normalized
<1>1. \A z \in Vector : IsVector(entries[z])
  BY DEF VectorsInv
<1>2. Vectors!AwarenessIsInclusion
  BY <1>1, AwareIsSubset DEF Vectors!AwarenessIsInclusion
<1>3. Vectors!GetAndFrontier
  <2>1. \A r \in Replica : MaxSeen[r] \in Nat
    BY DEF Vectors!Assumptions
  <2> QED BY <1>1, <2>1, AnswersOfVector DEF Vectors!GetAndFrontier
<1>4. Vectors!Normalized
  <2> SUFFICES ASSUME NEW z \in Vector, NEW r \in DOMAIN entries[z],
                      NEW i \in 1 .. Len(entries[z][r].ranges)
               PROVE  LET v == entries[z][r]
                      IN /\ v.ranges[i][1] <= v.ranges[i][2]
                         /\ v.ranges[i][1] > v.frontier + 1
                         /\ i > 1 => v.ranges[i][1] > v.ranges[i - 1][2] + 1
    BY DEF Vectors!Normalized
  <2> DEFINE v == entries[z][r]
             s == v.ranges
  <2>1. IsVersion(v)
    BY <1>1 DEF IsVector
  <2> HIDE DEF v
  <2>2. v.frontier \in Nat /\ s \in Ranges /\ Apart(s, v.frontier + 1)
    BY <2>1, VersionType
  <2>3. /\ i \in 1 .. Len(s) /\ Len(s) \in Nat
        /\ \A j \in 1 .. Len(s) : s[j][1] \in Nat /\ s[j][2] \in Nat
    BY <2>2, RangeList DEF v
  <2>4. /\ v.frontier + 1 < s[i][1] /\ s[i][1] <= s[i][2]
        /\ \A j \in 1 .. i - 1 : s[j][2] + 1 < s[i][1]
    BY <2>2, <2>3 DEF Apart
  <2>5. ASSUME i > 1 PROVE s[i][1] > s[i - 1][2] + 1
    <3>1. i - 1 \in 1 .. i - 1 /\ i - 1 \in 1 .. Len(s)
      BY <2>3, <2>5
    <3> QED BY <2>3, <2>4, <3>1
  <2> QED BY <2>2, <2>3, <2>4, <2>5 DEF v
<1> QED BY <1>2, <1>3, <1>4

LEMMA VectorsOfValues == ValuesSpec => []VectorsInv /\ Vectors!ImplementsSets
<1>1. ValuesInit => VectorsInv /\ Vectors!Sets!Init
  BY VectorsInit DEF ValuesInit
<1>2. VectorsInv /\ [ValuesNext]_<<part, vars, entries, codecs>>
        => VectorsInv' /\ [Vectors!Sets!Next]_Vectors!Known
  <2> SUFFICES ASSUME VectorsInv, [ValuesNext]_<<part, vars, entries, codecs>>
               PROVE  VectorsInv' /\ [Vectors!Sets!Next]_Vectors!Known
    OBVIOUS
  <2>1. CASE Vectors!Next
    BY <2>1, VectorsNext, MCValuesAssumption
  <2>2. CASE UNCHANGED entries
    BY <2>2 DEF VectorsInv, Vectors!Known, IsVector
  <2> QED BY <2>1, <2>2 DEF ValuesNext
<1>3. ValuesSpec => []VectorsInv
  BY <1>1, <1>2, PTL DEF ValuesSpec
<1>4. ValuesSpec => Vectors!ImplementsSets
  BY <1>1, <1>2, PTL DEF ValuesSpec, Vectors!ImplementsSets, Vectors!Sets!Spec
<1> QED BY <1>3, <1>4

(* is_aware_of is the inclusion of the sets of ids, get and frontier answer *)
(* for the set, and the ranges of VersionVector stay sorted with gaps       *)
(* between them, after any observations and merges.                         *)
THEOREM VectorsAreSets == ValuesSpec => []VectorsAnswerForSets
<1>1. VectorsInv => VectorsAnswerForSets
  BY VectorsAnswer, MCValuesAssumption DEF VectorsAnswerForSets
<1> QED BY <1>1, VectorsOfValues, PTL

(* observe and merge of VersionVector add to the set of ids what they are   *)
(* given, and nothing else.                                                 *)
THEOREM VectorsImplementSets == ValuesSpec => ImplementsSets
BY VectorsOfValues DEF ImplementsSets

-----------------------------------------------------------------------------
(* The representations of an operation, for every assignment of engines    *)
(* to stores and every set of entries they mint.                           *)

\* An entry as an Operation object, and as bytes.
AsObject(o) == [o EXCEPT !.node = [form |-> "hex", value |-> o.node],
                         !.place = IF o.place = None THEN None
                                   ELSE [form |-> "hex", value |-> o.place]]
AsBytes(o) == [o EXCEPT !.knownState = IF o.knownState = None THEN Empty ELSE o.knownState]

\* Both counters are safe integers of JavaScript.
FitsNumber(o) == Codecs!IsSafe(o.counter) /\ Codecs!IsSafe(o.lamport)

\* An integer that becomes a safe one when it is read as a double was that integer.
LEMMA SafeNumbers ==
  ASSUME NEW n \in Nat
  PROVE  /\ Codecs!IsSafe(n) => Codecs!AsNumber(n) = n
         /\ Codecs!IsSafe(Codecs!AsNumber(n)) => Codecs!IsSafe(n)
BY MCValuesAssumption DEF Codecs!Assumptions, Codecs!IsSafe, Codecs!AsNumber

USE DEF Codecs!Field, Codecs!Form

LEMMA SqliteReads ==
  ASSUME NEW o, Codecs!IsEntry(o)
  PROVE  /\ Codecs!ReadRow(o) = o
         /\ Codecs!DecodeSqliteOp(Codecs!ReadRow(o)) =
              {AsObject([o EXCEPT !.counter = Codecs!AsNumber(@), !.lamport = Codecs!AsNumber(@)])}
<1>1. Codecs!ReadRow(o) = o
  BY DEF Codecs!ReadRow, Codecs!UnlessEmpty, Codecs!IsEntry
<1>2. ~(o.kind \in {"insert", "move"} /\ o.orderKey = None)
  BY DEF Codecs!IsEntry
<1>3. Codecs!DecodeSqliteOp(o) =
        {AsObject([o EXCEPT !.counter = Codecs!AsNumber(@), !.lamport = Codecs!AsNumber(@)])}
  BY <1>2 DEF Codecs!DecodeSqliteOp, Codecs!OnIds, Codecs!NodeIdFromBytes16, AsObject, Codecs!IsEntry
<1> QED BY <1>1, <1>3

LEMMA PostgresReads ==
  ASSUME NEW o, Codecs!IsEntry(o)
  PROVE  Codecs!NativeToOperation(o) = IF FitsNumber(o) THEN {AsObject(o)} ELSE {}
<1>1. o.kind \in {"insert", "move"} => o.place # None /\ o.orderKey # None
  BY DEF Codecs!IsEntry
<1>2. Codecs!OnIds(Codecs!NodeIdFromBytes16, o) = AsObject(o)
  BY DEF Codecs!OnIds, Codecs!NodeIdFromBytes16, AsObject
<1> QED BY <1>1, <1>2 DEF Codecs!NativeToOperation, Codecs!ParseSafeInteger, FitsNumber

\* An object, on its way to the wire or to a table of pending operations.
LEMMA Encoded ==
  ASSUME NEW o, Codecs!IsEntry(o)
  PROVE  /\ Codecs!ToProtoOperation(AsObject(o)) = IF FitsNumber(o) THEN {AsBytes(o)} ELSE {}
         /\ Codecs!ToProtoOperation(AsObject([o EXCEPT !.counter = Codecs!AsNumber(@),
                                                       !.lamport = Codecs!AsNumber(@)]))
              = IF FitsNumber(o) THEN {AsBytes(o)} ELSE {}
<1> DEFINE r == [o EXCEPT !.counter = Codecs!AsNumber(@), !.lamport = Codecs!AsNumber(@)]
<1>1. ASSUME NEW e, e = [field \in Codecs!Field |-> e[field]],
             e.place = o.place, e.knownState = o.knownState, e.kind = o.kind
      PROVE  Codecs!ToProtoOperation(AsObject(e)) = IF FitsNumber(e) THEN {AsBytes(e)} ELSE {}
  <2> DEFINE obj == AsObject(e)
  <2>1. obj.knownState = e.knownState /\ obj.kind = e.kind /\ obj.counter = e.counter
        /\ obj.lamport = e.lamport
    BY <1>1 DEF AsObject
  <2>2. ~Codecs!NeedsKnownState(obj)
    BY <1>1, <2>1 DEF Codecs!NeedsKnownState, Codecs!UnlessEmpty, Codecs!IsEntry
  <2>3. e.place = None \/ [form |-> "hex", value |-> e.place] # None
    BY <1>1 DEF Codecs!IsEntry
  <2>4. Codecs!OnIds(Codecs!NodeIdToBytes16,
                     [obj EXCEPT !.knownState = Codecs!OrElse(@, Empty)]) = AsBytes(e)
    BY <1>1, <2>3 DEF Codecs!OnIds, Codecs!NodeIdToBytes16, Codecs!OrElse, AsBytes, AsObject
  <2> HIDE DEF obj
  <2> QED BY <2>1, <2>2, <2>4 DEF Codecs!ToProtoOperation, Codecs!U64FromNumber, FitsNumber, obj
<1>2. /\ r = [field \in Codecs!Field |-> r[field]]
      /\ r.place = o.place /\ r.knownState = o.knownState /\ r.kind = o.kind
      /\ r.counter = Codecs!AsNumber(o.counter) /\ r.lamport = Codecs!AsNumber(o.lamport)
  BY DEF Codecs!IsEntry
<1>3. o.counter \in Nat /\ o.lamport \in Nat /\ o = [field \in Codecs!Field |-> o[field]]
  BY DEF Codecs!IsEntry
<1>4. FitsNumber(r) <=> FitsNumber(o)
  BY <1>2, <1>3, SafeNumbers DEF FitsNumber
<1>5. FitsNumber(o) => r = o
  BY <1>3, SafeNumbers DEF FitsNumber
<1> HIDE DEF r
<1>6. Codecs!ToProtoOperation(AsObject(o)) = IF FitsNumber(o) THEN {AsBytes(o)} ELSE {}
  BY <1>1, <1>3
<1>7. Codecs!ToProtoOperation(AsObject(r)) = IF FitsNumber(r) THEN {AsBytes(r)} ELSE {}
  BY <1>1, <1>2
<1> QED BY <1>4, <1>5, <1>6, <1>7 DEF r

LEMMA Decoded ==
  ASSUME NEW o, Codecs!IsEntry(o)
  PROVE  Codecs!FromProtoOperation(AsBytes(o)) \subseteq {AsObject(o)}
<1>1. Codecs!OnIds(Codecs!NodeIdFromBytes16,
                   [AsBytes(o) EXCEPT !.knownState = Codecs!UnlessEmpty(@)]) = AsObject(o)
  BY DEF Codecs!OnIds, Codecs!NodeIdFromBytes16, Codecs!UnlessEmpty, AsBytes, AsObject,
         Codecs!IsEntry
<1> QED BY <1>1 DEF Codecs!FromProtoOperation

LEMMA Appended ==
  ASSUME NEW o, Codecs!IsEntry(o)
  PROVE  /\ Codecs!BuildAppendOpsPayload(AsObject(o)) \subseteq {o}
         /\ Codecs!BuildAppendOp(AsObject(o)) \subseteq {o}
         /\ Codecs!OperationToNative(AsObject(o)) \subseteq {o}
<1>1. o.place = None \/ [form |-> "hex", value |-> o.place] # None
  BY DEF Codecs!IsEntry
<1>2. Codecs!OnIds(Codecs!NodeIdToBytes16, AsObject(o)) = o
  BY <1>1 DEF Codecs!OnIds, Codecs!NodeIdToBytes16, AsObject, Codecs!IsEntry
<1>3. [AsObject(o) EXCEPT !.knownState = Codecs!UnlessEmpty(@)] = AsObject(o)
  BY DEF Codecs!UnlessEmpty, AsObject, Codecs!IsEntry
<1>4. [AsObject(o) EXCEPT !.knownState =
                             IF AsObject(o).kind \in {"insert", "move", "payload"} THEN None
                             ELSE Codecs!UnlessEmpty(@),
                          !.payload = Codecs!UnlessEmpty(@),
                          !.orderKey = Codecs!UnlessEmpty(@)] = AsObject(o)
  BY DEF Codecs!UnlessEmpty, AsObject, Codecs!IsEntry
<1>5. Codecs!BuildAppendOpsPayload(AsObject(o)) \subseteq {o}
  BY <1>2, <1>3 DEF Codecs!BuildAppendOpsPayload
<1>6. Codecs!BuildAppendOp(AsObject(o)) \subseteq {o}
  BY <1>2, <1>4 DEF Codecs!BuildAppendOp
<1>7. Codecs!OperationToNative(AsObject(o)) \subseteq {o}
  BY <1>2 DEF Codecs!OperationToNative
<1> QED BY <1>5, <1>6, <1>7

\* What the log, the tables and the wire hold was minted.
CodecsInv ==
  /\ \A o \in minted : Codecs!IsEntry(o)
  /\ log \in [Peer -> SUBSET minted]
  /\ parked \in [Peer -> SUBSET {AsBytes(o) : o \in minted}]
  /\ \A m \in wire :
       /\ m.case = "opsBatch" => m.ops \subseteq {AsBytes(o) : o \in minted}
       /\ m.case = "control" => \E c \in said : m.msg = Codecs!EncodeControl(c)
  /\ refused # {} => \E o \in refused : ~FitsNumber(o)
  /\ said \subseteq Control /\ heard \subseteq said

\* A batch that was read and encoded is one of entries; when it cannot be encoded one
\* of them does not fit a number.
LEMMA BatchOfEntries ==
  ASSUME CodecsInv, NEW p \in Peer, NEW refs
  PROVE  /\ \A ops \in Codecs!Get(p, refs) : \A b \in Codecs!All(Codecs!ToProtoOperation, ops) :
              b \subseteq {AsBytes(o) : o \in minted}
         /\ UNION {Codecs!All(Codecs!ToProtoOperation, ops) : ops \in Codecs!Get(p, refs)} = {} =>
              \E o \in log[p] : Codecs!OpRef(o) \in refs /\ ~FitsNumber(o)
<1> DEFINE rows == {o \in log[p] : Codecs!OpRef(o) \in refs}
           Doubled(o) == [o EXCEPT !.counter = Codecs!AsNumber(@), !.lamport = Codecs!AsNumber(@)]
           One(o) == IF Backing[p] = "sqlite"
                     THEN Codecs!DecodeSqliteOp(Codecs!ReadRow(o))
                     ELSE Codecs!NativeToOperation(o)
<1>1. \A o \in rows : o \in minted /\ Codecs!IsEntry(o)
  BY DEF CodecsInv
<1>2. \A o \in rows : \A obj \in One(o) :
         Codecs!ToProtoOperation(obj) = IF FitsNumber(o) THEN {AsBytes(o)} ELSE {}
  <2>1. TAKE o \in rows
  <2>2. \A obj \in One(o) : obj = AsObject(o) \/ obj = AsObject(Doubled(o))
    BY <1>1, SqliteReads, PostgresReads
  <2> QED BY <1>1, <2>2, Encoded
<1>3. \A o \in rows : One(o) = {} => ~FitsNumber(o)
  BY <1>1, SqliteReads, PostgresReads
<1>4. Codecs!Get(p, refs) = IF \E o \in rows : One(o) = {} THEN {}
                            ELSE {UNION {One(o) : o \in rows}}
  BY DEF Codecs!Get, Codecs!All
<1> HIDE DEF One
<1>5. \A ops \in Codecs!Get(p, refs) : \A obj \in ops : \E o \in rows : obj \in One(o)
  BY <1>4
<1> HIDE DEF rows
<1>6. \A ops \in Codecs!Get(p, refs) : \A b \in Codecs!All(Codecs!ToProtoOperation, ops) :
        \A e \in b : \E o \in rows : e = AsBytes(o)
  <2>1. TAKE ops \in Codecs!Get(p, refs)
  <2>2. TAKE b \in Codecs!All(Codecs!ToProtoOperation, ops)
  <2>3. TAKE e \in b
  <2>4. PICK obj \in ops : e \in Codecs!ToProtoOperation(obj)
    BY <2>2, <2>3 DEF Codecs!All
  <2>5. PICK o \in rows : obj \in One(o)
    BY <1>5, <2>1
  <2>6. Codecs!ToProtoOperation(obj) = IF FitsNumber(o) THEN {AsBytes(o)} ELSE {}
    BY <1>2, <2>5
  <2> QED BY <2>4, <2>6
<1>7. ASSUME UNION {Codecs!All(Codecs!ToProtoOperation, ops) : ops \in Codecs!Get(p, refs)} = {}
      PROVE  \E o \in rows : ~FitsNumber(o)
  <2>1. CASE Codecs!Get(p, refs) = {}
    <3>1. \E o \in rows : One(o) = {}
      BY <1>4, <2>1
    <3> QED BY <1>3, <3>1
  <2>2. CASE Codecs!Get(p, refs) # {}
    <3>1. PICK ops \in Codecs!Get(p, refs) : TRUE
      BY <2>2
    <3>2. Codecs!All(Codecs!ToProtoOperation, ops) = {}
      BY <1>7, <3>1
    <3>3. PICK obj \in ops : Codecs!ToProtoOperation(obj) = {}
      BY <3>2 DEF Codecs!All
    <3>4. PICK o \in rows : obj \in One(o)
      BY <1>5, <3>1
    <3>5. Codecs!ToProtoOperation(obj) = IF FitsNumber(o) THEN {AsBytes(o)} ELSE {}
      BY <1>2, <3>4
    <3> QED BY <3>3, <3>5
  <2> QED BY <2>1, <2>2
<1> QED BY <1>1, <1>6, <1>7 DEF rows

\* A batch of bytes of entries that is decoded is one of entries, and so is what an
\* engine takes of it.
LEMMA EntriesOfBatch ==
  ASSUME CodecsInv, NEW p \in Peer, NEW bytes \in SUBSET {AsBytes(o) : o \in minted},
         NEW ops \in Codecs!All(Codecs!FromProtoOperation, bytes)
  PROVE  /\ \A obj \in ops : \E o \in minted : obj = AsObject(o)
         /\ \A rows \in Codecs!AppendMany(p, ops) : rows \subseteq minted
         /\ \A obj \in ops : Codecs!Append(p, obj) \subseteq minted
         /\ \A b \in Codecs!All(Codecs!ToProtoOperation, ops) :
              b \subseteq {AsBytes(o) : o \in minted}
<1>1. \A o \in minted : Codecs!IsEntry(o)
  BY DEF CodecsInv
<1>2. \A obj \in ops : \E o \in minted : obj = AsObject(o)
  <2>1. TAKE obj \in ops
  <2>2. PICK e \in bytes : obj \in Codecs!FromProtoOperation(e)
    BY <2>1 DEF Codecs!All
  <2>3. PICK o \in minted : e = AsBytes(o)
    BY <2>2
  <2> QED BY <1>1, <2>2, <2>3, Decoded
<1>3. ASSUME NEW rows \in Codecs!AppendMany(p, ops), NEW row \in rows
      PROVE  row \in minted
  <2>1. PICK obj \in ops : row \in Codecs!BuildAppendOpsPayload(obj) \cup Codecs!OperationToNative(obj)
    BY <1>3 DEF Codecs!AppendMany, Codecs!All
  <2>2. PICK o \in minted : obj = AsObject(o)
    BY <1>2
  <2> QED BY <1>1, <2>1, <2>2, Appended
<1>4. ASSUME NEW obj \in ops
      PROVE  Codecs!Append(p, obj) \subseteq minted
  <2>1. PICK o \in minted : obj = AsObject(o)
    BY <1>2, <1>4
  <2>2. Codecs!Append(p, obj) \subseteq {o}
    BY <1>1, <2>1, Appended DEF Codecs!Append
  <2> QED BY <2>2
<1>5. ASSUME NEW b \in Codecs!All(Codecs!ToProtoOperation, ops), NEW e \in b
      PROVE  e \in {AsBytes(o) : o \in minted}
  <2>1. PICK obj \in ops : e \in Codecs!ToProtoOperation(obj)
    BY <1>5 DEF Codecs!All
  <2>2. PICK o \in minted : obj = AsObject(o)
    BY <1>2
  <2>3. e = AsBytes(o)
    BY <1>1, <2>1, <2>2, Encoded
  <2> QED BY <2>3
<1> QED BY <1>2, <1>3, <1>4, <1>5

LEMMA CodecsNext ==
  ASSUME CodecsInv, [Codecs!Next]_codecs
  PROVE  CodecsInv'
<1>1. \A o \in minted : Codecs!IsEntry(o)
  BY DEF CodecsInv
<1>2. ASSUME NEW p \in Peer, Codecs!Mint(p)
      PROVE  CodecsInv'
  <2>1. PICK o \in Local[p] \ log[p], form \in Codecs!Form :
          LET entry == Codecs!OnIds(Codecs!NodeIdToBytes16, Codecs!Named(o, form))
          IN /\ minted' = minted \cup {entry}
             /\ log' = [log EXCEPT ![p] = Codecs!Stored(p, {entry})]
             /\ UNCHANGED <<parked, wire, refused, said, heard>>
    BY <1>2 DEF Codecs!Mint
  <2>2. Codecs!IsEntry(o)
    BY <2>1, MCValuesAssumption DEF Codecs!Assumptions
  <2>3. Codecs!OnIds(Codecs!NodeIdToBytes16, Codecs!Named(o, form)) = o
    <3>1. o.place = None \/ [form |-> form, value |-> o.place] # None
      BY <2>1, <2>2 DEF Codecs!IsEntry
    <3> QED BY <2>2, <3>1 DEF Codecs!OnIds, Codecs!NodeIdToBytes16, Codecs!Named, Codecs!IsEntry
  <2>4. /\ minted' = minted \cup {o}
        /\ log' = [log EXCEPT ![p] = Codecs!Stored(p, {o})]
        /\ UNCHANGED <<parked, wire, refused, said, heard>>
    BY <2>1, <2>3
  <2>5. Codecs!Stored(p, {o}) \subseteq minted \cup {o}
    BY DEF Codecs!Stored, CodecsInv
  <2>6. log' \in [Peer -> SUBSET minted']
    BY <2>4, <2>5 DEF CodecsInv
  <2>7. parked' \in [Peer -> SUBSET {AsBytes(e) : e \in minted'}]
    BY <2>4 DEF CodecsInv
  <2>8. \A m \in wire' :
          /\ m.case = "opsBatch" => m.ops \subseteq {AsBytes(e) : e \in minted'}
          /\ m.case = "control" => \E c \in said' : m.msg = Codecs!EncodeControl(c)
    BY <2>4 DEF CodecsInv
  <2> QED BY <1>1, <2>2, <2>4, <2>6, <2>7, <2>8 DEF CodecsInv
<1>3. ASSUME NEW p \in Peer, NEW q \in Peer, Codecs!SendBatch(p, q)
      PROVE  CodecsInv'
  <2>1. PICK refs \in SUBSET {Codecs!OpRef(o) : o \in log[p]} :
          LET read == Codecs!Get(p, refs)
              bytes == UNION {Codecs!All(Codecs!ToProtoOperation, ops) : ops \in read}
          IN /\ IF bytes = {}
                THEN /\ refused' = {o \in log[p] : Codecs!OpRef(o) \in refs}
                     /\ UNCHANGED wire
                ELSE /\ wire' = wire \cup {[to |-> q, case |-> "opsBatch", ops |-> b] : b \in bytes}
                     /\ UNCHANGED refused
             /\ UNCHANGED <<minted, log, parked, said, heard>>
    BY <1>3 DEF Codecs!SendBatch
  <2> DEFINE bytes == UNION {Codecs!All(Codecs!ToProtoOperation, ops) : ops \in Codecs!Get(p, refs)}
  <2>2. \A b \in bytes : b \subseteq {AsBytes(o) : o \in minted}
    BY BatchOfEntries
  <2>3. bytes = {} => \E o \in log[p] : Codecs!OpRef(o) \in refs /\ ~FitsNumber(o)
    BY BatchOfEntries
  <2>4. UNCHANGED <<minted, log, parked, said, heard>>
    BY <2>1
  <2> HIDE DEF bytes
  <2>5. CASE bytes = {}
    <3>1. refused' = {o \in log[p] : Codecs!OpRef(o) \in refs} /\ wire' = wire
      BY <2>1, <2>5 DEF bytes
    <3>2. \E o \in refused' : ~FitsNumber(o)
      BY <2>3, <2>5, <3>1
    <3> QED BY <2>4, <3>1, <3>2 DEF CodecsInv
  <2>6. CASE bytes # {}
    <3>1. /\ wire' = wire \cup {[to |-> q, case |-> "opsBatch", ops |-> b] : b \in bytes}
          /\ refused' = refused
      BY <2>1, <2>6 DEF bytes
    <3>2. \A m \in wire' : m \in wire \/ (m.case = "opsBatch" /\ m.ops \in bytes)
      BY <3>1
    <3>3. \A m \in wire' :
            /\ m.case = "opsBatch" => m.ops \subseteq {AsBytes(o) : o \in minted}
            /\ m.case = "control" => \E c \in said : m.msg = Codecs!EncodeControl(c)
      BY <2>2, <3>2 DEF CodecsInv
    <3> QED BY <2>4, <3>1, <3>3 DEF CodecsInv
  <2> QED BY <2>5, <2>6
<1>4. ASSUME NEW p \in Peer, Codecs!ReceiveBatch(p)
      PROVE  CodecsInv'
  <2> DEFINE Single(o) == Codecs!Append(p, o)
  <2>1. PICK m \in wire :
          LET decoded == Codecs!All(Codecs!FromProtoOperation, m.ops)
          IN /\ m.case = "opsBatch" /\ wire' = wire \ {m}
             /\ \/ /\ \E ops \in decoded : \E rows \in Codecs!AppendMany(p, ops) :
                          log' = [log EXCEPT ![p] = Codecs!Stored(p, rows)]
                   /\ UNCHANGED parked
                \/ /\ \E ops \in decoded : \E rows \in Codecs!All(Single, ops) :
                          log' = [log EXCEPT ![p] = Codecs!Stored(p, rows)]
                   /\ UNCHANGED parked
                \/ /\ \E ops \in decoded : \E b \in Codecs!All(Codecs!ToProtoOperation, ops) :
                          parked' = [parked EXCEPT ![p] = @ \cup b]
                   /\ UNCHANGED log
             /\ UNCHANGED <<minted, refused, said, heard>>
    BY <1>4 DEF Codecs!ReceiveBatch
  <2>2. m.ops \in SUBSET {AsBytes(o) : o \in minted}
    BY <2>1 DEF CodecsInv
  <2>3. UNCHANGED <<minted, refused, said, heard>> /\ wire' \subseteq wire
    BY <2>1
  <2>4. \A rows \in SUBSET minted : Codecs!Stored(p, rows) \subseteq minted
    BY DEF Codecs!Stored, CodecsInv
  <2>5. ASSUME NEW ops \in Codecs!All(Codecs!FromProtoOperation, m.ops),
               NEW rows \in Codecs!AppendMany(p, ops)
        PROVE  rows \subseteq minted
    BY <2>2, EntriesOfBatch
  <2>6. ASSUME NEW ops \in Codecs!All(Codecs!FromProtoOperation, m.ops),
               NEW rows \in Codecs!All(Single, ops)
        PROVE  rows \subseteq minted
    <3>1. \A obj \in ops : Codecs!Append(p, obj) \subseteq minted
      BY <2>2, EntriesOfBatch
    <3>2. \A row \in rows : \E obj \in ops : row \in Codecs!Append(p, obj)
      BY DEF Codecs!All
    <3> QED BY <3>1, <3>2
  <2>7. ASSUME NEW ops \in Codecs!All(Codecs!FromProtoOperation, m.ops),
               NEW b \in Codecs!All(Codecs!ToProtoOperation, ops)
        PROVE  b \subseteq {AsBytes(o) : o \in minted}
    BY <2>2, EntriesOfBatch
  <2>8. log' \in [Peer -> SUBSET minted]
    <3>1. log \in [Peer -> SUBSET minted]
      BY DEF CodecsInv
    <3>2. \/ log' = log
          \/ \E rows \in SUBSET minted : log' = [log EXCEPT ![p] = Codecs!Stored(p, rows)]
      <4> HIDE DEF Single
      <4> QED BY <2>1, <2>5, <2>6
    <3> QED BY <2>4, <3>1, <3>2
  <2>9. parked' \in [Peer -> SUBSET {AsBytes(o) : o \in minted}]
    <3>1. parked \in [Peer -> SUBSET {AsBytes(o) : o \in minted}]
      BY DEF CodecsInv
    <3>2. \/ parked' = parked
          \/ \E b \in SUBSET {AsBytes(o) : o \in minted} :
               parked' = [parked EXCEPT ![p] = @ \cup b]
      BY <2>1, <2>7
    <3> QED BY <3>1, <3>2
  <2> QED BY <2>3, <2>8, <2>9 DEF CodecsInv
<1>5. ASSUME NEW p \in Peer, Codecs!Unpark(p)
      PROVE  CodecsInv'
  <2>1. parked[p] \in SUBSET {AsBytes(o) : o \in minted}
    BY DEF CodecsInv
  <2>2. PICK ops \in Codecs!All(Codecs!FromProtoOperation, parked[p]) :
          \E rows \in Codecs!AppendMany(p, ops) : log' = [log EXCEPT ![p] = Codecs!Stored(p, rows)]
    BY <1>5 DEF Codecs!Unpark
  <2>3. PICK rows \in Codecs!AppendMany(p, ops) : log' = [log EXCEPT ![p] = Codecs!Stored(p, rows)]
    BY <2>2
  <2>4. rows \subseteq minted
    BY <2>1, EntriesOfBatch
  <2>5. Codecs!Stored(p, rows) \subseteq minted
    BY <2>4 DEF Codecs!Stored, CodecsInv
  <2>6. log' \in [Peer -> SUBSET minted]
    BY <2>3, <2>5 DEF CodecsInv
  <2>7. /\ parked' = [parked EXCEPT ![p] = {}]
        /\ UNCHANGED <<minted, wire, refused, said, heard>>
    BY <1>5 DEF Codecs!Unpark
  <2>8. parked' \in [Peer -> SUBSET {AsBytes(o) : o \in minted}]
    BY <2>7 DEF CodecsInv
  <2> QED BY <2>6, <2>7, <2>8 DEF CodecsInv
<1>6. ASSUME NEW p \in Peer, NEW q \in Peer, Codecs!SendControl(p, q)
      PROVE  CodecsInv'
  <2>1. PICK c \in Control \ said :
          /\ wire' = wire \cup {[to |-> q, case |-> "control", msg |-> Codecs!EncodeControl(c)]}
          /\ said' = said \cup {c}
          /\ UNCHANGED <<minted, log, parked, refused, heard>>
    BY <1>6 DEF Codecs!SendControl
  <2>2. \A m \in wire' : m \in wire \/ (m.case = "control" /\ m.msg = Codecs!EncodeControl(c))
    BY <2>1
  <2>3. \A m \in wire' :
          /\ m.case = "opsBatch" => m.ops \subseteq {AsBytes(o) : o \in minted}
          /\ m.case = "control" => \E d \in said' : m.msg = Codecs!EncodeControl(d)
    BY <2>1, <2>2 DEF CodecsInv
  <2> QED BY <2>1, <2>3 DEF CodecsInv
<1>7. ASSUME NEW p \in Peer, Codecs!ReceiveControl(p)
      PROVE  CodecsInv'
  <2>1. PICK m \in wire :
          /\ m.case = "control" /\ wire' = wire \ {m}
          /\ heard' = heard \cup {Codecs!DecodeControl(m.msg)}
          /\ UNCHANGED <<minted, log, parked, refused, said>>
    BY <1>7 DEF Codecs!ReceiveControl
  <2>2. PICK c \in said : m.msg = Codecs!EncodeControl(c)
    BY <2>1 DEF CodecsInv
  <2>3. c = [field \in {"case", "filter", "text"} |-> c[field]] /\ c.text # Empty
    BY <2>2, MCValuesAssumption DEF Codecs!Assumptions, CodecsInv
  <2>4. Codecs!DecodeControl(m.msg) = c
    BY <2>2, <2>3 DEF Codecs!DecodeControl, Codecs!EncodeControl, Codecs!OrElse, Codecs!UnlessEmpty
  <2> QED BY <2>1, <2>2, <2>4 DEF CodecsInv
<1>8. CASE UNCHANGED codecs
  BY <1>8 DEF codecs, CodecsInv
<1> QED
  <2>1. CASE Codecs!Next
    BY <1>2, <1>3, <1>4, <1>5, <1>6, <1>7, <2>1 DEF Codecs!Next
  <2> QED BY <1>8, <2>1

LEMMA CodecsInit ==
  ASSUME Codecs!Init
  PROVE  CodecsInv
BY DEF Codecs!Init, CodecsInv

(* Whatever stores the engines have and whatever way an operation takes    *)
(* between them, every log entry is one that was minted, field by field    *)
(* (read_row, decodeSqliteOps, nativeToOperation, toProtoOperation and     *)
(* their counterparts); only a number that is no safe integer makes a      *)
(* batch refused; control messages are heard as they were said.            *)
THEOREM OperationsAreCarriedUnaltered == ValuesSpec => []CarriedUnaltered
<1>1. ValuesInit => CodecsInv
  BY CodecsInit DEF ValuesInit
<1>2. CodecsInv /\ [ValuesNext]_<<part, vars, entries, codecs>> => CodecsInv'
  <2> SUFFICES ASSUME CodecsInv, [ValuesNext]_<<part, vars, entries, codecs>>
               PROVE  CodecsInv'
    OBVIOUS
  <2>1. Codecs!Next \/ UNCHANGED codecs
    BY DEF ValuesNext
  <2> QED BY <2>1, CodecsNext
<1>3. CodecsInv => CarriedUnaltered
  <2>1. CodecsInv => \A p \in Peer : log[p] \subseteq minted
    BY DEF CodecsInv
  <2> QED BY <2>1 DEF CarriedUnaltered, Codecs!CarriedUnaltered, CodecsInv, FitsNumber
<1> QED BY <1>1, <1>2, <1>3, PTL DEF ValuesSpec
=============================================================================
