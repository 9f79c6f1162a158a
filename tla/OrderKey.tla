------------------------------ MODULE OrderKey ------------------------------
(***************************************************************************)
(* Order keys of siblings (treecrdt-core/src/order_key.rs).  A key is the  *)
(* sequence of its digits; the byte string stored is the digits at a fixed *)
(* width, most significant byte first, so bytes compare as digits do.  The *)
(* digits a seed selects (sample_u64, an FNV hash of replica and counter)  *)
(* are any of those the code allows.                                       *)
(***************************************************************************)
EXTENDS Integers, Sequences

CONSTANTS
  MaxDigit,   \* u16::MAX
  Boundary    \* DEFAULT_BOUNDARY

ASSUME DigitAssumption == MaxDigit \in Nat /\ MaxDigit >= 2
ASSUME BoundaryAssumption == Boundary \in Nat /\ Boundary >= 1

Key == Seq(0 .. MaxDigit)

\* Lexicographic order of keys; a proper prefix is smaller.
Less(a, b) ==
  \E d \in 1 .. Len(b) :
    /\ d <= Len(a) + 1
    /\ \A i \in 1 .. d - 1 : a[i] = b[i]
    /\ d = Len(a) + 1 \/ a[d] < b[d]

\* left_digits.get(depth).unwrap_or(0), right_digits.get(depth).unwrap_or(MAX);
\* an absent left or right neighbour is the empty key.
LeftDigit(left, d) == IF d <= Len(left) THEN left[d] ELSE 0
RightDigit(right, d) == IF d <= Len(right) THEN right[d] ELSE MaxDigit

Crossed(left, right, d) == RightDigit(right, d) < LeftDigit(left, d)
HasRoom(left, right, d) == RightDigit(right, d) > LeftDigit(left, d) + 1

\* The depth at which the loop ends: every digit before it leaves no room.
EndsAt(left, right, d) ==
  /\ Crossed(left, right, d) \/ HasRoom(left, right, d)
  /\ \A i \in 1 .. d - 1 : ~Crossed(left, right, i) /\ ~HasRoom(left, right, i)

Depths(left, right) == 1 .. (Len(left) + Len(right) + 1)

\* choose_side and choose_in_range: the digits a seed may select
DigitChoices(ld, rd) ==
  LET gap == rd - ld - 1
  IN IF gap > Boundary
     THEN (ld + 1 .. ld + Boundary) \cup (rd - Boundary .. rd - 1)
     ELSE ld + 1 .. rd - 1

\* allocate_between returns an error, "right < left".
AllocationFails(left, right) ==
  \E d \in Depths(left, right) : EndsAt(left, right, d) /\ Crossed(left, right, d)

\* The digits of left before depth d, then digit x.
Extended(left, d, x) ==
  [i \in 1 .. d |-> IF i = d THEN x ELSE LeftDigit(left, i)]

\* allocate_between: the keys it may return
Allocated(left, right) ==
  UNION {{Extended(left, d, x) :
            x \in DigitChoices(LeftDigit(left, d), RightDigit(right, d))} :
         d \in {e \in Depths(left, right) :
                  EndsAt(left, right, e) /\ ~Crossed(left, right, e)}}

-----------------------------------------------------------------------------
(* What allocate_between relies on and keeps: a key has a digit, no digit  *)
(* is the largest (ld + 1 would overflow), and the last is not 0 (below a  *)
(* key that ends in 0 there is no room next to its prefix).                *)
WellFormed(k) ==
  /\ k \in Key /\ Len(k) > 0
  /\ \A i \in 1 .. Len(k) : k[i] < MaxDigit
  /\ k[Len(k)] > 0
=============================================================================
