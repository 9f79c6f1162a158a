---------------------------- MODULE VersionVector ----------------------------
(***************************************************************************)
(* The gap-aware version vector (treecrdt-core/src/version_vector.rs): for *)
(* each replica a contiguous frontier and a sorted list of ranges beyond   *)
(* it.  The other modules treat a version vector as the set of ids it      *)
(* contains; this one shows that it behaves like that set.                 *)
(***************************************************************************)
EXTENDS Naturals, FiniteSetsExt, SequencesExt

CONSTANTS
  Vector,     \* the version vectors in play
  Replica,    \* replica ids
  MaxSeen     \* bound: the largest counter of each replica

Assumptions == MaxSeen \in [Replica -> Nat]

VARIABLE entries   \* VersionVector::entries of each vector

-----------------------------------------------------------------------------
(* ReplicaVersion.                                                         *)

Default == [frontier |-> 0, ranges |-> <<>>]

\* max_seen: the end of the last range, if there is one
MaxSeenOf(v) ==
  IF v.ranges = <<>> THEN v.frontier ELSE Max({Last(v.ranges)[2], v.frontier})

\* absorb_frontier_ranges: the leading ranges that follow each other and the
\* frontier without a gap become part of it
AbsorbFrontierRanges(v) ==
  LET frontierAfter(i) == IF i = 0 THEN v.frontier ELSE v.ranges[i][2]
      absorbed == Max({i \in 0 .. Len(v.ranges) :
                         \A j \in 1 .. i : v.ranges[j][1] = frontierAfter(j - 1) + 1})
  IN [frontier |-> frontierAfter(absorbed),
      ranges |-> SubSeq(v.ranges, absorbed + 1, Len(v.ranges))]

\* merge_with_next, at a position of the list
MergeWithNext(ranges, idx) ==
  IF idx + 1 <= Len(ranges) /\ ranges[idx + 1][1] <= ranges[idx][2] + 1
  THEN RemoveAt([ranges EXCEPT ![idx] = <<@[1], Max({@[2], ranges[idx + 1][2]})>>], idx + 1)
  ELSE ranges

\* The ranges with counter c, which is beyond the frontier, added.
AddPoint(ranges, c) ==
  LET next == Min({i \in 1 .. Len(ranges) + 1 :
                     i = Len(ranges) + 1 \/ ranges[i][1] >= c})
      prev == next - 1
  IN IF prev > 0 /\ c <= ranges[prev][2]
     THEN ranges
     ELSE IF prev > 0 /\ c = ranges[prev][2] + 1
     THEN MergeWithNext([ranges EXCEPT ![prev] = <<@[1], c>>], prev)
     ELSE IF next <= Len(ranges) /\ c + 1 = ranges[next][1]
     THEN LET extended == [ranges EXCEPT ![next] = <<c, @[2]>>]
          IN IF prev > 0 THEN MergeWithNext(extended, prev) ELSE extended
     ELSE IF next <= Len(ranges) /\ c \in ranges[next][1] .. ranges[next][2]
     THEN ranges
     ELSE InsertAt(ranges, next, <<c, c>>)

ObserveCounter(v, c) ==
  IF c <= v.frontier THEN v
  ELSE IF c = v.frontier + 1 THEN AbsorbFrontierRanges([v EXCEPT !.frontier = c])
  ELSE [v EXCEPT !.ranges = AddPoint(@, c)]

\* Fault variant: a range that starts below the frontier counts as contained.
ContainsStart(v, first, last) ==
  /\ first # 0 /\ last # 0 /\ first <= last
  /\ \/ first <= v.frontier
     \/ \E i \in 1 .. Len(v.ranges) :
          v.ranges[i][1] <= first /\ v.ranges[i][2] >= last

ContainsRange(v, first, last) ==
  /\ first # 0 /\ last # 0 /\ first <= last
  /\ \/ last <= v.frontier
     \/ /\ first > v.frontier
        /\ \E i \in 1 .. Len(v.ranges) :
             /\ v.ranges[i][1] <= first /\ v.ranges[i][2] >= last
             /\ \A j \in 1 .. i : v.ranges[j][1] <= first

IsSupersetOf(v, w) ==
  /\ v.frontier >= w.frontier
  /\ \A i \in 1 .. Len(w.ranges) : ContainsRange(v, w.ranges[i][1], w.ranges[i][2])

\* The frontier as a range, then the ranges.
AsRanges(v) == (IF v.frontier > 0 THEN <<<<1, v.frontier>>>> ELSE <<>>) \o v.ranges

\* all.sort_by_key(start): each range goes behind those that start no later.
InsertByStart(sorted, range) ==
  LET place == Min({i \in 1 .. Len(sorted) + 1 :
                      i = Len(sorted) + 1 \/ sorted[i][1] > range[1]})
  IN InsertAt(sorted, place, range)

SortByStart(all) ==
  LET sorted[i \in 0 .. Len(all)] ==
        IF i = 0 THEN <<>> ELSE InsertByStart(sorted[i - 1], all[i])
  IN sorted[Len(all)]

\* Fault variant: the end of the later range always wins.
MergeRangeToLast(merged, range) ==
  IF range[1] = 0 \/ range[2] = 0 \/ range[1] > range[2] THEN merged
  ELSE IF merged # <<>> /\ range[1] <= Last(merged)[2] + 1
  THEN [merged EXCEPT ![Len(merged)] = <<@[1], range[2]>>]
  ELSE Append(merged, range)

\* The next range in order: ignored, part of the last one, or one of its own.
MergeRange(merged, range) ==
  IF range[1] = 0 \/ range[2] = 0 \/ range[1] > range[2] THEN merged
  ELSE IF merged # <<>> /\ range[1] <= Last(merged)[2] + 1
  THEN [merged EXCEPT ![Len(merged)] = <<@[1], Max({@[2], range[2]})>>]
  ELSE Append(merged, range)

\* The sorted list of ranges with overlapping and adjacent ones merged.
MergeRanges(sorted) ==
  LET merged[i \in 0 .. Len(sorted)] ==
        IF i = 0 THEN <<>> ELSE MergeRange(merged[i - 1], sorted[i])
  IN merged[Len(sorted)]

\* The first merged range is the frontier if it starts at 1.
FromRanges(merged) ==
  AbsorbFrontierRanges(
    IF merged # <<>> /\ merged[1][1] = 1
    THEN [frontier |-> merged[1][2], ranges |-> Tail(merged)]
    ELSE [frontier |-> 0, ranges |-> merged])

UnionOf(v, w) ==
  IF w = Default THEN v
  ELSE FromRanges(MergeRanges(SortByStart(AsRanges(v) \o AsRanges(w))))

-----------------------------------------------------------------------------
(* VersionVector.                                                          *)

EntryOf(vv, r) == IF r \in DOMAIN vv THEN vv[r] ELSE Default

Observed(vv, r, c) ==
  [s \in DOMAIN vv \cup {r} |->
     IF s = r THEN ObserveCounter(EntryOf(vv, s), c) ELSE vv[s]]

Merged(vv, other) ==
  [s \in DOMAIN vv \cup DOMAIN other |->
     IF s \in DOMAIN other THEN UnionOf(EntryOf(vv, s), other[s]) ELSE vv[s]]

IsAwareOf(vv, other) ==
  \A r \in DOMAIN other : IsSupersetOf(EntryOf(vv, r), other[r])

Get(vv, r) == MaxSeenOf(EntryOf(vv, r))
Frontier(vv, r) == EntryOf(vv, r).frontier

EmptyVector == [r \in {} |-> Default]

Init == entries = [x \in Vector |-> EmptyVector]

New(x) == entries' = [entries EXCEPT ![x] = EmptyVector]

Observe(x, r, c) == entries' = [entries EXCEPT ![x] = Observed(@, r, c)]

Merge(x, y) == entries' = [entries EXCEPT ![x] = Merged(@, entries[y])]

Next ==
  \E x \in Vector :
    \/ New(x)
    \/ \E r \in Replica : \E c \in 0 .. MaxSeen[r] : Observe(x, r, c)
    \/ \E y \in Vector : Merge(x, y)

Spec == Init /\ [][Next]_entries

-----------------------------------------------------------------------------
(* Properties.                                                             *)

(* "sorted by start, non-overlapping, and every range has start >          *)
(* frontier + 1": and never adjacent, so that equal knowledge is           *)
(* represented equally.                                                    *)
Normalized ==
  \A x \in Vector : \A r \in DOMAIN entries[x] :
    LET v == entries[x][r]
    IN \A i \in 1 .. Len(v.ranges) :
         /\ v.ranges[i][1] <= v.ranges[i][2]
         /\ v.ranges[i][1] > v.frontier + 1
         /\ i > 1 => v.ranges[i][1] > v.ranges[i - 1][2] + 1

(* The counters of a replica, and the ids, that a version vector contains. *)
CountersOf(v) ==
  (1 .. v.frontier)
  \cup UNION {v.ranges[i][1] .. v.ranges[i][2] : i \in 1 .. Len(v.ranges)}

Contents(vv) == UNION {{r} \X CountersOf(vv[r]) : r \in DOMAIN vv}
Known == [x \in Vector |-> Contents(entries[x])]

(* is_aware_of, which decides whether a delete hides a subtree, is the     *)
(* inclusion of what the vectors contain, whatever gaps they have.         *)
AwarenessIsInclusion ==
  \A x, y \in Vector :
    IsAwareOf(entries[x], entries[y]) <=> Contents(entries[y]) \subseteq Contents(entries[x])

(* get is the largest counter contained, from which a replica resumes its  *)
(* own counter; frontier is the end of the gap-free part.                  *)
GetAndFrontier ==
  \A x \in Vector : \A r \in Replica :
    LET seen == {c \in 1 .. MaxSeen[r] : <<r, c>> \in Contents(entries[x])}
    IN /\ Get(entries[x], r) = Max(seen \cup {0})
       /\ Frontier(entries[x], r) = Max({c \in 0 .. MaxSeen[r] : 1 .. c \subseteq seen})

(* observe and merge add to the set of ids exactly what they are given: no *)
(* counter is lost when ranges meet and none appears in a gap.             *)
Sets == INSTANCE KnowledgeSets WITH known <- Known
ImplementsSets == Sets!Spec
=============================================================================
