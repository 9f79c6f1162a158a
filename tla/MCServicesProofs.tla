-------------------------- MODULE MCServicesProofs --------------------------
(***************************************************************************)
(* Theorems about the services of MCServices, for all values of the        *)
(* parameters of the sync server, the upgrade gate, discovery, the         *)
(* presence mesh and the client of the SQLite worker.  Each of these parts *)
(* has an inductive invariant of its own; a step of the composition is a   *)
(* step of one part and leaves the others alone.                           *)
(***************************************************************************)
EXTENDS MCServices, FiniteSetTheorems, TLAPS

all_vars == <<part, server, gate, routes, mesh, wa>>

\* A finite set of at most n elements.
AtMost(S, n) == IsFiniteSet(S) /\ Cardinality(S) <= n

(* Part of a set of at most n elements has at most n elements. *)
LEMMA AtMostSubset ==
  ASSUME NEW S, NEW T, NEW n \in Nat, AtMost(S, n), T \subseteq S
  PROVE  AtMost(T, n)
<1>1. IsFiniteSet(T) /\ Cardinality(T) <= Cardinality(S)
  BY FS_Subset DEF AtMost
<1>2. Cardinality(S) \in Nat /\ Cardinality(T) \in Nat
  BY <1>1, FS_CardinalityType DEF AtMost
<1> QED BY <1>1, <1>2 DEF AtMost

(* One more element. *)
LEMMA AtMostAdd ==
  ASSUME NEW S, NEW x, NEW n \in Nat, AtMost(S, n)
  PROVE  AtMost(S \cup {x}, n + 1)
<1>1. Cardinality(S) \in Nat
  BY FS_CardinalityType DEF AtMost
<1> QED BY <1>1, FS_AddElement DEF AtMost

(* The union of two. *)
LEMMA AtMostUnion ==
  ASSUME NEW S, NEW T, NEW m \in Nat, NEW n \in Nat, AtMost(S, m), AtMost(T, n)
  PROVE  AtMost(S \cup T, m + n)
<1>1. /\ IsFiniteSet(S \cup T)
      /\ Cardinality(S \cup T) = Cardinality(S) + Cardinality(T) - Cardinality(S \cap T)
  BY FS_Union DEF AtMost
<1>2. IsFiniteSet(S \cap T)
  <2>1. S \cap T \in SUBSET S
    OBVIOUS
  <2> QED BY <2>1, FS_Subset DEF AtMost
<1>3. Cardinality(S) \in Nat /\ Cardinality(T) \in Nat /\ Cardinality(S \cap T) \in Nat
  BY <1>2, FS_CardinalityType DEF AtMost
<1> QED BY <1>1, <1>3 DEF AtMost

-----------------------------------------------------------------------------
(* The gate: createRateLimiter's fixed windows. *)

Events(a) == {e \in admitted : e[1] = a}
\* Let through in the window that starts at t, and in the window before it.
Since(a, t) == {e \in admitted : e[1] = a /\ e[2] >= t}
Before(a, t) == {e \in admitted : e[1] = a /\ e[2] < t /\ e[2] + Window > t}
Within(a, t) == {e \in admitted : e[1] = a /\ e[2] >= t /\ e[2] < t + Window}

GateTypeOK ==
    /\ now \in Nat /\ pruned \in Nat
    /\ buckets \in [Addr -> SUBSET [startedAt : 0..now, count : Nat \ {0}]]
    /\ DOMAIN req = Request
    /\ \A r \in Request : req[r].stage = "rate_limit" => req[r].addr \in Addr
    /\ admitted \subseteq Addr \X (0..now) \X Request
    /\ IsFiniteSet(admitted)

\* One bucket counts what it let through; what was let through in the window before it
\* started is bounded too, since the bucket then in force had expired.
BucketsCount ==
    \A a \in Addr :
      /\ \A b, c \in buckets[a] : b = c
      /\ \A b \in buckets[a] :
            /\ AtMost(Since(a, b.startedAt), MaxUpgrades)
            /\ AtMost(Since(a, b.startedAt), b.count)
            /\ AtMost(Before(a, b.startedAt), MaxUpgrades)
            /\ \A e \in Events(a) : e[2] < b.startedAt + Window
      /\ buckets[a] = {} =>
            /\ AtMost(Before(a, now), MaxUpgrades)
            /\ \A e \in Events(a) : e[2] < now

WindowsAreBounded == \A a \in Addr, t \in Nat : AtMost(Within(a, t), 2 * MaxUpgrades)

GateInv == GateTypeOK /\ BucketsCount /\ WindowsAreBounded

(* The gate starts without buckets and without admitted requests. *)
LEMMA GateInit == Gate!Assumptions /\ Gate!Init => GateInv
<1> SUFFICES ASSUME Gate!Assumptions, Gate!Init PROVE GateInv
  OBVIOUS
<1> USE DEF Gate!Init, Gate!Assumptions
<1>1. AtMost({}, MaxUpgrades) /\ AtMost({}, 2 * MaxUpgrades)
  BY FS_EmptySet DEF AtMost
<1>2. GateTypeOK
  BY FS_EmptySet DEF GateTypeOK
<1>3. BucketsCount
  <2>1. \A a \in Addr : Before(a, now) = {} /\ Events(a) = {} /\ buckets[a] = {}
    BY DEF Before, Events
  <2> QED BY <1>1, <2>1 DEF BucketsCount
<1>4. WindowsAreBounded
  <2>1. \A a \in Addr, t \in Nat : Within(a, t) = {}
    BY DEF Within
  <2> QED BY <1>1, <2>1 DEF WindowsAreBounded
<1> QED BY <1>2, <1>3, <1>4 DEF GateInv

(* An address whose bucket has expired or is gone: what it was let through in the last window *)
(* was counted by that bucket.                                                               *)
LEMMA ExpiredBuckets ==
  ASSUME Gate!Assumptions, GateInv, NEW a \in Addr,
         \A b \in buckets[a] : b.startedAt + Window <= now
  PROVE  AtMost(Before(a, now), MaxUpgrades) /\ \A e \in Events(a) : e[2] < now
<1>1. Window \in Nat \ {0} /\ MaxUpgrades \in Nat
  BY DEF Gate!Assumptions
<1>2. now \in Nat /\ \A e \in admitted : e[2] \in Nat
  BY DEF GateInv, GateTypeOK
<1>3. CASE buckets[a] = {}
  BY <1>3 DEF GateInv, BucketsCount
<1>4. CASE buckets[a] # {}
  <2>1. PICK b \in buckets[a] : TRUE
    BY <1>4
  <2>2. b.startedAt \in Nat /\ b.startedAt + Window <= now
    BY <2>1 DEF GateInv, GateTypeOK
  <2>3. AtMost(Since(a, b.startedAt), MaxUpgrades) /\ \A e \in Events(a) : e[2] < b.startedAt + Window
    BY <2>1 DEF GateInv, BucketsCount
  <2>4. Before(a, now) \subseteq Since(a, b.startedAt)
    BY <1>1, <1>2, <2>2 DEF Before, Since
  <2>5. AtMost(Before(a, now), MaxUpgrades)
    BY <1>1, <2>3, <2>4, AtMostSubset
  <2>6. \A e \in Events(a) : e[2] < now
    BY <1>1, <1>2, <2>2, <2>3 DEF Events
  <2> QED BY <2>5, <2>6
<1> QED BY <1>3, <1>4

(* The steps that do not ask the rate limit. *)
LEMMA GateSteps ==
  ASSUME Gate!Assumptions, GateInv, [Gate!Next]_gate, \A r \in Request : ~Gate!RateLimit(r)
  PROVE  GateInv'
<1>2. ASSUME UNCHANGED <<now, buckets, admitted>>, GateTypeOK' PROVE GateInv'
  BY <1>2 DEF GateInv, BucketsCount, WindowsAreBounded, Since, Before, Within, Events
<1>1. CASE gate' = gate
  <2>1. UNCHANGED <<now, buckets, pruned, req, admitted>>
    BY <1>1 DEF gate
  <2> QED BY <1>2, <2>1 DEF GateInv, GateTypeOK
<1>3. ASSUME NEW r \in Request, NEW a \in Addr, NEW d \in Doc, NEW token \in BOOLEAN, Gate!Arrive(r, a, d, token)
      PROVE  GateInv'
  BY <1>2, <1>3 DEF Gate!Arrive, GateInv, GateTypeOK
<1>4. ASSUME NEW r \in Request, Gate!Authenticate(r) \/ Gate!Authorize(r)
      PROVE  GateInv'
  <2>1. /\ UNCHANGED <<now, buckets, pruned, admitted>>
        /\ \E s \in {"authenticate", "authorize", "open", "denied"} : req' = [req EXCEPT ![r].stage = s]
    BY <1>4 DEF Gate!Authenticate, Gate!Authorize
  <2> QED BY <1>2, <2>1 DEF GateInv, GateTypeOK
<1>5. ASSUME NEW d \in Doc, Gate!Create(d) PROVE GateInv'
  BY <1>2, <1>5 DEF Gate!Create, GateInv, GateTypeOK
<1>6. CASE Gate!Tick
  <2>1. now' = now + 1 /\ UNCHANGED <<buckets, pruned, req, admitted>>
    BY <1>6 DEF Gate!Tick
  <2>2. now \in Nat /\ \A e \in admitted : e[2] \in Nat
    BY DEF GateInv, GateTypeOK
  <2>3. Window \in Nat \ {0} /\ MaxUpgrades \in Nat
    BY DEF Gate!Assumptions
  <2>4. GateTypeOK'
    <3>1. 0..now \subseteq 0..(now + 1)
      BY <2>2
    <3>2. (GateTypeOK /\ now' = now + 1 /\ UNCHANGED <<buckets, pruned, req, admitted>>)
      BY <2>1 DEF GateInv
    <3> QED BY <2>2, <3>1, <3>2 DEF GateTypeOK
  <2>5. WindowsAreBounded'
    BY <2>1 DEF GateInv, WindowsAreBounded, Within
  <2>6. ASSUME NEW a \in Addr, buckets[a] = {}
        PROVE  AtMost(Before(a, now)', MaxUpgrades) /\ \A e \in Events(a) : e[2] < now + 1
    <3>1. AtMost(Before(a, now), MaxUpgrades) /\ \A e \in Events(a) : e[2] < now
      BY <2>6 DEF GateInv, BucketsCount
    <3>2. Before(a, now)' \subseteq Before(a, now)
      BY <2>1, <2>2, <2>3, <3>1 DEF Before, Events
    <3> QED BY <2>2, <2>3, <3>1, <3>2, AtMostSubset DEF Events
  <2>7. BucketsCount'
    <3>1. BucketsCount
      BY DEF GateInv
    <3>2. /\ \A a : Events(a)' = Events(a)
          /\ \A a, t : Since(a, t)' = Since(a, t)
      BY <2>1 DEF Events, Since
    <3>3. \A a : \A b \in buckets[a] : Before(a, b.startedAt)' = Before(a, b.startedAt)
      BY <2>1 DEF Before
    <3> QED BY <2>1, <2>6, <3>1, <3>2, <3>3, SMTT(30) DEF BucketsCount, Since, AtMost
  <2> QED BY <2>4, <2>5, <2>7 DEF GateInv
<1> QED BY <1>1, <1>3, <1>4, <1>5, <1>6 DEF Gate!Next

(* createIpRateLimitHook. *)
LEMMA GateRateLimit ==
  ASSUME Gate!Assumptions, GateInv, NEW r \in Request, Gate!RateLimit(r)
  PROVE  GateInv'
<1>0. PICK a, P, cur, old, b, passes, new :
         /\ a = req[r].addr /\ P = Gate!Pruned
         /\ cur = Gate!Counting(P[a]) /\ old = CHOOSE o \in cur : TRUE
         /\ b = IF cur = {} THEN [startedAt |-> now, count |-> 1] ELSE [old EXCEPT !.count = @ + 1]
         /\ passes = (cur = {} \/ b.count <= MaxUpgrades)
         /\ new = <<a, now, r>>
  OBVIOUS
<1>1. /\ req[r].stage = "rate_limit"
      /\ buckets' = [P EXCEPT ![a] = {b}]
      /\ admitted' = IF passes THEN admitted \cup {new} ELSE admitted
      /\ now' = now
      /\ pruned' = Gate!PrunedAt
      /\ \E s \in {"authenticate", "denied"} : req' = [req EXCEPT ![r].stage = s]
  BY <1>0 DEF Gate!RateLimit
<1>2. /\ Window \in Nat \ {0} /\ MaxUpgrades \in Nat \ {0} /\ now \in Nat
      /\ a \in Addr
      /\ \A e \in admitted : e[2] \in 0..now
      /\ \A x \in Addr : \A c \in buckets[x] : c \in [startedAt : 0..now, count : Nat \ {0}]
  BY <1>0, <1>1 DEF Gate!Assumptions, GateInv, GateTypeOK
<1>3. /\ DOMAIN P = Addr
      /\ \A x \in Addr : P[x] \subseteq buckets[x]
      /\ \A x \in Addr : \A c \in buckets[x] : c \notin P[x] => c.startedAt + Window <= now
  <2>1. CASE P = buckets
    BY <2>1 DEF GateInv, GateTypeOK
  <2>2. CASE P # buckets
    <3>1. P = [x \in Addr |-> {c \in buckets[x] : c.startedAt + Window > now}]
      BY <1>0, <2>2 DEF Gate!Pruned
    <3>2. \A x \in Addr : \A c \in buckets[x] : ~(c.startedAt + Window > now) => c.startedAt + Window <= now
      BY <1>2
    <3> QED BY <3>1, <3>2
  <2> QED BY <2>1, <2>2
<1>4. cur = {} => \A c \in buckets[a] : c.startedAt + Window <= now
  <2>1. ASSUME cur = {}, NEW c \in buckets[a], c \in P[a]
        PROVE  c.startedAt + Window <= now
    <3>1. ~(now - c.startedAt < Window)
      BY <1>0, <2>1 DEF Gate!Counting
    <3> QED BY <1>2, <3>1
  <2> QED BY <1>2, <1>3, <2>1
<1>5. cur # {} => old \in buckets[a] /\ now < old.startedAt + Window
  <2>1. ASSUME cur # {} PROVE old \in P[a] /\ now - old.startedAt < Window
    BY <1>0, <2>1 DEF Gate!Counting
  <2> QED BY <1>2, <1>3, <2>1
<1>6. b \in [startedAt : 0..now, count : Nat \ {0}]
  BY <1>0, <1>2, <1>5
<1>7. /\ buckets'[a] = {b}
      /\ \A x \in Addr \ {a} : buckets'[x] = P[x]
      /\ DOMAIN buckets' = Addr
  BY <1>1, <1>2, <1>3
<1>8. \A e \in admitted' : e \in admitted \/ (passes /\ e = new)
  BY <1>1
<1>9. GateTypeOK'
  <2>1. buckets' \in [Addr -> SUBSET [startedAt : 0..now', count : Nat \ {0}]]
    <3>1. \A x \in Addr : buckets'[x] \subseteq [startedAt : 0..now, count : Nat \ {0}]
      BY <1>2, <1>3, <1>6, <1>7
    <3>2. buckets' = [x \in Addr |-> buckets'[x]]
      BY <1>1, <1>3
    <3> QED BY <1>1, <3>1, <3>2
  <2>2. IsFiniteSet(admitted')
    BY <1>1, FS_AddElement DEF GateInv, GateTypeOK
  <2>3. pruned' \in Nat
    BY <1>1, <1>2 DEF Gate!PrunedAt, GateInv, GateTypeOK
  <2>4. DOMAIN req' = Request /\ \A q \in Request : req'[q].stage = "rate_limit" => req'[q].addr \in Addr
    BY <1>1 DEF GateInv, GateTypeOK
  <2>5. admitted' \subseteq Addr \X (0..now') \X Request
    <3>1. new \in Addr \X (0..now) \X Request
      BY <1>0, <1>2
    <3> QED BY <1>1, <1>8, <3>1 DEF GateInv, GateTypeOK
  <2> QED BY <1>1, <1>2, <2>1, <2>2, <2>3, <2>4, <2>5 DEF GateTypeOK
<1>10. /\ \A x \in Addr \ {a} : Events(x)' = Events(x)
       /\ \A x \in Addr \ {a} : \A t : Since(x, t)' = Since(x, t) /\ Before(x, t)' = Before(x, t)
  BY <1>0, <1>1 DEF Events, Since, Before
<1>11. ASSUME NEW x \in Addr \ {a}
       PROVE  /\ \A c \in P[x] :
                   /\ AtMost(Since(x, c.startedAt), MaxUpgrades)
                   /\ AtMost(Since(x, c.startedAt), c.count)
                   /\ AtMost(Before(x, c.startedAt), MaxUpgrades)
                   /\ \A e \in Events(x) : e[2] < c.startedAt + Window
              /\ \A c, d \in P[x] : c = d
              /\ P[x] = {} => AtMost(Before(x, now), MaxUpgrades) /\ \A e \in Events(x) : e[2] < now
  <2>1. P[x] = {} => \A c \in buckets[x] : c.startedAt + Window <= now
    BY <1>3
  <2> QED BY <1>3, <2>1, ExpiredBuckets DEF GateInv, BucketsCount
<1>12. /\ AtMost(Since(a, b.startedAt)', MaxUpgrades)
       /\ AtMost(Since(a, b.startedAt)', b.count)
       /\ AtMost(Before(a, b.startedAt)', MaxUpgrades)
       /\ \A e \in Events(a)' : e[2] < b.startedAt + Window
  <2>1. CASE cur = {}
    <3>1. b.startedAt = now /\ b.count = 1 /\ passes
      BY <1>0, <2>1
    <3>2. AtMost(Before(a, now), MaxUpgrades) /\ \A e \in Events(a) : e[2] < now
      BY <1>2, <1>4, <2>1, ExpiredBuckets
    <3>3. Before(a, now)' = Before(a, now)
      <4>1. admitted' = admitted \cup {new} /\ new[2] = now
        BY <1>0, <1>1, <3>1
      <4> QED BY <1>1, <1>2, <4>1 DEF Before
    <3>4. Since(a, now)' \subseteq {new}
      BY <1>0, <1>1, <1>2, <1>8, <3>2 DEF Since, Events
    <3>5. AtMost({new}, 1) /\ AtMost({new}, MaxUpgrades)
      <4>1. IsFiniteSet({new}) /\ Cardinality({new}) = 1
        BY FS_Singleton
      <4> QED BY <1>2, <4>1 DEF AtMost
    <3>6. AtMost(Since(a, now)', 1) /\ AtMost(Since(a, now)', MaxUpgrades)
      <4> QED BY <1>2, <3>4, <3>5, AtMostSubset
    <3>7. \A e \in Events(a)' : e[2] < now + Window
      BY <1>0, <1>2, <1>8, <3>2 DEF Events
    <3>8. Since(a, b.startedAt)' = Since(a, now)' /\ Before(a, b.startedAt)' = Before(a, now)'
      BY <1>1, <3>1 DEF Since, Before
    <3> QED BY <3>1, <3>2, <3>3, <3>6, <3>7, <3>8
  <2>2. CASE cur # {}
    <3>1. /\ old \in buckets[a] /\ now < old.startedAt + Window
          /\ b.startedAt = old.startedAt /\ b.count = old.count + 1
          /\ old.startedAt \in 0..now /\ old.count \in Nat \ {0}
      BY <1>0, <1>2, <1>5, <2>2
    <3>2. /\ AtMost(Since(a, old.startedAt), MaxUpgrades)
          /\ AtMost(Since(a, old.startedAt), old.count)
          /\ AtMost(Before(a, old.startedAt), MaxUpgrades)
          /\ \A e \in Events(a) : e[2] < old.startedAt + Window
      BY <1>2, <3>1 DEF GateInv, BucketsCount
    <3>3. Since(a, old.startedAt)' \subseteq Since(a, old.startedAt) \cup (IF passes THEN {new} ELSE {})
      BY <1>1, <1>8 DEF Since
    <3>4. Before(a, old.startedAt)' \subseteq Before(a, old.startedAt)
      <4>1. ~(new[2] < old.startedAt)
        BY <1>0, <1>2, <3>1
      <4>2. \A e \in admitted' : e[2] < old.startedAt => e \in admitted
        BY <1>8, <4>1
      <4> QED BY <4>2 DEF Before
    <3>5. \A e \in Events(a)' : e[2] < old.startedAt + Window
      <4>1. SUFFICES ASSUME NEW e \in admitted', e[1] = a PROVE e[2] < old.startedAt + Window
        BY DEF Events
      <4>2. CASE e \in admitted
        BY <3>2, <4>1, <4>2 DEF Events
      <4>3. CASE e = new
        BY <1>0, <3>1, <4>3
      <4> QED BY <1>8, <4>2, <4>3
    <3>6. AtMost(Since(a, old.startedAt)', old.count + 1)
      <4>1. AtMost(Since(a, old.startedAt) \cup {new}, old.count + 1)
        BY <3>1, <3>2, AtMostAdd
      <4>2. Since(a, old.startedAt)' \subseteq Since(a, old.startedAt) \cup {new}
        BY <3>3
      <4> QED BY <3>1, <4>1, <4>2, AtMostSubset
    <3>7. AtMost(Since(a, old.startedAt)', MaxUpgrades)
      <4>1. CASE passes
        <5>1. old.count + 1 <= MaxUpgrades
          BY <1>0, <2>2, <3>1, <4>1
        <5>2. Cardinality(Since(a, old.startedAt)') \in Nat
          BY <3>6, FS_CardinalityType DEF AtMost
        <5> QED BY <1>2, <3>1, <3>6, <5>1, <5>2 DEF AtMost
      <4>2. CASE ~passes
        <5>1. Since(a, old.startedAt)' \subseteq Since(a, old.startedAt)
          BY <3>3, <4>2
        <5> QED BY <1>2, <3>2, <5>1, AtMostSubset
      <4> QED BY <4>1, <4>2
    <3>8. AtMost(Before(a, old.startedAt)', MaxUpgrades)
      BY <1>2, <3>2, <3>4, AtMostSubset
    <3> QED BY <3>1, <3>5, <3>6, <3>7, <3>8
  <2> QED BY <2>1, <2>2
<1>13. BucketsCount'
  <2> SUFFICES ASSUME NEW x \in Addr
               PROVE  /\ \A c, d \in buckets'[x] : c = d
                      /\ \A c \in buckets'[x] :
                            /\ AtMost(Since(x, c.startedAt)', MaxUpgrades)
                            /\ AtMost(Since(x, c.startedAt)', c.count)
                            /\ AtMost(Before(x, c.startedAt)', MaxUpgrades)
                            /\ \A e \in Events(x)' : e[2] < c.startedAt + Window
                      /\ buckets'[x] = {} =>
                            /\ AtMost(Before(x, now)', MaxUpgrades)
                            /\ \A e \in Events(x)' : e[2] < now
    BY <1>1 DEF BucketsCount, Since, Before, Events
  <2>1. CASE x = a
    BY <1>7, <1>12, <2>1
  <2>2. CASE x # a
    <3>1. Before(x, now)' = Before(x, now)
      BY <1>1, <1>10, <2>2 DEF Before
    <3> QED BY <1>7, <1>10, <1>11, <2>2, <3>1
  <2> QED BY <2>1, <2>2
<1>14. WindowsAreBounded'
  <2> SUFFICES ASSUME NEW x \in Addr, NEW t \in Nat
               PROVE  AtMost(Within(x, t)', 2 * MaxUpgrades)
    BY DEF WindowsAreBounded
  <2>1. AtMost(Within(x, t), 2 * MaxUpgrades) /\ 2 * MaxUpgrades \in Nat
    BY <1>2 DEF GateInv, WindowsAreBounded
  <2>2. CASE new \in Within(x, t)'
    <3>1. x = a /\ t <= now /\ now < t + Window
      BY <1>0, <2>2 DEF Within
    <3>2. Within(x, t)' \subseteq Since(a, b.startedAt)' \cup Before(a, b.startedAt)'
      <4>1. b.startedAt \in 0..now
        BY <1>6
      <4>2. \A e \in admitted' : e[2] \in Nat
        BY <1>9 DEF GateTypeOK
      <4> QED BY <1>1, <1>2, <3>1, <4>1, <4>2 DEF Within, Since, Before
    <3>3. AtMost(Since(a, b.startedAt)' \cup Before(a, b.startedAt)', MaxUpgrades + MaxUpgrades)
      <4> QED BY <1>2, <1>12, AtMostUnion
    <3>4. MaxUpgrades + MaxUpgrades = 2 * MaxUpgrades
      BY <1>2
    <3> QED BY <2>1, <3>2, <3>3, <3>4, AtMostSubset
  <2>3. CASE new \notin Within(x, t)'
    <3>1. Within(x, t)' \subseteq Within(x, t)
      <4> QED BY <1>8, <2>3 DEF Within
    <3> QED BY <2>1, <3>1, AtMostSubset
  <2> QED BY <2>2, <2>3
<1> QED BY <1>9, <1>13, <1>14 DEF GateInv

(* A step of the gate keeps its invariant. *)
LEMMA GateNext == Gate!Assumptions /\ GateInv /\ [Gate!Next]_gate => GateInv'
BY GateSteps, GateRateLimit

(* The invariant bounds what the rate limit lets through. *)
LEMMA GateInvSuffices == Gate!Assumptions /\ GateInv => Gate!RateIsBounded
<1> SUFFICES ASSUME Gate!Assumptions, GateInv PROVE Gate!RateIsBounded
  OBVIOUS
<1>1. \A a \in Addr, t \in 0..GateTime :
        Cardinality({e \in admitted : e[1] = a /\ e[2] \in t..(t + Window - 1)}) <= 2 * MaxUpgrades
  <2> TAKE a \in Addr, t \in 0..GateTime
  <2>1. {e \in admitted : e[1] = a /\ e[2] \in t..(t + Window - 1)} = Within(a, t)
    <3>1. t \in Nat /\ Window \in Nat \ {0} /\ \A e \in admitted : e[2] \in Nat
      BY DEF Gate!Assumptions, GateInv, GateTypeOK
    <3> QED BY <3>1 DEF Within
  <2>2. AtMost(Within(a, t), 2 * MaxUpgrades)
    BY DEF GateInv, WindowsAreBounded
  <2> QED BY <2>1, <2>2 DEF AtMost
<1>2. \A a \in Addr : \A b \in buckets[a] :
        Cardinality({e \in admitted : e[1] = a /\ e[2] >= b.startedAt}) <= MaxUpgrades
  BY DEF GateInv, BucketsCount, AtMost, Since
<1>3. \A S : Gate!Cardinality(S) = Cardinality(S)
  BY DEF Gate!Cardinality, Cardinality
<1> QED BY <1>1, <1>2, <1>3 DEF Gate!RateIsBounded

-----------------------------------------------------------------------------
(* Discovery: the route cache that several calls share. *)

\* A route was given for this document by the server of this base, and its parts are readable.
GivenFor(response, base, doc) ==
    /\ response.docId = doc /\ response.by = base
    /\ response.ttl \subseteq Nat /\ \A t, u \in response.ttl : t = u
    /\ \A i \in DOMAIN response.attachments : Routes!IsEndpoint(response.attachments[i].url)
\* It arrived at most MaxLatency after it was given.
ArrivedBy(response, t) == response.issued \in 0..t /\ t <= response.issued + MaxLatency

\* An answer on its way is for what its call asked, and a cached route was stored under the
\* key of its document, when its answer arrived.
RoutesInv ==
    /\ clock \in Nat
    /\ DOMAIN call = Call
    /\ \A c \in Call :
          /\ "at" \in DOMAIN call[c]
          /\ call[c].at = "answered" =>
                /\ GivenFor(call[c].response, Routes!DiscoveryBase(call[c].endpoint), call[c].doc)
                /\ ArrivedBy(call[c].response, clock)
    /\ \A k \in DOMAIN cache : \A entry \in cache[k] :
          /\ GivenFor(entry.response, k[1], k[2])
          /\ entry.resolvedAt \in 0..clock
          /\ ArrivedBy(entry.response, entry.resolvedAt)
    /\ Routes!RoutesAreCurrent

(* normalizeDirectSyncWebSocketUrl: a URL it does not throw for becomes a websocket URL. *)
LEMMA DirectUrls ==
  ASSUME NEW e, NEW doc, Routes!IsEndpoint(e), Routes!IsSyncUrl(e)
  PROVE  /\ Routes!DirectUrl(e, doc).doc = doc
         /\ Routes!DirectUrl(e, doc).scheme \in {"ws", "wss"}
         /\ Routes!DirectUrl(e, doc).path # <<>>
<1> DEFINE b == Routes!Based(e, "ws")
<1>1. b.scheme \in {"ws", "wss", "http", "https"}
  BY DEF Routes!IsEndpoint, Routes!IsSyncUrl, Routes!Based
<1> HIDE DEF b
<1>2. Routes!DirectUrl(e, doc) =
        [scheme |-> CASE b.scheme = "http" -> "ws" [] b.scheme = "https" -> "wss" [] OTHER -> b.scheme,
         host |-> b.host, path |-> IF b.path = <<>> THEN <<"sync">> ELSE b.path, doc |-> doc]
  BY DEF Routes!DirectUrl, b
<1> QED BY <1>1, <1>2

(* A route that is returned was given for what its call asked. *)
LEMMA ReturnedIsCurrent ==
  ASSUME NEW c \in Call, NEW response, NEW source \in {"cache", "network"},
         GivenFor(response, Routes!DiscoveryBase(call[c].endpoint), call[c].doc),
         Routes!Returned(c, response, source),
         \A t \in response.ttl :
            clock - response.issued < (IF source = "cache" THEN t + MaxLatency ELSE MaxLatency + 1)
  PROVE  Routes!RoutesAreCurrent'
<1> SUFFICES ASSUME NEW r \in result'
    PROVE  /\ r.url.doc = r.doc /\ r.url.scheme \in {"ws", "wss"} /\ r.url.path # <<>>
           /\ r.source # "direct" =>
                 /\ r.response.docId = r.doc /\ r.response.by = Routes!DiscoveryBase(r.endpoint)
                 /\ \A t \in r.response.ttl :
                       r.at - r.response.issued < (IF r.source = "cache" THEN t + MaxLatency ELSE MaxLatency + 1)
  BY DEF Routes!RoutesAreCurrent
<1>1. PICK a \in Routes!Picked(response) :
        /\ Routes!IsSyncUrl(a.url)
        /\ r = [endpoint |-> call[c].endpoint, doc |-> call[c].doc, source |-> source, at |-> clock,
                response |-> response, url |-> Routes!DirectUrl(a.url, call[c].doc)]
  BY DEF Routes!Returned
<1>2. Routes!IsEndpoint(a.url)
  <2>1. PICK i \in DOMAIN response.attachments : a = response.attachments[i]
    BY DEF Routes!Picked, Routes!First, Routes!Preferred, Routes!WebSockets
  <2> QED BY <2>1 DEF GivenFor
<1>3. r.url.doc = r.doc /\ r.url.scheme \in {"ws", "wss"} /\ r.url.path # <<>>
  BY <1>1, <1>2, DirectUrls
<1> QED BY <1>1, <1>3 DEF GivenFor

(* No call has asked, nothing is cached. *)
LEMMA RoutesInit == Routes!Assumptions /\ Routes!Init => RoutesInv
BY DEF Routes!Assumptions, Routes!Init, Routes!Idle, RoutesInv, Routes!RoutesAreCurrent

(* Every step of discovery keeps its invariant. *)
LEMMA RoutesNext == Routes!Assumptions /\ RoutesInv /\ [Routes!Next]_routes => RoutesInv'
<1> SUFFICES ASSUME Routes!Assumptions, RoutesInv, [Routes!Next]_routes PROVE RoutesInv'
  OBVIOUS
<1>a. /\ clock \in Nat /\ MaxLatency \in Nat
      /\ DOMAIN call = Call
      /\ \A c \in Call : "at" \in DOMAIN call[c]
  BY DEF RoutesInv, Routes!Assumptions
<1>b. ASSUME UNCHANGED <<clock, cache>>, Routes!RoutesAreCurrent',
             NEW c \in Call, DOMAIN call' = Call, \A d \in Call \ {c} : call'[d] = call[d],
             "at" \in DOMAIN call'[c], call'[c].at # "answered"
      PROVE  RoutesInv'
  BY <1>b DEF RoutesInv, GivenFor, ArrivedBy
<1>c. ASSUME UNCHANGED result PROVE Routes!RoutesAreCurrent'
  BY <1>c DEF RoutesInv, Routes!RoutesAreCurrent
<1>1. ASSUME NEW c \in Call, NEW a \in Ask, NEW force \in BOOLEAN, Routes!Start(c, a[1], a[2], force)
      PROVE  RoutesInv'
  <2>1. call[c] = Routes!Idle /\ UNCHANGED <<clock, cache>>
    BY <1>1 DEF Routes!Start
  <2>2. CASE ~Routes!IsBootstrap(a[1])
    <3>1. UNCHANGED call
      BY <1>1, <2>2 DEF Routes!Start
    <3>2. \A r \in result' : r.source = "direct" /\ r.doc = a[2] /\ r.url = Routes!DirectUrl(a[1], a[2])
      BY <1>1, <2>2 DEF Routes!Start
    <3>3. result' # {} => Routes!IsSyncUrl(a[1])
      BY <1>1, <2>2 DEF Routes!Start
    <3>4. Routes!IsEndpoint(a[1])
      BY DEF Routes!Assumptions
    <3>5. Routes!RoutesAreCurrent'
      BY <3>2, <3>3, <3>4, DirectUrls DEF Routes!RoutesAreCurrent
    <3> QED BY <2>1, <3>1, <3>5 DEF RoutesInv
  <2>3. CASE Routes!IsBootstrap(a[1])
    <3>1. /\ call' = [call EXCEPT ![c] =
                         [at |-> IF force THEN "ask" ELSE "lookup", endpoint |-> a[1], doc |-> a[2]]]
          /\ UNCHANGED result
      BY <1>1, <2>3 DEF Routes!Start
    <3> QED BY <1>a, <1>b, <1>c, <2>1, <3>1
  <2> QED BY <2>2, <2>3
<1>2. ASSUME NEW c \in Call, Routes!Lookup(c) PROVE RoutesInv'
  <2> DEFINE k == Routes!CacheKey(call[c].endpoint, call[c].doc)
  <2>1. UNCHANGED clock
    BY <1>2 DEF Routes!Lookup
  <2>2. ASSUME NEW entry \in Routes!Cached(k), Routes!IsFresh(entry),
               Routes!Returned(c, entry.response, "cache"), UNCHANGED cache
        PROVE  RoutesInv'
    <3>1. k \in DOMAIN cache /\ entry \in cache[k]
      BY <2>2 DEF Routes!Cached
    <3>2. k[1] = Routes!DiscoveryBase(call[c].endpoint) /\ k[2] = call[c].doc
      BY DEF Routes!CacheKey
    <3>3. /\ GivenFor(entry.response, k[1], k[2])
          /\ entry.resolvedAt \in 0..clock
          /\ ArrivedBy(entry.response, entry.resolvedAt)
      BY <3>1 DEF RoutesInv
    <3>4. \A t \in entry.response.ttl : entry.resolvedAt + t > clock
      BY <2>2, <3>3 DEF Routes!IsFresh, GivenFor
    <3>5. \A t \in entry.response.ttl : clock - entry.response.issued < t + MaxLatency
      <4> TAKE t \in entry.response.ttl
      <4>1. t \in Nat /\ entry.resolvedAt \in Nat /\ entry.response.issued \in Nat
        BY <1>a, <3>3 DEF GivenFor, ArrivedBy
      <4>2. entry.resolvedAt <= entry.response.issued + MaxLatency
        BY <3>3 DEF ArrivedBy
      <4> QED BY <1>a, <3>4, <4>1, <4>2
    <3>6. Routes!RoutesAreCurrent'
      BY <2>2, <3>2, <3>3, <3>5, ReturnedIsCurrent
    <3>7. call' = [call EXCEPT ![c] = Routes!Idle]
      BY <2>2 DEF Routes!Returned
    <3> QED BY <1>a, <1>b, <2>1, <2>2, <3>6, <3>7 DEF Routes!Idle
  <2>3. ASSUME \A j \in DOMAIN cache' : j \in DOMAIN cache /\ cache'[j] = cache[j],
               call' = [call EXCEPT ![c].at = "ask"], UNCHANGED result
        PROVE  RoutesInv'
    <3>1. /\ DOMAIN call' = Call /\ \A d \in Call \ {c} : call'[d] = call[d]
          /\ "at" \in DOMAIN call'[c] /\ call'[c].at = "ask"
      BY <1>a, <2>3
    <3>2. Routes!RoutesAreCurrent'
      BY <1>c, <2>3
    <3> QED BY <2>1, <2>3, <3>1, <3>2 DEF RoutesInv
  <2> QED BY <1>2, <2>2, <2>3 DEF Routes!Lookup
<1>3. ASSUME NEW c \in Call, Routes!Answer(c) PROVE RoutesInv'
  <2>1. UNCHANGED <<clock, cache, result>>
    BY <1>3 DEF Routes!Answer
  <2>2. CASE call' = [call EXCEPT ![c] = Routes!Idle]
    BY <1>a, <1>b, <1>c, <2>1, <2>2 DEF Routes!Idle
  <2>3. ASSUME NEW m \in Plan,
               call' = [call EXCEPT ![c] =
                  [at |-> "answered", endpoint |-> @.endpoint, doc |-> @.doc,
                   response |-> [attachments |-> m.attachments, ttl |-> m.ttl, docId |-> @.doc,
                                 by |-> Routes!DiscoveryBase(@.endpoint), issued |-> clock]]]
        PROVE  RoutesInv'
    <3>1. /\ DOMAIN call' = Call /\ \A d \in Call \ {c} : call'[d] = call[d]
          /\ call'[c] = [at |-> "answered", endpoint |-> call[c].endpoint, doc |-> call[c].doc,
                         response |-> [attachments |-> m.attachments, ttl |-> m.ttl, docId |-> call[c].doc,
                                       by |-> Routes!DiscoveryBase(call[c].endpoint), issued |-> clock]]
      BY <1>a, <2>3
    <3>2. /\ "at" \in DOMAIN call'[c] /\ call'[c].endpoint = call[c].endpoint /\ call'[c].doc = call[c].doc
          /\ call'[c].response = [attachments |-> m.attachments, ttl |-> m.ttl, docId |-> call[c].doc,
                                  by |-> Routes!DiscoveryBase(call[c].endpoint), issued |-> clock]
      BY <3>1
    <3>3. GivenFor(call'[c].response, Routes!DiscoveryBase(call'[c].endpoint), call'[c].doc)
      BY <3>2 DEF GivenFor, Routes!Assumptions
    <3>4. ArrivedBy(call'[c].response, clock)
      BY <1>a, <3>2 DEF ArrivedBy
    <3>5. Routes!RoutesAreCurrent'
      BY <1>c, <2>1
    <3> QED BY <2>1, <3>1, <3>2, <3>3, <3>4, <3>5 DEF RoutesInv
  <2> QED BY <1>3, <2>2, <2>3 DEF Routes!Answer
<1>4. ASSUME NEW c \in Call, Routes!Arrive(c) PROVE RoutesInv'
  <2> DEFINE k == Routes!CacheKey(call[c].endpoint, call[c].doc)
             entry == [resolvedAt |-> clock, response |-> call[c].response]
  <2>1. /\ call[c].at = "answered" /\ UNCHANGED clock
        /\ cache' = [j \in DOMAIN cache \cup {k} |-> IF j = k THEN {entry} ELSE cache[j]]
        /\ Routes!Returned(c, call[c].response, "network")
    BY <1>4 DEF Routes!Arrive
  <2>2. k[1] = Routes!DiscoveryBase(call[c].endpoint) /\ k[2] = call[c].doc
    BY DEF Routes!CacheKey
  <2>3. GivenFor(call[c].response, k[1], k[2]) /\ ArrivedBy(call[c].response, clock)
    BY <2>1, <2>2 DEF RoutesInv
  <2>4. Routes!RoutesAreCurrent'
    <3>1. \A t \in call[c].response.ttl : clock - call[c].response.issued < MaxLatency + 1
      BY <1>a, <2>3 DEF ArrivedBy
    <3> QED BY <2>1, <2>2, <2>3, <3>1, ReturnedIsCurrent
  <2>5. call' = [call EXCEPT ![c] = Routes!Idle]
    BY <2>1 DEF Routes!Returned
  <2>6. DOMAIN call' = Call /\ "at" \in DOMAIN call'[c] /\ call'[c].at # "answered"
        /\ \A d \in Call \ {c} : call'[d] = call[d]
    BY <1>a, <2>5 DEF Routes!Idle
  <2>7. \A j \in DOMAIN cache' : \A x \in cache'[j] :
           (j \in DOMAIN cache /\ x \in cache[j]) \/ (j = k /\ x = entry)
    BY <2>1
  <2>8. entry.resolvedAt = clock /\ entry.response = call[c].response
    OBVIOUS
  <2> HIDE DEF k, entry
  <2> QED BY <1>a, <2>1, <2>3, <2>4, <2>6, <2>7, <2>8 DEF RoutesInv
<1>5. ASSUME NEW k \in DOMAIN cache, Routes!Garble(k) \/ Routes!Forget(k) PROVE RoutesInv'
  <2>1. UNCHANGED <<clock, call, result>>
    BY <1>5 DEF Routes!Garble, Routes!Forget
  <2>2. \A j \in DOMAIN cache' : j \in DOMAIN cache /\ cache'[j] \subseteq cache[j]
    BY <1>5 DEF Routes!Garble, Routes!Forget
  <2> QED BY <1>c, <2>1, <2>2 DEF RoutesInv
<1>6. CASE Routes!Tick
  <2>1. clock' = clock + 1 /\ UNCHANGED <<cache, call, result>>
    BY <1>6 DEF Routes!Tick
  <2>2. \A c \in Call : call[c].at = "answered" => clock < call[c].response.issued + MaxLatency
    BY <1>6 DEF Routes!Tick
  <2> QED BY <1>a, <1>c, <2>1, <2>2 DEF RoutesInv, ArrivedBy
<1>7. CASE routes' = routes
  <2>1. UNCHANGED <<clock, cache, call, result>>
    BY <1>7 DEF routes
  <2> QED BY <1>c, <2>1 DEF RoutesInv
<1> QED BY <1>1, <1>2, <1>3, <1>4, <1>5, <1>6, <1>7 DEF Routes!Next

-----------------------------------------------------------------------------
(* The sync server: createDocumentStore and the fan-out of updates. *)

\* The values of opening, of a context, of conn and of job.
Openings == {Server!NoOpening} \cup [x : Server!Ctx, step : {"backend", "options"}]
IsCtx(r) ==
    /\ DOMAIN r = {"st", "proc", "connections", "timer", "peers", "queue"}
    /\ r.st \in {"unused", "claimed", "raw", "live", "closed"}
    /\ r.connections \in Nat
ConnStates == [at : {"new", "opening", "resume", "attached", "gone"},
               x : Server!Ctx \cup {None}, cleaned : BOOLEAN]
Jobs == {Server!NoJob} \cup
        [op : Op, step : {"queued", "stored", "announce"}, x : Server!Ctx \cup {None}]

ServerTypeOK ==
    /\ docs \in [Proc -> Server!Ctx \cup {None}]
    /\ opening \in [Proc -> Openings]
    /\ DOMAIN ctx = Server!Ctx /\ \A x \in Server!Ctx : IsCtx(ctx[x])
    /\ conn \in [Conn -> ConnStates]
    /\ peers \in [Proc -> SUBSET Conn]
    /\ phase \in [Proc -> {"up", "stopping", "closing", "closed"}]
    /\ job \in [Conn -> Jobs]
    /\ stored \subseteq Op /\ bus \in [Proc -> BOOLEAN] /\ told \in [Conn -> SUBSET Op]

\* A process has one context at a time: being opened, with somebody waiting, or published.
Contexts ==
    /\ \A p \in Proc :
          /\ docs[p] # None =>
                ctx[docs[p]].st = "live" /\ ctx[docs[p]].proc = p /\ opening[p] = Server!NoOpening
          /\ opening[p] # Server!NoOpening =>
                /\ ctx[opening[p].x].proc = p
                /\ ctx[opening[p].x].st = IF opening[p].step = "backend" THEN "claimed" ELSE "raw"
                /\ \E c \in Server!Here(p) : conn[c].at = "opening"
          /\ phase[p] = "closed" => docs[p] = None /\ opening[p] = Server!NoOpening
    /\ \A x \in Server!Ctx :
          /\ ctx[x].st \in {"claimed", "raw"} => ctx[x].proc \in Proc /\ opening[ctx[x].proc].x = x
          /\ ctx[x].st = "live" => ctx[x].proc \in Proc /\ docs[ctx[x].proc] = x
          /\ ctx[x].st \in {"unused", "claimed", "raw"} => ctx[x].connections = 0

\* A connection that is served is a peer of the published context.  One that is about to be
\* resumed was given that context, which may have been closed since, but not replaced.
Connections ==
    \A c \in Conn :
      /\ conn[c].at = "attached" =>
            /\ docs[At[c]] # None /\ conn[c].x = docs[At[c]] /\ ~conn[c].cleaned
            /\ c \in peers[At[c]] /\ c \in ctx[conn[c].x].peers
      /\ conn[c].at = "resume" =>
            /\ conn[c].x \in Server!Ctx
            /\ ctx[conn[c].x].proc = At[c] /\ ctx[conn[c].x].st \in {"live", "closed"}
            /\ docs[At[c]] \in {conn[c].x, None}
      /\ Server!Closing(At[c]) => conn[c].at = "new" \/ conn[c].cleaned

\* The published context counts its connections, and is about to be closed without any.
CountsAt(p) ==
    docs[p] # None =>
      /\ IsFiniteSet(Server!Holders(docs[p]))
      /\ ctx[docs[p]].connections = Cardinality(Server!Holders(docs[p]))
      /\ Server!Holders(docs[p]) = {} /\ Server!Settled(p) => ctx[docs[p]].timer \/ Server!Closing(p)
Counts == \A p \in Proc : CountsAt(p)

ServerInv == ServerTypeOK /\ Contexts /\ Connections /\ Counts /\ Server!StoredIsAnnounced

(* No document is open and nobody is connected. *)
LEMMA ServerInit == Server!Assumptions /\ Server!Init => ServerInv
<1> SUFFICES ASSUME Server!Assumptions, Server!Init PROVE ServerInv
  OBVIOUS
<1> USE DEF Server!Init, Server!Assumptions
<1>1. ServerTypeOK
  BY DEF ServerTypeOK, Openings, IsCtx, ConnStates, Jobs, Server!Unused, Server!NoJob, Server!NoOpening
<1>2. Contexts
  BY DEF Contexts, Server!Unused, Server!NoOpening
<1>3. Connections
  BY DEF Connections, Server!Closing
<1>4. Counts
  BY DEF Counts, CountsAt
<1>5. Server!StoredIsAnnounced
  BY DEF Server!StoredIsAnnounced
<1> QED BY <1>1, <1>2, <1>3, <1>4, <1>5 DEF ServerInv

(* A step of the document store that announces nothing: a peer that joins rescans. *)
LEMMA NothingAnnounced ==
  ASSUME ServerInv, UNCHANGED <<job, stored, bus, lost>>,
         \A c \in Conn : conn'[c].at = "attached" =>
            (conn[c].at = "attached" /\ told'[c] = told[c]) \/ told'[c] = stored
  PROVE  Server!StoredIsAnnounced'
BY DEF ServerInv, Server!StoredIsAnnounced

(* A step of an upload leaves the document store as it is, the queue of a context aside. *)
LEMMA StoreUntouched ==
  ASSUME ServerInv, UNCHANGED <<docs, opening, conn, peers, phase>>,
         DOMAIN ctx' = DOMAIN ctx,
         \A x \in Server!Ctx :
            /\ DOMAIN ctx'[x] = DOMAIN ctx[x] /\ ctx'[x].st = ctx[x].st /\ ctx'[x].proc = ctx[x].proc
            /\ ctx'[x].connections = ctx[x].connections /\ ctx'[x].timer = ctx[x].timer
            /\ ctx'[x].peers = ctx[x].peers
  PROVE  /\ Contexts' /\ Connections' /\ Counts'
         /\ DOMAIN ctx' = Server!Ctx /\ \A x \in Server!Ctx : IsCtx(ctx'[x])
<1>0. docs \in [Proc -> Server!Ctx \cup {None}] /\ \A c \in Conn : conn[c].x \in Server!Ctx \cup {None}
  BY DEF ServerInv, ServerTypeOK, ConnStates
<1>1. Contexts'
  <2>1. \A p \in Proc : opening[p] # Server!NoOpening => opening[p].x \in Server!Ctx
    BY DEF ServerInv, ServerTypeOK, Openings
  <2> QED BY <1>0, <2>1 DEF ServerInv, Contexts
<1>2. Connections'
  BY <1>0 DEF ServerInv, Connections, Server!Closing
<1>3. Counts'
  <2>1. \A x : Server!Holders(x)' = Server!Holders(x)
    BY DEF Server!Holders
  <2>2. \A p : Server!Settled(p)' = Server!Settled(p) /\ Server!Closing(p)' = Server!Closing(p)
    BY DEF Server!Settled, Server!Closing, Server!Here
  <2> QED BY <1>0, <2>1, <2>2 DEF ServerInv, Counts, CountsAt
<1> QED BY <1>1, <1>2, <1>3 DEF ServerInv, ServerTypeOK, IsCtx

(* Every step of an upload, from the queue of its context to the peers it is announced to. *)
LEMMA UploadNext ==
  ASSUME Server!Assumptions, ServerInv, NEW c \in Conn,
         \/ \E o \in Op : Server!Upload(c, o)
         \/ Server!Store(c) \/ Server!StoreFails(c) \/ Server!Broadcast(c) \/ Server!Announce(c)
  PROVE  ServerInv'
<1>a. /\ At \in [Conn -> Proc] /\ None \notin Op
      /\ job \in [Conn -> Jobs]
      /\ stored \subseteq Op /\ bus \in [Proc -> BOOLEAN] /\ told \in [Conn -> SUBSET Op]
  BY DEF Server!Assumptions, ServerInv, ServerTypeOK
<1>b. UNCHANGED <<docs, opening, conn, peers, phase>>
  BY DEF Server!Upload, Server!Store, Server!StoreFails, Server!Broadcast, Server!Announce
<1>c. /\ DOMAIN ctx' = DOMAIN ctx
      /\ \A x \in Server!Ctx :
            /\ DOMAIN ctx'[x] = DOMAIN ctx[x] /\ ctx'[x].st = ctx[x].st /\ ctx'[x].proc = ctx[x].proc
            /\ ctx'[x].connections = ctx[x].connections /\ ctx'[x].timer = ctx[x].timer
            /\ ctx'[x].peers = ctx[x].peers
  <2>1. \/ UNCHANGED ctx
        \/ \E x, q : ctx' = [ctx EXCEPT ![x].queue = q]
    BY DEF Server!Upload, Server!Store, Server!StoreFails, Server!Broadcast, Server!Announce
  <2>2. DOMAIN ctx = Server!Ctx
    BY DEF ServerInv, ServerTypeOK
  <2>3. ASSUME NEW x \in Server!Ctx, NEW q, ctx' = [ctx EXCEPT ![x].queue = q] PROVE <1>c!:
    <3>1. /\ DOMAIN ctx' = DOMAIN ctx /\ \A y \in Server!Ctx \ {x} : ctx'[y] = ctx[y]
          /\ ctx'[x] = [ctx[x] EXCEPT !.queue = q]
      BY <2>2, <2>3
    <3>2. DOMAIN ctx[x] = {"st", "proc", "connections", "timer", "peers", "queue"}
      BY DEF ServerInv, ServerTypeOK, IsCtx
    <3> QED BY <3>1, <3>2
  <2>4. ASSUME NEW x, x \notin Server!Ctx, NEW q, ctx' = [ctx EXCEPT ![x].queue = q] PROVE <1>c!:
    BY <2>2, <2>4
  <2> QED BY <2>1, <2>3, <2>4
<1>d. ASSUME /\ job' \in [Conn -> Jobs]
             /\ stored' \subseteq Op /\ bus' \in [Proc -> BOOLEAN] /\ told' \in [Conn -> SUBSET Op],
             Server!StoredIsAnnounced'
      PROVE  ServerInv'
  BY <1>b, <1>c, <1>d, StoreUntouched DEF ServerInv, ServerTypeOK
<1>e. ASSUME NEW d \in Conn, conn[d].at = "attached", NEW o \in stored \ told[d]
      PROVE  \/ bus[At[d]]
             \/ \E e \in Conn : job[e].op = o /\ job[e].step \in
                   (IF At[e] = At[d] THEN {"stored", "announce"} ELSE {"stored"})
             \/ \E q \in Proc : q # At[d] /\ <<q, o>> \in lost
  BY <1>e DEF ServerInv, Server!StoredIsAnnounced
<1>1. ASSUME NEW o \in Op, Server!Upload(c, o) PROVE ServerInv'
  <2>1. /\ job[c] = Server!NoJob
        /\ \E x : job' = [job EXCEPT ![c] = [op |-> o, step |-> "queued", x |-> x]] /\ x = conn[c].x
        /\ told' = [told EXCEPT ![c] = @ \cup {o}]
        /\ UNCHANGED <<stored, bus, lost>>
    BY <1>1 DEF Server!Upload
  <2>2. conn[c].x \in Server!Ctx \cup {None}
    BY DEF ServerInv, ServerTypeOK, ConnStates
  <2>3. /\ job[c].op = None /\ \A d \in Conn \ {c} : job'[d] = job[d]
        /\ \A d \in Conn : told[d] \subseteq told'[d]
    BY <1>a, <2>1 DEF Server!NoJob
  <2>4. Server!StoredIsAnnounced'
    <3> SUFFICES ASSUME NEW d \in Conn, conn[d].at = "attached", NEW n \in stored \ told'[d]
                 PROVE  \/ bus[At[d]]
                        \/ \E e \in Conn : job'[e].op = n /\ job'[e].step \in
                              (IF At[e] = At[d] THEN {"stored", "announce"} ELSE {"stored"})
                        \/ \E q \in Proc : q # At[d] /\ <<q, n>> \in lost
      BY <1>b, <2>1 DEF Server!StoredIsAnnounced
    <3>1. n \in stored \ told[d] /\ n # None
      BY <1>a, <2>3
    <3> QED BY <1>e, <2>3, <3>1
  <2> QED BY <1>a, <1>d, <2>1, <2>2, <2>4 DEF Jobs
<1>2. CASE Server!Store(c)
  <2>1. /\ job[c].step = "queued" /\ job' = [job EXCEPT ![c].step = "stored"]
        /\ stored' = stored \cup {job[c].op} /\ UNCHANGED <<bus, lost, told>>
    BY <1>2 DEF Server!Store, Server!FirstInQueue
  <2>2. /\ job'[c].op = job[c].op /\ job'[c].step = "stored"
        /\ \A d \in Conn \ {c} : job'[d] = job[d]
    BY <1>a, <2>1
  <2>3. Server!StoredIsAnnounced'
    BY <1>b, <1>e, <2>1, <2>2 DEF Server!StoredIsAnnounced
  <2>4. job[c].op \in Op
    BY <1>a, <2>1 DEF Jobs, Server!NoJob
  <2>6. job' \in [Conn -> Jobs]
    <3>1. job[c] \in [op : Op, step : {"queued", "stored", "announce"}, x : Server!Ctx \cup {None}]
      BY <1>a, <2>1 DEF Jobs, Server!NoJob
    <3>2. [job[c] EXCEPT !.step = "stored"] \in Jobs
      BY <3>1 DEF Jobs
    <3> QED BY <1>a, <2>1, <3>2
  <2> QED BY <1>a, <1>d, <2>1, <2>3, <2>4, <2>6
<1>3. CASE Server!StoreFails(c)
  <2>1. /\ job[c].step = "queued" /\ job' = [job EXCEPT ![c] = Server!NoJob]
        /\ UNCHANGED <<stored, bus, lost, told>>
    BY <1>3 DEF Server!StoreFails, Server!FirstInQueue
  <2>2. \A d \in Conn \ {c} : job'[d] = job[d]
    BY <2>1
  <2>3. Server!StoredIsAnnounced'
    BY <1>b, <1>e, <2>1, <2>2 DEF Server!StoredIsAnnounced
  <2>6. job' \in [Conn -> Jobs]
    BY <1>a, <2>1 DEF Jobs
  <2> QED BY <1>a, <1>d, <2>1, <2>3, <2>6
<1>4. CASE Server!Broadcast(c)
  <2>1. /\ job[c].step = "stored" /\ job' = [job EXCEPT ![c].step = "announce"]
        /\ \/ /\ bus' = [q \in Proc |-> bus[q] \/ (q # At[c] /\ phase[q] # "closed")]
              /\ UNCHANGED lost
           \/ lost' = lost \cup {<<At[c], job[c].op>>} /\ UNCHANGED bus
        /\ UNCHANGED <<stored, told>>
    BY <1>4 DEF Server!Broadcast
  <2>2. /\ job'[c].op = job[c].op /\ job'[c].step = "announce"
        /\ \A d \in Conn \ {c} : job'[d] = job[d]
    BY <1>a, <2>1
  <2>3. \A d \in Conn : conn[d].at = "attached" => phase[At[d]] # "closed"
    BY DEF ServerInv, Connections, Server!Closing
  <2>4. Server!StoredIsAnnounced'
    <3> SUFFICES ASSUME NEW d \in Conn, conn[d].at = "attached", NEW o \in stored \ told[d]
                 PROVE  \/ bus'[At[d]]
                        \/ \E e \in Conn : job'[e].op = o /\ job'[e].step \in
                              (IF At[e] = At[d] THEN {"stored", "announce"} ELSE {"stored"})
                        \/ \E q \in Proc : q # At[d] /\ <<q, o>> \in lost'
      BY <1>b, <2>1 DEF Server!StoredIsAnnounced
    <3>1. At[d] \in Proc /\ At[c] \in Proc
      BY <1>a
    <3>2. bus[At[d]] => bus'[At[d]]
      BY <2>1, <3>1
    <3>3. lost \subseteq lost'
      BY <2>1
    <3>4. job[c].op = o /\ At[c] # At[d] => bus'[At[d]] \/ <<At[c], o>> \in lost'
      BY <2>1, <2>3, <3>1
    <3>5. ASSUME NEW e \in Conn, job[e].op = o,
                 job[e].step \in (IF At[e] = At[d] THEN {"stored", "announce"} ELSE {"stored"}), e # c
          PROVE  job'[e].op = o /\ job'[e].step \in (IF At[e] = At[d] THEN {"stored", "announce"} ELSE {"stored"})
      BY <2>2, <3>5
    <3>6. job[c].op = o /\ At[c] = At[d] => job'[c].op = o /\ job'[c].step \in {"stored", "announce"}
      BY <2>2
    <3> QED BY <1>e, <3>1, <3>2, <3>3, <3>4, <3>5, <3>6
  <2>5. bus' \in [Proc -> BOOLEAN]
    BY <1>a, <2>1
  <2>6. job' \in [Conn -> Jobs]
    <3>1. job[c] \in [op : Op, step : {"queued", "stored", "announce"}, x : Server!Ctx \cup {None}]
      BY <1>a, <2>1 DEF Jobs, Server!NoJob
    <3>2. [job[c] EXCEPT !.step = "announce"] \in Jobs
      BY <3>1 DEF Jobs
    <3> QED BY <1>a, <2>1, <3>2
  <2> QED BY <1>a, <1>d, <2>1, <2>4, <2>5, <2>6
<1>5. CASE Server!Announce(c)
  <2>1. /\ job[c].step = "announce" /\ job' = [job EXCEPT ![c] = Server!NoJob]
        /\ told' = [d \in Conn |-> IF d \in Server!LocalPeers(c) THEN told[d] \cup {job[c].op} ELSE told[d]]
        /\ UNCHANGED <<stored, bus, lost>>
    BY <1>5 DEF Server!Announce
  <2>2. \A d \in Conn \ {c} : job'[d] = job[d]
    BY <2>1
  <2>3. \A d \in Conn : conn[d].at = "attached" /\ At[d] = At[c] => d \in Server!LocalPeers(c)
    BY DEF ServerInv, Connections, Server!LocalPeers
  <2>4. Server!StoredIsAnnounced'
    BY <1>b, <1>e, <2>1, <2>2, <2>3 DEF Server!StoredIsAnnounced
  <2>5. job[c].op \in Op
    BY <1>a, <2>1 DEF Jobs, Server!NoJob
  <2>6. job' \in [Conn -> Jobs]
    BY <1>a, <2>1 DEF Jobs
  <2>7. told' \in [Conn -> SUBSET Op]
    BY <1>a, <2>1, <2>5
  <2> QED BY <1>a, <1>d, <2>1, <2>4, <2>6, <2>7
<1> QED BY <1>1, <1>2, <1>3, <1>4, <1>5

(* A notification of the bus: the peers of the context rescan. *)
LEMMA NotificationNext ==
  ASSUME Server!Assumptions, ServerInv, NEW p \in Proc, Server!Notification(p)
  PROVE  ServerInv'
<1>1. /\ UNCHANGED <<docs, opening, ctx, conn, peers, phase, job, stored, lost>>
      /\ bus' = [bus EXCEPT ![p] = FALSE]
      /\ told' = [c \in Conn |-> IF docs[p] # None /\ c \in ctx[docs[p]].peers THEN stored ELSE told[c]]
  BY DEF Server!Notification
<1>2. At \in [Conn -> Proc] /\ bus \in [Proc -> BOOLEAN] /\ told \in [Conn -> SUBSET Op] /\ stored \subseteq Op
  BY DEF Server!Assumptions, ServerInv, ServerTypeOK
<1>3. \A c \in Conn : conn[c].at = "attached" /\ At[c] = p => told'[c] = stored
  BY <1>1 DEF ServerInv, Connections
<1>4. \A q \in Proc \ {p} : bus'[q] = bus[q]
  BY <1>1, <1>2
<1>5. \A c \in Conn : told'[c] = told[c] \/ told'[c] = stored
  BY <1>1
<1>6. Server!StoredIsAnnounced'
  BY <1>1, <1>2, <1>3, <1>4, <1>5 DEF ServerInv, Server!StoredIsAnnounced
<1>7. Contexts' /\ Connections' /\ Counts'
  BY <1>1, StoreUntouched
<1>8. bus' \in [Proc -> BOOLEAN] /\ told' \in [Conn -> SUBSET Op]
  BY <1>1, <1>2
<1> QED BY <1>1, <1>6, <1>7, <1>8 DEF ServerInv, ServerTypeOK

(* The facts of the invariant that the steps of the document store use. *)
LEMMA ServerFacts ==
  ASSUME Server!Assumptions, ServerInv
  PROVE  /\ At \in [Conn -> Proc] /\ None \notin Server!Ctx /\ None \notin Proc
         /\ docs \in [Proc -> Server!Ctx \cup {None}] /\ opening \in [Proc -> Openings]
         /\ DOMAIN ctx = Server!Ctx /\ \A x \in Server!Ctx : IsCtx(ctx[x])
         /\ conn \in [Conn -> ConnStates]
         /\ \A p \in Proc : opening[p] # Server!NoOpening => opening[p].x \in Server!Ctx
         /\ \A c \in Conn : conn[c].x \in Server!Ctx \cup {None}
BY DEF Server!Assumptions, ServerInv, ServerTypeOK, Openings, ConnStates, Server!Ctx

(* Where a step leaves the context of a process and its connections alone, they still count. *)
LEMMA CountsKept ==
  ASSUME Server!Assumptions, ServerInv, NEW p \in Proc, docs'[p] = docs[p],
         docs[p] # None => ctx'[docs[p]] = ctx[docs[p]],
         docs[p] # None => Server!Holders(docs[p])' = Server!Holders(docs[p]),
         Server!Settled(p)' => Server!Settled(p),
         Server!Closing(p) => Server!Closing(p)'
  PROVE  CountsAt(p)'
BY DEF ServerInv, Counts, CountsAt

(* openContext. *)
LEMMA ConnectNext ==
  ASSUME Server!Assumptions, ServerInv, NEW c \in Conn, Server!Connect(c)
  PROVE  ServerInv'
<1> DEFINE p == At[c]
<1> USE ServerFacts
<1>1. /\ conn[c].at = "new" /\ phase[p] = "up" /\ p \in Proc
      /\ UNCHANGED <<docs, peers, phase, job, stored, bus, lost, told>>
  BY DEF Server!Connect, Server!apart
<1>2. \/ docs[p] # None /\ conn' = [conn EXCEPT ![c] = [@ EXCEPT !.at = "resume", !.x = docs[p]]]
      \/ docs[p] = None /\ conn' = [conn EXCEPT ![c].at = "opening"]
  BY DEF Server!Connect
<1>3. /\ \A d \in Conn \ {c} : conn'[d] = conn[d]
      /\ \/ conn'[c].at = "resume" /\ conn'[c].x = docs[p] /\ docs[p] # None
         \/ conn'[c].at = "opening" /\ docs[p] = None
  BY <1>2, ZenonT(40) DEF ConnStates
<1>4. conn' \in [Conn -> ConnStates]
  <2>1. conn[c] \in ConnStates /\ docs[p] \in Server!Ctx \cup {None}
    BY <1>1
  <2>2. \A x \in Server!Ctx \cup {None} :
           /\ [conn[c] EXCEPT !.at = "resume", !.x = x] \in ConnStates
           /\ [conn[c] EXCEPT !.at = "opening"] \in ConnStates
    BY <2>1 DEF ConnStates
  <2> QED BY <1>2, <2>1, <2>2
<1>5. Server!StoredIsAnnounced'
  BY <1>1, <1>3, NothingAnnounced
<1>6. /\ \A q \in Proc : Server!Settled(q)' => Server!Settled(q)
      /\ \A q : Server!Closing(q)' = Server!Closing(q)
      /\ \A x : Server!Holders(x)' = Server!Holders(x)
  BY <1>1, <1>3 DEF Server!Settled, Server!Here, Server!Closing, Server!Holders
<1>7. ~Server!Closing(p)
  BY <1>1 DEF Server!Closing
<1>8. CASE UNCHANGED <<opening, ctx>>
  <2>1. docs[p] = None => opening[p] # Server!NoOpening
    <3>1. ASSUME docs[p] = None, opening[p] = Server!NoOpening PROVE FALSE
      <4>1. PICK x \in Server!Ctx : opening' = [opening EXCEPT ![p] = [x |-> x, step |-> "backend"]]
        BY <3>1 DEF Server!Connect
      <4>2. opening'[p] = [x |-> x, step |-> "backend"]
        BY <1>1, <4>1
      <4> QED BY <1>8, <3>1, <4>2 DEF Server!NoOpening
    <3> QED BY <3>1
  <2>2. Contexts'
    BY <1>1, <1>3, <1>8 DEF ServerInv, Contexts, Server!Here
  <2>3. Connections'
    BY <1>1, <1>3, <1>6, <1>7, <1>8 DEF ServerInv, Contexts, Connections
  <2>4. Counts'
    BY <1>1, <1>6, <1>8, CountsKept DEF Counts
  <2> QED BY <1>1, <1>4, <1>5, <1>8, <2>2, <2>3, <2>4 DEF ServerInv, ServerTypeOK
<1>9. ASSUME NEW x \in Server!Ctx, docs[p] = None, opening[p] = Server!NoOpening,
             {y \in Server!Ctx : ctx[y].st = "unused"} = x..MaxCtx,
             opening' = [opening EXCEPT ![p] = [x |-> x, step |-> "backend"]],
             ctx' = [ctx EXCEPT ![x] = [@ EXCEPT !.st = "claimed", !.proc = p]]
      PROVE  ServerInv'
  <2>1. ctx[x].st = "unused"
    <3>1. x \in x..MaxCtx
      BY DEF Server!Ctx, Server!Assumptions
    <3> QED BY <1>9, <3>1
  <2>2. /\ \A y \in Server!Ctx \ {x} : ctx'[y] = ctx[y]
        /\ IsCtx(ctx'[x]) /\ ctx'[x].st = "claimed" /\ ctx'[x].proc = p
        /\ ctx'[x].connections = ctx[x].connections
        /\ DOMAIN ctx' = Server!Ctx
    BY <1>9 DEF IsCtx
  <2>3. /\ \A q \in Proc \ {p} : opening'[q] = opening[q]
        /\ opening'[p] = [x |-> x, step |-> "backend"] /\ opening' \in [Proc -> Openings]
    BY <1>1, <1>9 DEF Openings
  <2>4. conn'[c].at = "opening"
    BY <1>3, <1>9
  <2>5. \A q \in Proc : docs[q] # x /\ (opening[q] # Server!NoOpening => opening[q].x # x)
    BY <2>1 DEF ServerInv, Contexts
  <2>6. Contexts'
    <3>1. ASSUME NEW q \in Proc
          PROVE  /\ docs'[q] # None =>
                      ctx'[docs'[q]].st = "live" /\ ctx'[docs'[q]].proc = q /\ opening'[q] = Server!NoOpening
                 /\ opening'[q] # Server!NoOpening =>
                      /\ ctx'[opening'[q].x].proc = q
                      /\ ctx'[opening'[q].x].st = IF opening'[q].step = "backend" THEN "claimed" ELSE "raw"
                      /\ \E d \in Server!Here(q) : conn'[d].at = "opening"
                 /\ phase'[q] = "closed" => docs'[q] = None /\ opening'[q] = Server!NoOpening
      <4>1. CASE q = p
        BY <1>1, <1>9, <2>2, <2>3, <2>4, <4>1 DEF Server!Here
      <4>2. CASE q # p
        BY <1>1, <1>3, <2>2, <2>3, <2>5, <4>2 DEF ServerInv, Contexts, Server!Here
      <4> QED BY <4>1, <4>2
    <3>2. ASSUME NEW y \in Server!Ctx
          PROVE  /\ ctx'[y].st \in {"claimed", "raw"} => ctx'[y].proc \in Proc /\ opening'[ctx'[y].proc].x = y
                 /\ ctx'[y].st = "live" => ctx'[y].proc \in Proc /\ docs'[ctx'[y].proc] = y
                 /\ ctx'[y].st \in {"unused", "claimed", "raw"} => ctx'[y].connections = 0
      <4>1. CASE y = x
        BY <1>1, <2>1, <2>2, <2>3, <4>1 DEF ServerInv, Contexts
      <4>2. CASE y # x
        <5>1. ctx[y].st \in {"claimed", "raw"} => ctx[y].proc # p
          BY <1>9 DEF ServerInv, Contexts, Server!NoOpening
        <5> QED BY <1>1, <2>2, <2>3, <4>2, <5>1 DEF ServerInv, Contexts
      <4> QED BY <4>1, <4>2
    <3> QED BY <3>1, <3>2 DEF Contexts, Server!Here
  <2>7. Connections'
    <3>1. \A d \in Conn : conn[d].at \in {"attached", "resume"} => conn[d].x # x
      BY <2>1, <2>5 DEF ServerInv, Connections
    <3> QED BY <1>1, <1>3, <1>6, <1>7, <1>9, <2>2, <2>4, <3>1 DEF ServerInv, Connections
  <2>8. Counts'
    <3>1. \A q \in Proc : docs[q] # None => ctx'[docs[q]] = ctx[docs[q]]
      BY <2>2, <2>5
    <3> QED BY <1>1, <1>6, <3>1, CountsKept DEF Counts
  <2>9. \A y \in Server!Ctx : IsCtx(ctx'[y])
    BY <2>2
  <2> QED BY <1>1, <1>4, <1>5, <2>2, <2>3, <2>6, <2>7, <2>8, <2>9 DEF ServerInv, ServerTypeOK
<1> QED BY <1>8, <1>9 DEF Server!Connect

(* The context that a process is opening is no other process's, and nobody's yet. *)
LEMMA OpeningFacts ==
  ASSUME Server!Assumptions, ServerInv, NEW p \in Proc, opening[p].step \in {"backend", "options"}
  PROVE  /\ opening[p].x \in Server!Ctx /\ opening[p] # Server!NoOpening /\ docs[p] = None
         /\ ctx[opening[p].x].proc = p /\ ctx[opening[p].x].connections = 0
         /\ ctx[opening[p].x].st = IF opening[p].step = "backend" THEN "claimed" ELSE "raw"
         /\ phase[p] # "closed"
         /\ \A q \in Proc : docs[q] # opening[p].x
         /\ \A q \in Proc \ {p} : opening[q] # Server!NoOpening => opening[q].x # opening[p].x
         /\ \A c \in Conn : conn[c].at \in {"attached", "resume"} => conn[c].x # opening[p].x
         /\ \E c \in Server!Here(p) : conn[c].at = "opening"
<1> USE ServerFacts
<1>1. opening[p] # Server!NoOpening /\ opening[p].x \in Server!Ctx
  BY DEF Server!NoOpening
<1>2. /\ ctx[opening[p].x].proc = p
      /\ ctx[opening[p].x].st = IF opening[p].step = "backend" THEN "claimed" ELSE "raw"
      /\ \E c \in Server!Here(p) : conn[c].at = "opening"
      /\ docs[p] = None /\ phase[p] # "closed"
  BY <1>1 DEF ServerInv, Contexts
<1>3. \A q \in Proc : docs[q] # opening[p].x
  BY <1>1, <1>2 DEF ServerInv, Contexts
<1>4. \A q \in Proc \ {p} : opening[q] # Server!NoOpening => opening[q].x # opening[p].x
  BY <1>1, <1>2 DEF ServerInv, Contexts
<1>5. ctx[opening[p].x].connections = 0
  BY <1>1, <1>2 DEF ServerInv, Contexts
<1>6. \A c \in Conn : conn[c].at \in {"attached", "resume"} => conn[c].x # opening[p].x
  BY <1>2, <1>3 DEF ServerInv, Connections
<1> QED BY <1>1, <1>2, <1>3, <1>4, <1>5, <1>6

(* backendFactory.open answers. *)
LEMMA BackendOpensNext ==
  ASSUME Server!Assumptions, ServerInv, NEW p \in Proc, Server!BackendOpens(p)
  PROVE  ServerInv'
<1> USE ServerFacts, OpeningFacts
<1>0. PICK x : x = opening[p].x
  OBVIOUS
<1>1. /\ opening[p].step = "backend" /\ opening' = [opening EXCEPT ![p].step = "options"]
      /\ ctx' = [ctx EXCEPT ![x].st = "raw"]
      /\ UNCHANGED <<docs, conn, peers, phase, job, stored, bus, lost, told>>
  BY <1>0 DEF Server!BackendOpens, Server!apart
<1>2. /\ \A y \in Server!Ctx \ {x} : ctx'[y] = ctx[y]
      /\ IsCtx(ctx'[x]) /\ ctx'[x].st = "raw" /\ ctx'[x].proc = p /\ ctx'[x].connections = 0
      /\ DOMAIN ctx' = Server!Ctx /\ x \in Server!Ctx
  BY <1>0, <1>1 DEF IsCtx
<1>3. /\ \A q \in Proc \ {p} : opening'[q] = opening[q]
      /\ opening'[p].x = x /\ opening'[p].step = "options" /\ opening' \in [Proc -> Openings]
  <2>1. opening[p] \in [x : Server!Ctx, step : {"backend", "options"}]
    BY <1>1 DEF Openings
  <2>2. [opening[p] EXCEPT !.step = "options"] \in [x : Server!Ctx, step : {"backend", "options"}]
    BY <2>1
  <2> QED BY <1>0, <1>1, <2>1, <2>2 DEF Openings
<1>4. Contexts'
  <2>1. \A q \in Proc \ {p} : opening[q] # Server!NoOpening => opening[q].x # x
    BY <1>0, <1>1
  <2>2. docs[p] = None /\ phase[p] # "closed" /\ \A q \in Proc : docs[q] # x
    BY <1>0, <1>1
  <2>3. \E c \in Server!Here(p) : conn[c].at = "opening"
    BY <1>1
  <2>4. ASSUME NEW y \in Server!Ctx \ {x} PROVE ctx[y].st \in {"claimed", "raw"} => ctx[y].proc # p
    BY <1>0 DEF ServerInv, Contexts
  <2> QED BY <1>1, <1>2, <1>3, <2>1, <2>2, <2>3, <2>4 DEF ServerInv, Contexts, Server!Here
<1>5. Connections'
  BY <1>0, <1>1, <1>2 DEF ServerInv, Connections, Server!Closing
<1>6. Counts'
  <2>1. \A q \in Proc : docs[q] # None => ctx'[docs[q]] = ctx[docs[q]]
    BY <1>0, <1>1, <1>2
  <2>2. /\ \A q : Server!Settled(q)' = Server!Settled(q) /\ Server!Closing(q)' = Server!Closing(q)
        /\ \A y : Server!Holders(y)' = Server!Holders(y)
    BY <1>1 DEF Server!Settled, Server!Here, Server!Closing, Server!Holders
  <2> QED BY <1>1, <2>1, <2>2, CountsKept DEF Counts
<1>7. Server!StoredIsAnnounced'
  BY <1>1, NothingAnnounced
<1>8. \A y \in Server!Ctx : IsCtx(ctx'[y])
  BY <1>2
<1> QED BY <1>1, <1>2, <1>3, <1>4, <1>5, <1>6, <1>7, <1>8 DEF ServerInv, ServerTypeOK

(* The opening fails, or ends when the store has begun to close: its waiters fail with it. *)
LEMMA OpeningEndsNext ==
  ASSUME Server!Assumptions, ServerInv, NEW p \in Proc, opening[p].step \in {"backend", "options"},
         opening' = [opening EXCEPT ![p] = Server!NoOpening],
         ctx' = [ctx EXCEPT ![opening[p].x].st = "closed"],
         Server!WaitersFail(p),
         UNCHANGED <<docs, peers, phase, job, stored, bus, lost, told>>
  PROVE  ServerInv'
<1> USE ServerFacts, OpeningFacts
<1>0. PICK x : x = opening[p].x
  OBVIOUS
<1>1. /\ \A y \in Server!Ctx \ {x} : ctx'[y] = ctx[y]
      /\ IsCtx(ctx'[x]) /\ ctx'[x].st = "closed" /\ x \in Server!Ctx
      /\ DOMAIN ctx' = Server!Ctx
  BY <1>0 DEF IsCtx
<1>2. /\ \A q \in Proc \ {p} : opening'[q] = opening[q]
      /\ opening'[p] = Server!NoOpening /\ opening' \in [Proc -> Openings]
  BY DEF Openings
<1>3. /\ \A c \in Conn : conn'[c] = conn[c] \/ (At[c] = p /\ conn[c].at = "opening" /\ conn'[c] = Server!Gone(c))
      /\ conn' \in [Conn -> ConnStates]
  <2>1. \A c \in Conn : Server!Gone(c) \in ConnStates
    BY DEF Server!Gone, ConnStates
  <2> QED BY <2>1 DEF Server!WaitersFail, Server!Here
<1>4. \A c \in Conn : Server!Gone(c).at = "gone" /\ Server!Gone(c).cleaned
  BY DEF Server!Gone
<1>5. Contexts'
  <2>1. /\ docs[p] = None /\ phase[p] # "closed" /\ (\A q \in Proc : docs[q] # x)
        /\ \A q \in Proc \ {p} : opening[q] # Server!NoOpening => opening[q].x # x
    BY <1>0
  <2>2. \A q \in Proc \ {p} : \A c \in Server!Here(q) : conn'[c] = conn[c]
    BY <1>3 DEF Server!Here
  <2>3. ASSUME NEW y \in Server!Ctx \ {x} PROVE ctx[y].st \in {"claimed", "raw"} => ctx[y].proc # p
    BY <1>0 DEF ServerInv, Contexts
  <2> QED BY <1>1, <1>2, <2>1, <2>2, <2>3 DEF ServerInv, Contexts, Server!Here
<1>6. Connections'
  BY <1>0, <1>1, <1>3, <1>4 DEF ServerInv, Connections, Server!Closing
<1>7. Counts'
  <2>1. \A q \in Proc : docs[q] # None => ctx'[docs[q]] = ctx[docs[q]]
    BY <1>0, <1>1
  <2>2. /\ \A q : (Server!Settled(q)' => Server!Settled(q)) /\ Server!Closing(q)' = Server!Closing(q)
        /\ \A y : Server!Holders(y)' = Server!Holders(y)
    BY <1>3, <1>4 DEF Server!Settled, Server!Here, Server!Closing, Server!Holders
  <2> QED BY <2>1, <2>2, CountsKept DEF Counts
<1>8. Server!StoredIsAnnounced'
  BY <1>3, <1>4, NothingAnnounced
<1>9. \A y \in Server!Ctx : IsCtx(ctx'[y])
  BY <1>1
<1> QED BY <1>1, <1>2, <1>3, <1>5, <1>6, <1>7, <1>8, <1>9 DEF ServerInv, ServerTypeOK

(* peerOptionsFactory answers. *)
LEMMA OptionsReadyNext ==
  ASSUME Server!Assumptions, ServerInv, NEW p \in Proc, Server!OptionsReady(p)
  PROVE  ServerInv'
<1>1. /\ opening[p].step = "options" /\ opening' = [opening EXCEPT ![p] = Server!NoOpening]
      /\ UNCHANGED <<peers, phase, job, stored, bus, lost, told>>
  BY DEF Server!OptionsReady, Server!apart
<1> USE ServerFacts
<1>0. PICK x : x = opening[p].x
  OBVIOUS
<1>2. CASE Server!Closing(p)
  <2>1. ctx' = [ctx EXCEPT ![opening[p].x].st = "closed"] /\ Server!WaitersFail(p) /\ UNCHANGED docs
    BY <1>2 DEF Server!OptionsReady, Server!Kept
  <2> QED BY <1>1, <2>1, OpeningEndsNext
<1>3. CASE ~Server!Closing(p)
  <2>1. /\ docs' = [docs EXCEPT ![p] = x]
        /\ ctx' = [ctx EXCEPT ![x].st = "live"]
        /\ conn' = [c \in Conn |-> IF c \in Server!Here(p) /\ conn[c].at = "opening"
                                   THEN [conn[c] EXCEPT !.at = "resume", !.x = x] ELSE conn[c]]
    <3> HIDE ServerFacts
    <3> QED BY <1>0, <1>3 DEF Server!OptionsReady, Server!Kept
  <2>0. x \in Server!Ctx /\ IsCtx(ctx[x]) /\ ctx[x].proc = p /\ ctx[x].connections = 0
    BY <1>0, <1>1, OpeningFacts
  <2>2. /\ \A y \in Server!Ctx \ {x} : ctx'[y] = ctx[y]
        /\ IsCtx(ctx'[x]) /\ ctx'[x].st = "live" /\ ctx'[x].proc = p /\ ctx'[x].connections = 0
        /\ DOMAIN ctx' = Server!Ctx /\ x \in Server!Ctx
    BY <2>0, <2>1 DEF IsCtx
  <2>3. /\ \A q \in Proc \ {p} : opening'[q] = opening[q] /\ docs'[q] = docs[q]
        /\ opening'[p] = Server!NoOpening /\ opening' \in [Proc -> Openings]
        /\ docs'[p] = x /\ docs' \in [Proc -> Server!Ctx \cup {None}]
    BY <1>1, <2>1, <2>2 DEF Openings
  <2>4. /\ \A c \in Conn : IF At[c] = p /\ conn[c].at = "opening"
                           THEN conn'[c].at = "resume" /\ conn'[c].x = x /\ conn'[c].cleaned = conn[c].cleaned
                           ELSE conn'[c] = conn[c]
        /\ conn' \in [Conn -> ConnStates]
    <3>1. \A r \in ConnStates :
             /\ [r EXCEPT !.at = "resume", !.x = x] \in ConnStates
             /\ [r EXCEPT !.at = "resume", !.x = x].at = "resume"
             /\ [r EXCEPT !.at = "resume", !.x = x].x = x
             /\ [r EXCEPT !.at = "resume", !.x = x].cleaned = r.cleaned
      BY <2>0 DEF ConnStates
    <3> QED BY <2>1, <3>1 DEF Server!Here
  <2>5. /\ docs[p] = None /\ phase[p] # "closed" /\ (\A q \in Proc : docs[q] # x)
        /\ \A q \in Proc \ {p} : opening[q] # Server!NoOpening => opening[q].x # x
        /\ \A c \in Conn : conn[c].at \in {"attached", "resume"} => conn[c].x # x
    BY <1>0, <1>1, OpeningFacts
  <2>6. Contexts'
    <3>1. \A q \in Proc \ {p} : \A c \in Server!Here(q) : conn'[c] = conn[c]
      BY <2>4 DEF Server!Here
    <3>2. ASSUME NEW y \in Server!Ctx \ {x}
          PROVE  ctx[y].st \in {"claimed", "raw", "live"} => ctx[y].proc # p
      BY <1>0, <1>1, <2>5, OpeningFacts DEF ServerInv, Contexts
    <3> QED BY <1>1, <2>2, <2>3, <2>5, <3>1, <3>2 DEF ServerInv, Contexts, Server!Here
  <2>7. Connections'
    <3>1. ASSUME NEW c \in Conn, At[c] = p
          PROVE  conn[c].at # "attached" /\ (conn'[c].at = "resume" => conn'[c].x = x \/ conn[c].at = "resume")
      BY <2>4, <2>5, <3>1 DEF ServerInv, Connections
    <3>2. ASSUME NEW c \in Conn, At[c] = p PROVE conn[c].at # "resume"
      <4>1. Server!Settled(p)
        BY DEF Server!OptionsReady
      <4> QED BY <3>2, <4>1 DEF Server!Settled, Server!Here
    <3>3. Server!Closing(p)' = Server!Closing(p) /\ \A q : Server!Closing(q)' = Server!Closing(q)
      BY <1>1 DEF Server!Closing
    <3> QED BY <1>1, <1>3, <2>2, <2>3, <2>4, <2>5, <3>1, <3>2, <3>3 DEF ServerInv, Connections
  <2>8. Counts'
    <3>1. ASSUME NEW q \in Proc \ {p} PROVE CountsAt(q)'
      <4>1. docs[q] # None => ctx'[docs[q]] = ctx[docs[q]]
        BY <2>2, <2>5
      <4>2. /\ Server!Settled(q)' => Server!Settled(q)
            /\ Server!Closing(q)' = Server!Closing(q)
        BY <1>1, <2>4 DEF Server!Settled, Server!Here, Server!Closing
      <4>3. Server!Holders(docs[q])' = Server!Holders(docs[q])
        BY <2>3, <2>4 DEF Server!Holders
      <4> QED BY <2>3, <4>1, <4>2, <4>3, CountsKept
    <3>2. CountsAt(p)'
      <4>1. Server!Holders(docs[p])' = {}
        BY <2>3, <2>4, <2>5 DEF Server!Holders
      <4>2. ~Server!Settled(p)'
        <5>1. \E c \in Server!Here(p) : conn[c].at = "opening"
          BY <1>1, OpeningFacts
        <5> QED BY <2>4, <5>1 DEF Server!Settled, Server!Here
      <4> QED BY <2>2, <2>3, <4>1, <4>2, FS_EmptySet DEF CountsAt
    <3> QED BY <3>1, <3>2 DEF Counts
  <2>9. Server!StoredIsAnnounced'
    BY <1>1, <2>4, NothingAnnounced
  <2>10. \A y \in Server!Ctx : IsCtx(ctx'[y])
    BY <2>2
  <2> QED BY <1>1, <2>2, <2>3, <2>4, <2>6, <2>7, <2>8, <2>9, <2>10 DEF ServerInv, ServerTypeOK
<1> QED BY <1>2, <1>3

(* The server is told to stop, and closes when every socket has. *)
LEMMA StopNext ==
  ASSUME Server!Assumptions, ServerInv, NEW p \in Proc, Server!Stop(p) \/ Server!CloseAll(p)
  PROVE  ServerInv'
<1> USE ServerFacts
<1>1. /\ UNCHANGED <<docs, opening, ctx, conn, peers, job, stored, bus, lost, told>>
      /\ \/ phase' = [phase EXCEPT ![p] = "stopping"] /\ phase[p] = "up"
         \/ /\ phase' = [phase EXCEPT ![p] = "closing"]
            /\ \A c \in Server!Here(p) : conn[c].at = "new" \/ conn[c].cleaned
  BY DEF Server!Stop, Server!CloseAll, Server!apart
<1>2. phase \in [Proc -> {"up", "stopping", "closing", "closed"}]
  BY DEF ServerInv, ServerTypeOK
<1>3. /\ \A q \in Proc \ {p} : phase'[q] = phase[q]
      /\ phase'[p] \in {"stopping", "closing"}
      /\ Server!Closing(p) => phase'[p] = "closing"
      /\ phase'[p] = "closing" => \A c \in Server!Here(p) : conn[c].at = "new" \/ conn[c].cleaned
      /\ phase' \in [Proc -> {"up", "stopping", "closing", "closed"}]
  BY <1>1, <1>2 DEF Server!Closing
<1>4. Contexts'
  BY <1>1, <1>3 DEF ServerInv, Contexts, Server!Here
<1>5. Connections'
  BY <1>1, <1>3 DEF ServerInv, Connections, Server!Closing, Server!Here
<1>6. Counts'
  <2>1. /\ \A q : Server!Settled(q)' = Server!Settled(q)
        /\ \A q \in Proc : Server!Closing(q) => Server!Closing(q)'
        /\ \A y : Server!Holders(y)' = Server!Holders(y)
    BY <1>1, <1>3 DEF Server!Settled, Server!Here, Server!Closing, Server!Holders
  <2> QED BY <1>1, <2>1, CountsKept DEF Counts
<1>7. Server!StoredIsAnnounced'
  BY <1>1, NothingAnnounced
<1> QED BY <1>1, <1>3, <1>4, <1>5, <1>6, <1>7 DEF ServerInv, ServerTypeOK

\* A step that changes or closes the published context of a process, and what it leaves.
Becomes(p, x, r) ==
    /\ docs[p] = x /\ IsCtx(r) /\ r.proc = p /\ r.st \in {"live", "closed"}
    /\ ctx' = [ctx EXCEPT ![x] = r]
    /\ docs' = IF r.st = "closed" THEN [docs EXCEPT ![p] = None] ELSE docs
    /\ UNCHANGED opening
    /\ \A d \in Conn : conn[d].at = "opening" => conn'[d].at = "opening"
    /\ \A q \in Proc : phase'[q] = "closed" => phase[q] = "closed" \/ (q = p /\ r.st = "closed")
Became(p, x, r) ==
    /\ docs' \in [Proc -> Server!Ctx \cup {None}]
    /\ DOMAIN ctx' = Server!Ctx /\ \A y \in Server!Ctx : IsCtx(ctx'[y])
    /\ ctx'[x] = r /\ \A y \in Server!Ctx \ {x} : ctx'[y] = ctx[y]
    /\ docs'[p] = IF r.st = "closed" THEN None ELSE x
    /\ \A q \in Proc \ {p} : docs'[q] = docs[q] /\ docs[q] # x

(* Such a step keeps the contexts apart. *)
LEMMA ContextChanged ==
  ASSUME Server!Assumptions, ServerInv, NEW p \in Proc, NEW x \in Server!Ctx, NEW r, Becomes(p, x, r)
  PROVE  Contexts' /\ Became(p, x, r)
<1> USE ServerFacts
<1>1. /\ ctx'[x] = r /\ \A y \in Server!Ctx \ {x} : ctx'[y] = ctx[y]
      /\ DOMAIN ctx' = Server!Ctx /\ \A y \in Server!Ctx : IsCtx(ctx'[y])
  BY DEF Becomes
<1>2. /\ docs'[p] = IF r.st = "closed" THEN None ELSE x
      /\ \A q \in Proc \ {p} : docs'[q] = docs[q]
      /\ docs' \in [Proc -> Server!Ctx \cup {None}]
  BY DEF Becomes
<1>3. /\ opening[p] = Server!NoOpening /\ ctx[x].proc = p /\ ctx[x].st = "live"
      /\ \A q \in Proc \ {p} : docs[q] # x
      /\ \A q \in Proc : opening[q] # Server!NoOpening => opening[q].x # x
  BY DEF Becomes, ServerInv, Contexts
<1>4. ASSUME NEW y \in Server!Ctx \ {x} PROVE ctx[y].st = "live" => ctx[y].proc # p
  BY DEF Becomes, ServerInv, Contexts
<1>5. Contexts'
  <2>1. ASSUME NEW q \in Proc
        PROVE  /\ docs'[q] # None =>
                    ctx'[docs'[q]].st = "live" /\ ctx'[docs'[q]].proc = q /\ opening'[q] = Server!NoOpening
               /\ opening'[q] # Server!NoOpening =>
                    /\ ctx'[opening'[q].x].proc = q
                    /\ ctx'[opening'[q].x].st = IF opening'[q].step = "backend" THEN "claimed" ELSE "raw"
                    /\ \E d \in Server!Here(q) : conn'[d].at = "opening"
               /\ phase'[q] = "closed" => docs'[q] = None /\ opening'[q] = Server!NoOpening
    <3>1. CASE q = p
      BY <1>1, <1>2, <1>3, <3>1 DEF Becomes, ServerInv, Contexts
    <3>2. CASE q # p
      BY <1>1, <1>2, <1>3, <3>2 DEF Becomes, ServerInv, Contexts, Server!Here
    <3> QED BY <3>1, <3>2
  <2>2. ASSUME NEW y \in Server!Ctx
        PROVE  /\ ctx'[y].st \in {"claimed", "raw"} => ctx'[y].proc \in Proc /\ opening'[ctx'[y].proc].x = y
               /\ ctx'[y].st = "live" => ctx'[y].proc \in Proc /\ docs'[ctx'[y].proc] = y
               /\ ctx'[y].st \in {"unused", "claimed", "raw"} => ctx'[y].connections = 0
    <3>1. CASE y = x
      BY <1>1, <1>2, <3>1 DEF Becomes
    <3>2. CASE y # x
      BY <1>1, <1>2, <1>4, <3>2 DEF Becomes, ServerInv, Contexts
    <3> QED BY <3>1, <3>2
  <2> QED BY <2>1, <2>2 DEF Contexts, Server!Here
<1> QED BY <1>1, <1>2, <1>3, <1>5 DEF Became

(* release and scheduleClose: one connection less, and without any the timer or the end. *)
LEMMA ReleasedCases ==
  ASSUME NEW r, IsCtx(r), r.st = "live", r.connections # 0, NEW p, NEW q, q = Server!Released(r, p)
  PROVE  /\ IsCtx(q) /\ q.proc = r.proc /\ q.st \in {"live", "closed"}
         /\ q.st = "closed" => r.connections = 1
         /\ q.st = "live" => /\ q.peers = r.peers /\ q.connections = r.connections - 1
                             /\ q.connections = 0 => q.timer
<1>1. r.connections \in Nat \ {0}
  BY DEF IsCtx
<1>2. CASE r.connections - 1 > 0
  <2>1. q = [r EXCEPT !.connections = r.connections - 1]
    BY <1>1, <1>2 DEF Server!Released
  <2> QED BY <1>1, <1>2, <2>1 DEF IsCtx
<1>3. CASE ~(r.connections - 1 > 0)
  <2>1. r.connections = 1
    BY <1>1, <1>3
  <2>2. \/ q = Server!ClosedCtx([r EXCEPT !.connections = 0])
        \/ q = [r EXCEPT !.connections = 0, !.timer = TRUE]
    BY <1>1, <1>3, <2>1 DEF Server!Released
  <2>3. CASE q = [r EXCEPT !.connections = 0, !.timer = TRUE]
    BY <2>1, <2>3 DEF IsCtx
  <2>4. CASE q = Server!ClosedCtx([r EXCEPT !.connections = 0])
    <3>1. q = [[r EXCEPT !.connections = 0] EXCEPT !.st = "closed", !.timer = FALSE, !.peers = {}]
      BY <2>4 DEF Server!ClosedCtx
    <3> QED BY <2>1, <3>1 DEF IsCtx
  <2> QED BY <2>2, <2>3, <2>4
<1> QED BY <1>2, <1>3

(* provider.open returns the handle of a context. *)
LEMMA ResumeNext ==
  ASSUME Server!Assumptions, ServerInv, NEW c \in Conn, Server!Resume(c)
  PROVE  ServerInv'
<1> USE ServerFacts
<1>0. PICK p, x, held : p = At[c] /\ x = conn[c].x /\ held = Server!Acquired(ctx[x])
  OBVIOUS
<1>1. /\ conn[c].at = "resume" /\ p \in Proc /\ x \in Server!Ctx
      /\ ctx[x].proc = p /\ ctx[x].st \in {"live", "closed"} /\ docs[p] \in {x, None}
      /\ UNCHANGED <<opening, phase, job, stored, bus, lost>>
  BY <1>0 DEF Server!Resume, Server!apart, ServerInv, Connections
<1>2. /\ \A d : Server!Gone(d) \in ConnStates /\ Server!Gone(d).at = "gone" /\ Server!Gone(d).cleaned
      /\ \A q : Server!Closing(q)' = Server!Closing(q)
  BY <1>1 DEF Server!Gone, ConnStates, Server!Closing
<1>3. CASE Server!Closing(p) \/ ctx[x].st = "closed"
  <2>1. conn' = [conn EXCEPT ![c] = Server!Gone(c)] /\ UNCHANGED <<docs, ctx, peers, told>>
    BY <1>0, <1>3 DEF Server!Resume
  <2>2. /\ \A d \in Conn \ {c} : conn'[d] = conn[d]
        /\ conn'[c].at = "gone" /\ conn'[c].cleaned /\ conn' \in [Conn -> ConnStates]
    BY <1>2, <2>1
  <2>3. Contexts'
    BY <1>1, <2>1, <2>2 DEF ServerInv, Contexts, Server!Here
  <2>4. Connections'
    BY <1>1, <1>2, <2>1, <2>2 DEF ServerInv, Connections
  <2>5. Counts'
    <3>1. \A y : Server!Holders(y)' = Server!Holders(y)
      BY <1>1, <2>2 DEF Server!Holders
    <3>2. ASSUME NEW q \in Proc \ {p} PROVE CountsAt(q)'
      <4>1. Server!Settled(q)' => Server!Settled(q)
        BY <1>0, <2>2 DEF Server!Settled, Server!Here
      <4> QED BY <1>2, <2>1, <3>1, <4>1, CountsKept
    <3>3. CountsAt(p)'
      <4>1. CASE Server!Closing(p)
        BY <1>1, <1>2, <2>1, <3>1, <4>1 DEF ServerInv, Counts, CountsAt
      <4>2. CASE ctx[x].st = "closed"
        <5>1. docs[p] = None
          BY <1>1, <4>2 DEF ServerInv, Contexts
        <5> QED BY <2>1, <5>1 DEF CountsAt
      <4> QED BY <1>3, <4>1, <4>2
    <3> QED BY <3>2, <3>3 DEF Counts
  <2>6. Server!StoredIsAnnounced'
    BY <1>1, <2>1, <2>2, NothingAnnounced
  <2> QED BY <1>1, <2>1, <2>2, <2>3, <2>4, <2>5, <2>6 DEF ServerInv, ServerTypeOK
<1>4. CASE ~Server!Closing(p) /\ ctx[x].st = "live"
  <2>1. docs[p] = x /\ x # None
    BY <1>1, <1>4 DEF ServerInv, Contexts
  <2>2. /\ IsFiniteSet(Server!Holders(x)) /\ ctx[x].connections = Cardinality(Server!Holders(x))
    BY <1>1, <2>1 DEF ServerInv, Counts, CountsAt
  <2>3. /\ IsCtx(held) /\ held.st = "live" /\ held.proc = p /\ held.connections = ctx[x].connections + 1
        /\ held.peers = ctx[x].peers /\ ~held.timer
    BY <1>0, <1>1, <1>4 DEF Server!Acquired, IsCtx
  <2>4. CASE conn[c].cleaned
    <3>0. PICK r : r = Server!Released(held, p)
      OBVIOUS
    <3>1. /\ ctx' = [ctx EXCEPT ![x] = r] /\ docs' = IF r.st = "closed" THEN [docs EXCEPT ![p] = None] ELSE docs
          /\ conn' = [conn EXCEPT ![c] = Server!Gone(c)] /\ UNCHANGED <<peers, told>>
      BY <1>0, <1>4, <2>1, <2>4, <3>0 DEF Server!Resume, Server!LateHandle, Server!DocsAfter
    <3>2. /\ \A d \in Conn \ {c} : conn'[d] = conn[d]
          /\ conn'[c].at = "gone" /\ conn'[c].cleaned /\ conn' \in [Conn -> ConnStates]
      BY <1>2, <3>1
    <3>3. /\ IsCtx(r) /\ r.proc = p /\ r.st \in {"live", "closed"}
          /\ r.st = "closed" => ctx[x].connections = 0
          /\ r.st = "live" => /\ r.peers = ctx[x].peers /\ r.connections = ctx[x].connections
                              /\ r.connections = 0 => r.timer
      <4>1. ctx[x].connections \in Nat
        BY <1>1 DEF IsCtx
      <4>2. held.connections # 0 /\ held.connections - 1 = ctx[x].connections
            /\ (held.connections = 1 => ctx[x].connections = 0)
        BY <2>3, <4>1
      <4>3. /\ IsCtx(r) /\ r.proc = held.proc /\ r.st \in {"live", "closed"}
            /\ r.st = "closed" => held.connections = 1
            /\ r.st = "live" => /\ r.peers = held.peers /\ r.connections = held.connections - 1
                                /\ r.connections = 0 => r.timer
        BY <2>3, <3>0, <4>2, ReleasedCases
      <4> QED BY <2>3, <4>2, <4>3
    <3>4. /\ Contexts'
          /\ docs' \in [Proc -> Server!Ctx \cup {None}]
          /\ DOMAIN ctx' = Server!Ctx /\ \A y \in Server!Ctx : IsCtx(ctx'[y])
          /\ ctx'[x] = r /\ \A y \in Server!Ctx \ {x} : ctx'[y] = ctx[y]
          /\ docs'[p] = IF r.st = "closed" THEN None ELSE x
          /\ \A q \in Proc \ {p} : docs'[q] = docs[q] /\ docs[q] # x
      <4>1. Becomes(p, x, r)
        BY <1>1, <2>1, <3>1, <3>2, <3>3 DEF Becomes
      <4> QED BY <1>1, <4>1, ContextChanged DEF Became
    <3>5. \A y : Server!Holders(y)' = Server!Holders(y)
      BY <1>1, <3>2 DEF Server!Holders
    <3>6. r.st = "closed" => Server!Holders(x) = {}
      BY <2>2, <3>3, FS_EmptySet
    <3>7. Connections'
      BY <1>0, <1>1, <1>2, <2>1, <3>1, <3>2, <3>3, <3>4, <3>6 DEF ServerInv, Connections, Server!Holders
    <3>8. Counts'
      <4>1. ASSUME NEW q \in Proc \ {p} PROVE CountsAt(q)'
        <5>1. Server!Settled(q)' => Server!Settled(q)
          BY <1>0, <3>2 DEF Server!Settled, Server!Here
        <5> QED BY <1>2, <3>4, <3>5, <5>1, CountsKept
      <4>2. CountsAt(p)'
        <5>1. Server!Holders(x) = {} => ctx[x].connections = 0
          BY <2>2, FS_EmptySet
        <5> QED BY <2>1, <2>2, <3>3, <3>4, <3>5, <5>1 DEF CountsAt
      <4> QED BY <4>1, <4>2 DEF Counts
    <3>9. Server!StoredIsAnnounced'
      BY <1>1, <3>1, <3>2, NothingAnnounced
    <3> QED BY <1>1, <3>1, <3>2, <3>4, <3>7, <3>8, <3>9 DEF ServerInv, ServerTypeOK
  <2>5. CASE ~conn[c].cleaned
    <3>0. PICK r : r = Server!Joined(held, c)
      OBVIOUS
    <3>1. /\ ctx' = [ctx EXCEPT ![x] = r] /\ UNCHANGED docs
          /\ conn' = [conn EXCEPT ![c].at = "attached"]
          /\ peers' = [peers EXCEPT ![p] = @ \cup {c}] /\ told' = [told EXCEPT ![c] = stored]
      BY <1>0, <1>4, <2>5, <3>0 DEF Server!Resume
    <3>2. /\ \A d \in Conn \ {c} : conn'[d] = conn[d]
          /\ conn'[c].at = "attached" /\ conn'[c].x = x /\ ~conn'[c].cleaned /\ conn' \in [Conn -> ConnStates]
      <4>1. conn[c] \in ConnStates
        OBVIOUS
      <4>2. /\ [conn[c] EXCEPT !.at = "attached"] \in ConnStates
            /\ [conn[c] EXCEPT !.at = "attached"].at = "attached"
            /\ [conn[c] EXCEPT !.at = "attached"].x = x
            /\ [conn[c] EXCEPT !.at = "attached"].cleaned = conn[c].cleaned
        BY <1>0, <4>1 DEF ConnStates
      <4> QED BY <2>5, <3>1, <4>2
    <3>3. /\ IsCtx(r) /\ r.proc = p /\ r.st = "live" /\ r.connections = ctx[x].connections + 1
          /\ r.peers = ctx[x].peers \cup {c}
      BY <2>3, <3>0 DEF Server!Joined, IsCtx
    <3>4. /\ Contexts'
          /\ DOMAIN ctx' = Server!Ctx /\ \A y \in Server!Ctx : IsCtx(ctx'[y])
          /\ ctx'[x] = r /\ \A y \in Server!Ctx \ {x} : ctx'[y] = ctx[y]
          /\ \A q \in Proc \ {p} : docs[q] # x
      <4>1. docs' = IF r.st = "closed" THEN [docs EXCEPT ![p] = None] ELSE docs
        BY <3>1, <3>3
      <4>2. \A d \in Conn : conn[d].at = "opening" => conn'[d].at = "opening"
        BY <1>1, <3>2
      <4>3. /\ r.st \in {"live", "closed"}
            /\ \A q \in Proc : phase'[q] = "closed" => phase[q] = "closed" \/ (q = p /\ r.st = "closed")
        BY <1>1, <3>3
      <4>4. Becomes(p, x, r)
        BY <1>1, <2>1, <3>1, <3>3, <4>1, <4>2, <4>3 DEF Becomes
      <4> QED BY <1>1, <4>4, ContextChanged DEF Became
    <3>5. /\ peers' \in [Proc -> SUBSET Conn] /\ c \in peers'[p] /\ \A q \in Proc : peers[q] \subseteq peers'[q]
          /\ told' \in [Conn -> SUBSET Op] /\ told'[c] = stored /\ \A d \in Conn \ {c} : told'[d] = told[d]
      <4>1. peers \in [Proc -> SUBSET Conn] /\ told \in [Conn -> SUBSET Op] /\ stored \subseteq Op
        BY DEF ServerInv, ServerTypeOK
      <4> QED BY <1>1, <3>1, <4>1
    <3>6. Server!Holders(x)' = Server!Holders(x) \cup {c} /\ c \notin Server!Holders(x)
      BY <1>1, <3>2 DEF Server!Holders
    <3>7. Connections'
      BY <1>0, <1>1, <1>2, <1>4, <2>1, <3>1, <3>2, <3>3, <3>4, <3>5 DEF ServerInv, Connections
    <3>8. Counts'
      <4>1. ASSUME NEW q \in Proc \ {p} PROVE CountsAt(q)'
        <5>1. Server!Settled(q)' => Server!Settled(q)
          BY <1>0, <3>2 DEF Server!Settled, Server!Here
        <5>2. docs[q] # x /\ Server!Holders(docs[q])' = Server!Holders(docs[q])
          BY <1>1, <3>1, <3>2, <3>4 DEF Server!Holders
        <5> QED BY <1>2, <3>1, <3>4, <5>1, <5>2, CountsKept
      <4>2. CountsAt(p)'
        <5>1. IsFiniteSet(Server!Holders(x)') /\ r.connections = Cardinality(Server!Holders(x)')
          BY <2>2, <3>3, <3>6, FS_AddElement
        <5>2. docs'[p] = x /\ Server!Holders(docs[p])' = Server!Holders(x)'
          BY <2>1, <3>1 DEF Server!Holders
        <5> QED BY <3>4, <3>6, <5>1, <5>2 DEF CountsAt
      <4> QED BY <4>1, <4>2 DEF Counts
    <3>9. Server!StoredIsAnnounced'
      BY <1>1, <3>2, <3>5, NothingAnnounced
    <3> QED BY <1>1, <3>1, <3>2, <3>4, <3>5, <3>7, <3>8, <3>9 DEF ServerInv, ServerTypeOK
  <2> QED BY <2>4, <2>5
<1> QED BY <1>1, <1>3, <1>4

(* A socket closes. *)
LEMMA DisconnectNext ==
  ASSUME Server!Assumptions, ServerInv, NEW c \in Conn, Server!Disconnect(c)
  PROVE  ServerInv'
<1> USE ServerFacts
<1>0. PICK p, x : p = At[c] /\ x = conn[c].x
  OBVIOUS
<1>1. ~conn[c].cleaned /\ p \in Proc /\ UNCHANGED <<opening, phase, job, stored, bus, lost, told>>
  BY <1>0 DEF Server!Disconnect, Server!apart
<1>2. /\ \A d : Server!Gone(d) \in ConnStates /\ Server!Gone(d).at = "gone" /\ Server!Gone(d).cleaned
      /\ \A q : Server!Closing(q)' = Server!Closing(q)
  BY <1>1 DEF Server!Gone, ConnStates, Server!Closing
<1>3. CASE conn[c].at = "opening"
  <2>1. conn' = [conn EXCEPT ![c].cleaned = TRUE] /\ UNCHANGED <<docs, ctx, peers>>
    BY <1>3 DEF Server!Disconnect
  <2>2. /\ \A d \in Conn \ {c} : conn'[d] = conn[d]
        /\ conn'[c].at = "opening" /\ conn'[c].cleaned /\ conn' \in [Conn -> ConnStates]
    <3>1. conn[c] \in ConnStates
      OBVIOUS
    <3>2. /\ [conn[c] EXCEPT !.cleaned = TRUE] \in ConnStates /\ [conn[c] EXCEPT !.cleaned = TRUE].cleaned
          /\ [conn[c] EXCEPT !.cleaned = TRUE].at = conn[c].at
      BY <3>1 DEF ConnStates
    <3> QED BY <1>3, <2>1, <3>2
  <2>3. Contexts'
    BY <1>1, <1>3, <2>1, <2>2 DEF ServerInv, Contexts, Server!Here
  <2>4. Connections'
    BY <1>1, <1>2, <2>1, <2>2 DEF ServerInv, Connections
  <2>5. Counts'
    <3>1. /\ \A q : Server!Settled(q)' => Server!Settled(q)
          /\ \A y : Server!Holders(y)' = Server!Holders(y)
      BY <1>3, <2>2 DEF Server!Settled, Server!Here, Server!Holders
    <3> QED BY <1>2, <2>1, <3>1, CountsKept DEF Counts
  <2>6. Server!StoredIsAnnounced'
    BY <1>1, <2>2, NothingAnnounced
  <2> QED BY <1>1, <2>1, <2>2, <2>3, <2>4, <2>5, <2>6 DEF ServerInv, ServerTypeOK
<1>4. CASE conn[c].at = "attached"
  <2>0. PICK h, r : h = [ctx[x] EXCEPT !.peers = @ \ {c}] /\ r = Server!Released(h, p)
    OBVIOUS
  <2>1. /\ ctx' = [ctx EXCEPT ![x] = r] /\ Server!DocsAfter(p, x, r)
        /\ peers' = [peers EXCEPT ![p] = @ \ {c}] /\ conn' = [conn EXCEPT ![c] = Server!Gone(c)]
    BY <1>0, <1>4, <2>0 DEF Server!Disconnect
  <2>2. /\ docs[p] = x /\ x # None /\ x \in Server!Ctx
        /\ ctx[x].st = "live" /\ ctx[x].proc = p
    BY <1>0, <1>1, <1>4 DEF ServerInv, Connections, Contexts
  <2>3. /\ IsFiniteSet(Server!Holders(x)) /\ ctx[x].connections = Cardinality(Server!Holders(x))
        /\ c \in Server!Holders(x) /\ ctx[x].connections \in Nat \ {0}
    <3>1. /\ IsFiniteSet(Server!Holders(x)) /\ ctx[x].connections = Cardinality(Server!Holders(x))
          /\ c \in Server!Holders(x)
      BY <1>0, <1>1, <1>4, <2>2 DEF ServerInv, Counts, CountsAt, Server!Holders
    <3>2. Cardinality(Server!Holders(x)) \in Nat /\ Cardinality(Server!Holders(x)) # 0
      BY <3>1, FS_CardinalityType, FS_EmptySet
    <3> QED BY <3>1, <3>2
  <2>4. /\ IsCtx(h) /\ h.st = "live" /\ h.proc = p /\ h.connections = ctx[x].connections
        /\ h.peers = ctx[x].peers \ {c}
    BY <2>0, <2>2 DEF IsCtx
  <2>5. /\ IsCtx(r) /\ r.proc = p /\ r.st \in {"live", "closed"}
        /\ r.st = "closed" => ctx[x].connections = 1
        /\ r.st = "live" => /\ r.peers = ctx[x].peers \ {c} /\ r.connections = ctx[x].connections - 1
                            /\ r.connections = 0 => r.timer
    <3>1. h.connections # 0
      BY <2>3, <2>4
    <3>2. r = Server!Released(h, p)
      BY <2>0
    <3>3. /\ IsCtx(r) /\ r.proc = h.proc /\ r.st \in {"live", "closed"}
          /\ r.st = "closed" => h.connections = 1
          /\ r.st = "live" => /\ r.peers = h.peers /\ r.connections = h.connections - 1
                              /\ r.connections = 0 => r.timer
      BY <2>4, <3>1, <3>2, ReleasedCases
    <3> QED BY <2>4, <3>3
  <2>6. /\ \A d \in Conn \ {c} : conn'[d] = conn[d]
        /\ conn'[c].at = "gone" /\ conn'[c].cleaned /\ conn' \in [Conn -> ConnStates]
    BY <1>2, <2>1
  <2>7. /\ Contexts'
        /\ docs' \in [Proc -> Server!Ctx \cup {None}]
        /\ DOMAIN ctx' = Server!Ctx /\ \A y \in Server!Ctx : IsCtx(ctx'[y])
        /\ ctx'[x] = r /\ \A y \in Server!Ctx \ {x} : ctx'[y] = ctx[y]
        /\ docs'[p] = IF r.st = "closed" THEN None ELSE x
        /\ \A q \in Proc \ {p} : docs'[q] = docs[q] /\ docs[q] # x
    <3>1. docs' = IF r.st = "closed" THEN [docs EXCEPT ![p] = None] ELSE docs
      BY <2>1, <2>2 DEF Server!DocsAfter
    <3>2. \A d \in Conn : conn[d].at = "opening" => conn'[d].at = "opening"
      BY <1>4, <2>6
    <3>3. \A q \in Proc : phase'[q] = "closed" => phase[q] = "closed" \/ (q = p /\ r.st = "closed")
      BY <1>1
    <3>4. Becomes(p, x, r)
      BY <1>1, <2>1, <2>2, <2>5, <3>1, <3>2, <3>3 DEF Becomes
    <3> QED BY <1>1, <2>2, <3>4, ContextChanged DEF Became
  <2>8. /\ Server!Holders(x)' = Server!Holders(x) \ {c}
        /\ IsFiniteSet(Server!Holders(x)') /\ Cardinality(Server!Holders(x)') = ctx[x].connections - 1
    <3>1. Server!Holders(x)' = Server!Holders(x) \ {c}
      BY <2>6 DEF Server!Holders
    <3> QED BY <2>3, <3>1, FS_RemoveElement
  <2>9. r.st = "closed" => Server!Holders(x)' = {}
    <3>1. ctx[x].connections = 1 => Cardinality(Server!Holders(x)') = 0
      BY <2>8
    <3> QED BY <2>5, <2>8, <3>1, FS_EmptySet
  <2>10. peers' \in [Proc -> SUBSET Conn] /\ \A q \in Proc : \A d \in peers[q] : d \in peers'[q] \/ d = c
    <3>1. peers \in [Proc -> SUBSET Conn]
      BY DEF ServerInv, ServerTypeOK
    <3> QED BY <1>1, <2>1, <3>1
  <2>11. Connections'
    <3>1. \A d \in Conn \ {c} : conn[d].at = "attached" /\ At[d] = p => r.st = "live" /\ conn[d].x = x
      BY <2>2, <2>5, <2>6, <2>9 DEF ServerInv, Connections, Server!Holders
    <3>2. \A d \in Conn \ {c} : conn[d].at = "resume" /\ At[d] # p => conn[d].x # x
      BY <2>2 DEF ServerInv, Connections
    <3> QED BY <1>0, <1>1, <1>2, <2>2, <2>5, <2>6, <2>7, <2>10, <3>1, <3>2 DEF ServerInv, Connections
  <2>12. Counts'
    <3>1. ASSUME NEW q \in Proc \ {p} PROVE CountsAt(q)'
      <4>1. Server!Settled(q)' => Server!Settled(q)
        BY <1>0, <2>6 DEF Server!Settled, Server!Here
      <4>2. docs[q] # x /\ Server!Holders(docs[q])' = Server!Holders(docs[q])
        BY <1>0, <2>6, <2>7 DEF Server!Holders
      <4> QED BY <1>2, <2>7, <4>1, <4>2, CountsKept
    <3>2. CountsAt(p)'
      <4>1. r.st = "live" => docs'[p] = x /\ Server!Holders(docs[p])' = Server!Holders(x)'
        BY <2>7 DEF Server!Holders
      <4>2. Server!Holders(x)' = {} => ctx[x].connections - 1 = 0
        BY <2>8, FS_EmptySet
      <4> QED BY <2>5, <2>7, <2>8, <4>1, <4>2 DEF CountsAt
    <3> QED BY <3>1, <3>2 DEF Counts
  <2>13. Server!StoredIsAnnounced'
    BY <1>1, <2>6, NothingAnnounced
  <2> QED BY <1>1, <2>6, <2>7, <2>10, <2>11, <2>12, <2>13 DEF ServerInv, ServerTypeOK
<1> QED BY <1>3, <1>4 DEF Server!Disconnect

(* The idle timer runs, and finds the context used again or closes it. *)
LEMMA IdleTimerNext ==
  ASSUME Server!Assumptions, ServerInv, NEW p \in Proc, Server!IdleTimer(p)
  PROVE  ServerInv'
<1> USE ServerFacts
<1>0. PICK x, r : /\ x = docs[p]
                  /\ r = IF ctx[x].connections > 0 THEN [ctx[x] EXCEPT !.timer = FALSE]
                         ELSE Server!ClosedCtx(ctx[x])
  OBVIOUS
<1>1. /\ x # None /\ ctx' = [ctx EXCEPT ![x] = r] /\ Server!DocsAfter(p, x, r)
      /\ UNCHANGED <<opening, conn, peers, phase, job, stored, bus, lost, told>>
  BY <1>0 DEF Server!IdleTimer, Server!apart
<1>2. x \in Server!Ctx /\ ctx[x].st = "live" /\ ctx[x].proc = p /\ ctx[x].connections \in Nat
  BY <1>0, <1>1 DEF ServerInv, Contexts, IsCtx
<1>3. IsFiniteSet(Server!Holders(x)) /\ ctx[x].connections = Cardinality(Server!Holders(x))
  BY <1>0, <1>1 DEF ServerInv, Counts, CountsAt
<1>4. \/ /\ ctx[x].connections > 0 /\ IsCtx(r) /\ r.st = "live" /\ r.proc = p
         /\ r.connections = ctx[x].connections /\ r.peers = ctx[x].peers
      \/ ctx[x].connections = 0 /\ IsCtx(r) /\ r.st = "closed" /\ r.proc = p
  BY <1>0, <1>2 DEF Server!ClosedCtx, IsCtx
<1>5. /\ r.st = "closed" => Server!Holders(x) = {}
      /\ r.st = "live" => Server!Holders(x) # {}
  BY <1>3, <1>4, FS_EmptySet
<1>6. Contexts' /\ Became(p, x, r)
  <2>1. Becomes(p, x, r)
    BY <1>0, <1>1, <1>4 DEF Becomes, Server!DocsAfter
  <2> QED BY <1>2, <2>1, ContextChanged
<1>7. /\ \A q : Server!Settled(q)' = Server!Settled(q) /\ Server!Closing(q)' = Server!Closing(q)
      /\ \A y : Server!Holders(y)' = Server!Holders(y)
  BY <1>1 DEF Server!Settled, Server!Here, Server!Closing, Server!Holders
<1>8. Connections'
  <2>1. SUFFICES ASSUME NEW d \in Conn
                 PROVE  /\ conn[d].at = "attached" =>
                             /\ docs'[At[d]] # None /\ conn[d].x = docs'[At[d]] /\ ~conn[d].cleaned
                             /\ d \in peers[At[d]] /\ d \in ctx'[conn[d].x].peers
                        /\ conn[d].at = "resume" =>
                             /\ conn[d].x \in Server!Ctx
                             /\ ctx'[conn[d].x].proc = At[d]
                             /\ ctx'[conn[d].x].st \in {"live", "closed"}
                             /\ docs'[At[d]] \in {conn[d].x, None}
                        /\ Server!Closing(At[d])' => conn[d].at = "new" \/ conn[d].cleaned
    BY <1>1 DEF Connections
  <2>2. /\ conn[d].at = "attached" =>
             /\ docs[At[d]] # None /\ conn[d].x = docs[At[d]] /\ ~conn[d].cleaned
             /\ d \in peers[At[d]] /\ d \in ctx[conn[d].x].peers
        /\ conn[d].at = "resume" =>
             /\ conn[d].x \in Server!Ctx
             /\ ctx[conn[d].x].proc = At[d]
             /\ ctx[conn[d].x].st \in {"live", "closed"}
             /\ docs[At[d]] \in {conn[d].x, None}
        /\ Server!Closing(At[d]) => conn[d].at = "new" \/ conn[d].cleaned
    BY DEF ServerInv, Connections
  <2>3. At[d] \in Proc /\ docs[At[d]] \in Server!Ctx \cup {None}
    BY DEF ServerInv, Contexts
  <2>4. ctx'[x] = r /\ \A y \in Server!Ctx \ {x} : ctx'[y] = ctx[y]
    BY <1>6 DEF Became
  <2>5. CASE At[d] = p
    <3>1. docs[p] = x /\ docs'[p] = IF r.st = "closed" THEN None ELSE x
      BY <1>0, <1>6 DEF Became
    <3>2. conn[d].at = "attached" => r.st = "live" /\ r.peers = ctx[x].peers /\ ~Server!Closing(p)'
      <4>1. conn[d].at = "attached" => d \in Server!Holders(x)
        BY <2>2, <2>5, <3>1 DEF Server!Holders
      <4> QED BY <1>4, <1>5, <4>1, <1>7, <2>2, <2>5
    <3> QED BY <1>2, <1>4, <1>7, <2>2, <2>4, <2>5, <3>1, <3>2
  <2>6. CASE At[d] # p
    <3>1. docs'[At[d]] = docs[At[d]] /\ docs[At[d]] # x
      BY <1>6, <2>3, <2>6 DEF Became
    <3> QED BY <1>2, <1>7, <2>2, <2>3, <2>4, <2>6, <3>1
  <2> QED BY <2>5, <2>6
<1>9. Counts'
  <2>1. ASSUME NEW q \in Proc \ {p} PROVE CountsAt(q)'
    BY <1>6, <1>7, CountsKept DEF Became
  <2>2. CountsAt(p)'
    BY <1>3, <1>4, <1>5, <1>6, <1>7 DEF CountsAt, Became
  <2> QED BY <2>1, <2>2 DEF Counts
<1>10. Server!StoredIsAnnounced'
  BY <1>1, NothingAnnounced
<1> QED BY <1>1, <1>6, <1>8, <1>9, <1>10 DEF ServerInv, ServerTypeOK, Became

(* closeAll ends: the context that is left is closed. *)
LEMMA CloseDoneNext ==
  ASSUME Server!Assumptions, ServerInv, NEW p \in Proc, Server!CloseDone(p)
  PROVE  ServerInv'
<1> USE ServerFacts
<1>0. PICK x : x = docs[p]
  OBVIOUS
<1>1. /\ phase[p] = "closing" /\ opening[p] = Server!NoOpening /\ Server!Settled(p)
      /\ phase' = [phase EXCEPT ![p] = "closed"]
      /\ ctx' = IF x = None THEN ctx ELSE [ctx EXCEPT ![x] = Server!ClosedCtx(@)]
      /\ docs' = [docs EXCEPT ![p] = None]
      /\ UNCHANGED <<opening, conn, peers, job, stored, bus, lost, told>>
  BY <1>0 DEF Server!CloseDone, Server!apart
<1>2. /\ \A q \in Proc \ {p} : phase'[q] = phase[q]
      /\ phase'[p] = "closed" /\ phase' \in [Proc -> {"up", "stopping", "closing", "closed"}]
  <2>1. phase \in [Proc -> {"up", "stopping", "closing", "closed"}]
    BY DEF ServerInv, ServerTypeOK
  <2> QED BY <1>1, <2>1
<1>3. /\ \A q : Server!Settled(q)' = Server!Settled(q)
      /\ \A q \in Proc : Server!Closing(q)' = Server!Closing(q)
      /\ \A y : Server!Holders(y)' = Server!Holders(y)
  BY <1>1, <1>2 DEF Server!Settled, Server!Here, Server!Closing, Server!Holders
<1>4. \A c \in Conn : At[c] = p => conn[c].at \notin {"attached", "resume"}
  <2>1. \A c \in Conn : At[c] = p => conn[c].at # "resume"
    BY <1>1 DEF Server!Settled, Server!Here
  <2>2. Server!Closing(p)
    BY <1>1 DEF Server!Closing
  <2> QED BY <2>1, <2>2 DEF ServerInv, Connections
<1>5. /\ docs' \in [Proc -> Server!Ctx \cup {None}] /\ docs'[p] = None
      /\ \A q \in Proc \ {p} : docs'[q] = docs[q]
  BY <1>1
<1>6. /\ Contexts' /\ DOMAIN ctx' = Server!Ctx /\ \A y \in Server!Ctx : IsCtx(ctx'[y])
      /\ \A y \in Server!Ctx \ {x} : ctx'[y] = ctx[y]
      /\ x # None => \A q \in Proc \ {p} : docs[q] # x
  <2>1. CASE x = None
    <3>1. Contexts'
      <4>1. (\A q \in Proc : docs'[q] = docs[q]) /\ ctx' = ctx /\ opening' = opening /\ conn' = conn
        BY <1>0, <1>1, <1>5, <2>1
      <4>2. \A q \in Proc : phase'[q] = "closed" => phase[q] = "closed" \/ q = p
        BY <1>2
      <4>3. docs[p] = None /\ opening[p] = Server!NoOpening
        BY <1>0, <1>1, <2>1
      <4>4. Contexts
        BY DEF ServerInv
      <4> QED BY <4>1, <4>2, <4>3, <4>4 DEF Contexts, Server!Here
    <3> QED BY <1>1, <2>1, <3>1
  <2>2. CASE x # None
    <3>0. PICK r : r = Server!ClosedCtx(ctx[x])
      OBVIOUS
    <3>1. x \in Server!Ctx /\ ctx[x].proc = p
      BY <1>0, <2>2 DEF ServerInv, Contexts
    <3>2. IsCtx(r) /\ r.st = "closed" /\ r.proc = p
      BY <3>0, <3>1 DEF Server!ClosedCtx, IsCtx
    <3>3. Becomes(p, x, r)
      BY <1>0, <1>1, <1>2, <2>2, <3>0, <3>2 DEF Becomes
    <3> QED BY <3>1, <3>3, ContextChanged DEF Became
  <2> QED BY <2>1, <2>2
<1>7. Connections'
  <2>1. \A c \in Conn : At[c] # p /\ conn[c].at \in {"attached", "resume"} => conn[c].x # x
    BY <1>0 DEF ServerInv, Connections, Contexts
  <2> QED BY <1>1, <1>3, <1>4, <1>5, <1>6, <2>1 DEF ServerInv, Connections
<1>8. Counts'
  <2>1. ASSUME NEW q \in Proc \ {p} PROVE CountsAt(q)'
    BY <1>3, <1>5, <1>6, CountsKept
  <2>2. CountsAt(p)'
    BY <1>5 DEF CountsAt
  <2> QED BY <2>1, <2>2 DEF Counts
<1>9. Server!StoredIsAnnounced'
  BY <1>1, NothingAnnounced
<1> QED BY <1>1, <1>2, <1>5, <1>6, <1>7, <1>8, <1>9 DEF ServerInv, ServerTypeOK

(* Every step of the server keeps its invariant. *)
LEMMA ServerNext == Server!Assumptions /\ ServerInv /\ [Server!Next]_server => ServerInv'
<1> SUFFICES ASSUME Server!Assumptions, ServerInv, [Server!Next]_server PROVE ServerInv'
  OBVIOUS
<1>1. CASE server' = server
  <2>1. UNCHANGED <<docs, opening, ctx, conn, peers, phase, job, stored, bus, lost, told>>
    BY <1>1 DEF server
  <2>2. Contexts' /\ Connections' /\ Counts'
    BY <2>1, StoreUntouched
  <2>3. Server!StoredIsAnnounced'
    BY <2>1, NothingAnnounced
  <2> QED BY <2>1, <2>2, <2>3 DEF ServerInv, ServerTypeOK
<1>2. ASSUME NEW p \in Proc, Server!OpeningFails(p) PROVE ServerInv'
  BY <1>2, OpeningEndsNext DEF Server!OpeningFails, Server!apart
<1> QED BY <1>1, <1>2, UploadNext, NotificationNext, ConnectNext, BackendOpensNext, OptionsReadyNext,
           ResumeNext, DisconnectNext, IdleTimerNext, StopNext, CloseDoneNext DEF Server!Next

(* The invariant of the server implies what its runs check. *)
LEMMA ServerInvSuffices ==
  Server!Assumptions /\ ServerInv => Server!BackendsFollowConnections /\ Server!StoredIsAnnounced
<1> SUFFICES ASSUME Server!Assumptions, ServerInv PROVE Server!BackendsFollowConnections
  BY DEF ServerInv
<1> USE ServerFacts
<1>0. \A S : Server!Cardinality(S) = Cardinality(S)
  BY DEF Server!Cardinality, Cardinality
<1>1. ASSUME NEW p \in Proc, NEW c \in Server!Here(p), conn[c].at = "attached"
      PROVE  conn[c].x = docs[p] /\ ctx[docs[p]].st = "live"
  BY <1>1 DEF ServerInv, Connections, Contexts, Server!Here
<1>2. ASSUME NEW p \in Proc, docs[p] # None
      PROVE  /\ ctx[docs[p]].connections = Server!Cardinality(Server!Holders(docs[p]))
             /\ Server!Holders(docs[p]) = {} /\ Server!Settled(p) => ctx[docs[p]].timer \/ Server!Closing(p)
  BY <1>0, <1>2 DEF ServerInv, Counts, CountsAt
<1>3. ASSUME NEW p \in Proc, NEW x \in Server!OpenIn(p) PROVE x \in {docs[p], opening[p].x}
  BY DEF ServerInv, Contexts, Server!OpenIn
<1>4. ASSUME NEW p \in Proc, phase[p] = "closed" PROVE Server!OpenIn(p) = {}
  <2>1. docs[p] = None /\ opening[p].x = None
    BY <1>4 DEF ServerInv, Contexts, Server!NoOpening
  <2>2. \A x \in Server!OpenIn(p) : x \in Server!Ctx
    BY DEF Server!OpenIn
  <2> QED BY <1>3, <2>1, <2>2
<1> QED BY <1>1, <1>2, <1>3, <1>4 DEF Server!BackendsFollowConnections

-----------------------------------------------------------------------------
(* The client of the SQLite worker. *)

Methods == {"init", "append", "read", "close", "drop"}

Storages == {"none", "memory", "opfs"}
ClientState == [stage : {"none", "init", "open", "failed"}, mode : {"none", "worker", "direct"},
                storage : Storages, require : BOOLEAN,
                closed : BOOLEAN, terminal : BOOLEAN, closing : BOOLEAN]
CallState == [method : Methods, st : {"waiting", "ok", "error"}]

WaTypeOK ==
    /\ client \in ClientState
    /\ calls \in Seq(CallState)
    /\ requests \in Seq(DOMAIN calls)
    /\ running \subseteq [id : DOMAIN calls, clears : BOOLEAN, first : BOOLEAN]
    /\ replies \in Seq([id : DOMAIN calls, ok : BOOLEAN])
    /\ db \in {"none", "open", "closing"} /\ opened \in Storages

\* Where the answer to a call is: posted, handled or sent back.
Posted(i) == \E k \in DOMAIN requests : requests[k] = i
Handled(i) == \E h \in running : h.id = i
SentBack(i) == \E k \in DOMAIN replies : replies[k].id = i
InFlight(i) == Posted(i) \/ Handled(i) \/ SentBack(i)

\* A call without an answer is on its way, and none outlives its client or its worker or
\* the attempt to create it.
NoCallHangs ==
    /\ \A i \in DOMAIN calls : calls[i].st = "waiting" => InFlight(i)
    /\ client.mode = "worker" /\ (client.closed \/ client.terminal) =>
          \A i \in DOMAIN calls : calls[i].st # "waiting"
    /\ client.stage = "failed" => \A i \in DOMAIN calls : calls[i].st # "waiting"

\* Until the client is open its only call is init, on its way in one place.
OnlyInit ==
    /\ client.stage = "none" => calls = <<>> /\ requests = <<>> /\ running = {} /\ replies = <<>>
    /\ client.stage # "open" => \A i \in DOMAIN calls : calls[i].method = "init"
    /\ client.stage \in {"none", "init"} => ~client.closed /\ ~client.terminal
    /\ client.stage = "init" =>
          /\ calls = <<[method |-> "init", st |-> "waiting"]>>
          /\ \/ requests = <<1>> /\ running = {} /\ replies = <<>>
             \/ requests = <<>> /\ (\E h \in running : running = {h}) /\ replies = <<>>
             \/ requests = <<>> /\ running = {} /\ replies = <<replies[1]>>

\* An open client has used its init, and knows where its database is stored.
OpenOnce ==
    client.stage = "open" =>
      /\ \A i \in DOMAIN calls : InFlight(i) => calls[i].method # "init"
      /\ db # "none" => opened = client.storage

Kept(i) == dropped \/ (IF client.storage = "opfs" THEN i \in disk ELSE db = "none" \/ i \in memory)

\* An append is stored before its answer is sent.
StoredFirst ==
    \A i \in DOMAIN calls :
      calls[i].method = "append"
        /\ (calls[i].st = "ok" \/ \E k \in DOMAIN replies : replies[k].id = i /\ replies[k].ok) => Kept(i)

WaInv == WaTypeOK /\ NoCallHangs /\ OnlyInit /\ OpenOnce /\ StoredFirst

(* The elements of a queue. *)
LEMMA QueueElements ==
  ASSUME NEW S, NEW q \in Seq(S) PROVE \A k \in DOMAIN q : q[k] \in S
OBVIOUS

(* A queue of elements of S is one of any larger set. *)
LEMMA QueueWidens ==
  ASSUME NEW S, NEW T, S \subseteq T, NEW q \in Seq(S)
  PROVE  q \in Seq(T)
<1>1. Len(q) \in Nat /\ q \in [1 .. Len(q) -> S]
  OBVIOUS
<1>2. q \in [1 .. Len(q) -> T]
  BY <1>1
<1> QED BY <1>1, <1>2

(* What the first element and the rest of a queue hold. *)
LEMMA QueueHead ==
  ASSUME NEW S, NEW q \in Seq(S), q # <<>>
  PROVE  /\ Head(q) \in S /\ Tail(q) \in Seq(S)
         /\ 1 \in DOMAIN q /\ q[1] = Head(q)
         /\ \A k \in DOMAIN q : q[k] = Head(q) \/ \E j \in DOMAIN Tail(q) : Tail(q)[j] = q[k]
         /\ \A j \in DOMAIN Tail(q) : \E k \in DOMAIN q : q[k] = Tail(q)[j]
<1>1. Len(q) \in Nat /\ Len(q) # 0 /\ DOMAIN q = 1 .. Len(q)
  OBVIOUS
<1>2. Head(q) \in S /\ Tail(q) \in Seq(S) /\ Len(Tail(q)) = Len(q) - 1 /\ q[1] = Head(q)
  OBVIOUS
<1>3. \A j \in 1 .. Len(Tail(q)) : Tail(q)[j] = q[j + 1]
  BY <1>1
<1>4. DOMAIN Tail(q) = 1 .. Len(q) - 1
  BY <1>2
<1>5. ASSUME NEW k \in DOMAIN q, k # 1 PROVE k - 1 \in DOMAIN Tail(q) /\ Tail(q)[k - 1] = q[k]
  BY <1>1, <1>2, <1>3, <1>4, <1>5
<1>6. ASSUME NEW j \in DOMAIN Tail(q) PROVE j + 1 \in DOMAIN q /\ Tail(q)[j] = q[j + 1]
  BY <1>1, <1>2, <1>3, <1>4
<1>7. \A k \in DOMAIN q : q[k] = Head(q) \/ \E j \in DOMAIN Tail(q) : Tail(q)[j] = q[k]
  BY <1>2, <1>5
<1>8. \A j \in DOMAIN Tail(q) : \E k \in DOMAIN q : q[k] = Tail(q)[j]
  BY <1>6
<1> QED BY <1>1, <1>2, <1>7, <1>8

(* What a queue holds once x is added at its end. *)
LEMMA QueueAdd ==
  ASSUME NEW S, NEW q \in Seq(S), NEW x \in S
  PROVE  /\ Append(q, x) \in Seq(S)
         /\ DOMAIN Append(q, x) = DOMAIN q \cup {Len(q) + 1}
         /\ Append(q, x)[Len(q) + 1] = x
         /\ \A k \in DOMAIN q : Append(q, x)[k] = q[k] /\ k # Len(q) + 1
<1>1. Len(q) \in Nat /\ DOMAIN q = 1 .. Len(q)
  OBVIOUS
<1>2. Append(q, x) \in Seq(S) /\ Len(Append(q, x)) = Len(q) + 1
  OBVIOUS
<1>3. DOMAIN Append(q, x) = 1 .. Len(q) + 1
  BY <1>1, <1>2
<1>4. Append(q, x)[Len(q) + 1] = x /\ \A k \in 1 .. Len(q) : Append(q, x)[k] = q[k]
  BY <1>1
<1> QED BY <1>1, <1>2, <1>3, <1>4

(* A reply is the answer of a call. *)
LEMMA RepliesOfCalls ==
  ASSUME WaInv PROVE \A k \in DOMAIN replies : replies[k].id \in DOMAIN calls
<1>1. replies \in Seq([id : DOMAIN calls, ok : BOOLEAN])
  BY DEF WaInv, WaTypeOK, Storages, ClientState, CallState
<1>2. \A k \in DOMAIN replies : replies[k] \in [id : DOMAIN calls, ok : BOOLEAN]
  BY <1>1, QueueElements
<1> QED BY <1>2

(* The client starts without a call. *)
LEMMA WaInit == Wa!Init => WaInv
<1> SUFFICES ASSUME Wa!Init PROVE WaInv
  OBVIOUS
<1> USE DEF Wa!Init
<1>1. calls = <<>> /\ DOMAIN calls = {}
  OBVIOUS
<1>2. WaTypeOK
  BY <1>1 DEF WaTypeOK, Storages, ClientState, CallState
<1>3. NoCallHangs /\ OnlyInit /\ OpenOnce /\ StoredFirst
  BY <1>1 DEF NoCallHangs, OnlyInit, OpenOnce, StoredFirst
<1> QED BY <1>2, <1>3 DEF WaInv

(* A new call of an open client: it is posted or refused. *)
LEMMA CalledNext ==
  ASSUME WaInv, NEW m \in Methods \ {"init"}, client.stage = "open", Wa!Called(m),
         UNCHANGED <<db, opened, disk, memory, dropped>>, NEW b \in BOOLEAN,
         client' = [client EXCEPT !.closing = b]
  PROVE  WaInv'
<1> DEFINE refused == client.closed \/ client.terminal
<1>0. PICK n : n = Len(calls) + 1
  OBVIOUS
<1>1. PICK c : /\ c = [method |-> m, st |-> IF refused THEN "error" ELSE "waiting"]
               /\ calls' = Append(calls, c)
               /\ requests' = IF refused THEN requests ELSE Append(requests, n)
               /\ UNCHANGED <<running, replies>>
  BY <1>0 DEF Wa!Called
<1>2. c \in CallState /\ c.method = m /\ c.st # "ok"
      /\ (c.st = "waiting" <=> ~refused)
  BY <1>1 DEF CallState
<1>3. /\ calls' \in Seq(CallState)
      /\ DOMAIN calls' = DOMAIN calls \cup {n} /\ calls'[n] = c
      /\ \A i \in DOMAIN calls : calls'[i] = calls[i] /\ i # n
  BY <1>0, <1>1, <1>2, QueueAdd DEF WaInv, WaTypeOK, Storages, ClientState, CallState
<1>4. /\ requests' \in Seq(DOMAIN calls')
      /\ \A k \in DOMAIN requests : k \in DOMAIN requests' /\ requests'[k] = requests[k]
      /\ ~refused => \E k \in DOMAIN requests' : requests'[k] = n
      /\ \A k \in DOMAIN requests' : requests'[k] = n \/ \E j \in DOMAIN requests : requests[j] = requests'[k]
  <2>1. requests \in Seq(DOMAIN calls')
    BY <1>3, QueueWidens DEF WaInv, WaTypeOK, Storages, ClientState, CallState
  <2>2. CASE refused
    BY <1>1, <2>1, <2>2
  <2>3. CASE ~refused
    <3>1. requests' = Append(requests, n) /\ n \in DOMAIN calls'
      BY <1>1, <1>3, <2>3
    <3> QED BY <2>1, <3>1, QueueAdd
  <2> QED BY <2>2, <2>3
<1>5. client' \in ClientState
      /\ client'.stage = "open" /\ client'.mode = client.mode /\ client'.storage = client.storage
      /\ client'.closed = client.closed /\ client'.terminal = client.terminal
  BY DEF WaInv, WaTypeOK, Storages, ClientState, CallState
<1>6. WaTypeOK'
  <2>1. running' \subseteq [id : DOMAIN calls', clears : BOOLEAN, first : BOOLEAN]
    BY <1>1, <1>3 DEF WaInv, WaTypeOK, Storages, ClientState, CallState
  <2>2. replies' \in Seq([id : DOMAIN calls', ok : BOOLEAN])
    <3>1. [id : DOMAIN calls, ok : BOOLEAN] \subseteq [id : DOMAIN calls', ok : BOOLEAN]
      BY <1>3
    <3>2. replies \in Seq([id : DOMAIN calls, ok : BOOLEAN])
      BY DEF WaInv, WaTypeOK, Storages, ClientState, CallState
    <3>3. replies \in Seq([id : DOMAIN calls', ok : BOOLEAN])
      BY <3>1, <3>2, QueueWidens, ZenonT(40)
    <3> QED BY <1>1, <3>3
  <2> QED BY <1>1, <1>3, <1>4, <1>5, <2>1, <2>2 DEF WaInv, WaTypeOK, Storages, ClientState, CallState
<1>7. \A i \in DOMAIN calls : InFlight(i) <=> InFlight(i)'
  BY <1>1, <1>3, <1>4 DEF InFlight, Posted, Handled, SentBack
<1>8. NoCallHangs'
  <2>1. ~refused => Posted(n)'
    BY <1>4 DEF Posted
  <2> QED BY <1>2, <1>3, <1>5, <1>7, <2>1 DEF WaInv, NoCallHangs, InFlight
<1>9. OnlyInit' /\ OpenOnce'
  BY <1>2, <1>3, <1>5, <1>7 DEF WaInv, OnlyInit, OpenOnce
<1>10. StoredFirst'
  <2>1. \A k \in DOMAIN replies : replies[k].id \in DOMAIN calls
    BY RepliesOfCalls
  <2> QED BY <1>1, <1>2, <1>3, <1>5, <2>1 DEF WaInv, StoredFirst, Kept
<1> QED BY <1>6, <1>8, <1>9, <1>10 DEF WaInv

(* The first call is init. *)
LEMMA CreateNext ==
  ASSUME WaInv, NEW want \in {"memory", "opfs", "auto"}, NEW prefer \in BOOLEAN, NEW support \in BOOLEAN,
         Wa!Create(want, prefer, support)
  PROVE  WaInv'
<1>1. client.stage = "none" /\ calls = <<>> /\ requests = <<>> /\ running = {} /\ replies = <<>>
      /\ ~client.closed /\ ~client.terminal
  BY DEF Wa!Create, WaInv, OnlyInit
<1>2. UNCHANGED <<db, opened, disk, memory, dropped>>
  BY DEF Wa!Create, Wa!side
<1>3. CASE client' = [client EXCEPT !.stage = "failed"] /\ UNCHANGED <<calls, requests, running, replies>>
  <2>1. client'.stage = "failed" /\ WaTypeOK' /\ DOMAIN calls' = {}
    BY <1>1, <1>2, <1>3 DEF WaInv, WaTypeOK, Storages, ClientState, CallState
  <2> QED BY <2>1 DEF WaInv, NoCallHangs, OnlyInit, OpenOnce, StoredFirst
<1>4. ASSUME NEW md \in {"worker", "direct"}, NEW sg \in {"memory", "opfs"}, NEW rq \in BOOLEAN,
             client' = [client EXCEPT !.stage = "init", !.mode = md, !.storage = sg, !.require = rq],
             Wa!Called("init")
      PROVE  WaInv'
  <2>1. calls' = <<[method |-> "init", st |-> "waiting"]>> /\ requests' = <<1>> /\ running' = {} /\ replies' = <<>>
    BY <1>1, <1>4 DEF Wa!Called
  <2>2. /\ client'.stage = "init" /\ ~client'.closed /\ ~client'.terminal
        /\ client' \in ClientState
    BY <1>1, <1>4 DEF WaInv, WaTypeOK, Storages, ClientState, CallState
  <2>3. DOMAIN calls' = {1} /\ calls'[1].method = "init" /\ calls'[1].st = "waiting"
        /\ 1 \in DOMAIN requests' /\ requests'[1] = 1
    BY <2>1
  <2>4. WaTypeOK'
    BY <1>2, <2>1, <2>2, <2>3 DEF WaInv, WaTypeOK, Storages, ClientState, CallState, Methods
  <2>5. NoCallHangs'
    BY <2>2, <2>3 DEF NoCallHangs, InFlight, Posted
  <2>6. OnlyInit' /\ OpenOnce' /\ StoredFirst'
    BY <2>1, <2>2, <2>3 DEF OnlyInit, OpenOnce, StoredFirst
  <2> QED BY <2>4, <2>5, <2>6 DEF WaInv
<1> QED BY <1>3, <1>4 DEF Wa!Create

(* A handler starts, or finds that the database is closed. *)
LEMMA BeginNext == ASSUME WaInv, Wa!Begin PROVE WaInv'
<1>1. PICK i : i = Head(requests)
  OBVIOUS
<1>2. requests # <<>> /\ requests' = Tail(requests)
      /\ UNCHANGED <<client, calls, opened, disk, memory, dropped>>
  BY DEF Wa!Begin
<1>3. i \in DOMAIN calls /\ requests' \in Seq(DOMAIN calls)
      /\ (\A k \in DOMAIN requests : requests[k] = i \/ \E j \in DOMAIN requests' : requests'[j] = requests[k])
      /\ (\A j \in DOMAIN requests' : \E k \in DOMAIN requests : requests[k] = requests'[j])
      /\ \E k \in DOMAIN requests : requests[k] = i
  BY <1>1, <1>2, QueueHead DEF WaInv, WaTypeOK, Storages, ClientState, CallState
<1>4. client.stage = "init" => i = 1 /\ calls[i].method = "init" /\ requests' = <<>>
      /\ running = {} /\ replies = <<>>
  <2>1. client.stage = "init" => requests = <<1>> /\ calls = <<[method |-> "init", st |-> "waiting"]>>
        /\ running = {} /\ replies = <<>>
    BY <1>2 DEF WaInv, OnlyInit
  <2> QED BY <1>1, <1>2, <2>1
<1>5. client.stage # "none"
  BY <1>2 DEF WaInv, OnlyInit
<1>6. CASE /\ calls[i].method \in {"append", "read"} /\ db = "none"
           /\ replies' = Append(replies, [id |-> i, ok |-> FALSE]) /\ UNCHANGED <<running, db>>
  <2>1. PICK r : r = [id |-> i, ok |-> FALSE]
    OBVIOUS
  <2>2. r \in [id : DOMAIN calls, ok : BOOLEAN] /\ replies' = Append(replies, r)
    BY <1>3, <1>6, <2>1
  <2>3. /\ replies' \in Seq([id : DOMAIN calls, ok : BOOLEAN])
        /\ DOMAIN replies' = DOMAIN replies \cup {Len(replies) + 1}
        /\ replies'[Len(replies) + 1] = r
        /\ \A k \in DOMAIN replies : replies'[k] = replies[k]
    BY <2>2, QueueAdd DEF WaInv, WaTypeOK, Storages, ClientState, CallState
  <2>4. WaTypeOK'
    BY <1>2, <1>3, <1>6, <2>3 DEF WaInv, WaTypeOK, Storages, ClientState, CallState
  <2>5. r.id = i /\ ~r.ok
    BY <2>1
  <2>6. \A j \in DOMAIN calls : InFlight(j) <=> InFlight(j)'
    BY <1>3, <1>6, <2>3, <2>5 DEF InFlight, Posted, Handled, SentBack
  <2>7. NoCallHangs'
    BY <1>2, <2>6 DEF WaInv, NoCallHangs
  <2>8. OnlyInit' /\ OpenOnce'
    BY <1>2, <1>4, <1>5, <1>6, <2>6 DEF WaInv, OnlyInit, OpenOnce
  <2>9. StoredFirst'
    BY <1>2, <1>6, <2>3, <2>5 DEF WaInv, StoredFirst, Kept
  <2> QED BY <2>4, <2>7, <2>8, <2>9 DEF WaInv
<1>7. ASSUME NEW clears \in BOOLEAN, NEW first \in BOOLEAN, UNCHANGED replies,
             running' = running \cup {[id |-> i, clears |-> clears, first |-> first]},
             db' = db \/ (db = "open" /\ db' = "closing")
      PROVE  WaInv'
  <2>1. PICK h : h = [id |-> i, clears |-> clears, first |-> first]
    OBVIOUS
  <2>2. h \in [id : DOMAIN calls, clears : BOOLEAN, first : BOOLEAN] /\ h.id = i /\ running' = running \cup {h}
    BY <1>3, <1>7, <2>1
  <2>3. WaTypeOK'
    BY <1>2, <1>3, <1>7, <2>2 DEF WaInv, WaTypeOK, Storages, ClientState, CallState
  <2>4. \A j \in DOMAIN calls : InFlight(j) <=> InFlight(j)'
    BY <1>3, <1>7, <2>2 DEF InFlight, Posted, Handled, SentBack
  <2>5. NoCallHangs'
    BY <1>2, <2>4 DEF WaInv, NoCallHangs
  <2>6. client.stage = "init" => running' = {h}
    BY <1>4, <2>2
  <2>7. OnlyInit' /\ OpenOnce'
    BY <1>2, <1>4, <1>5, <1>7, <2>4, <2>6 DEF WaInv, OnlyInit, OpenOnce
  <2>8. StoredFirst'
    BY <1>2, <1>7 DEF WaInv, StoredFirst, Kept
  <2> QED BY <2>3, <2>5, <2>7, <2>8 DEF WaInv
<1>8. CASE ~(calls[i].method \in {"append", "read"} /\ db = "none")
  BY <1>1, <1>7, <1>8 DEF Wa!Begin
<1>9. CASE calls[i].method \in {"append", "read"} /\ db = "none"
  BY <1>1, <1>6, <1>9 DEF Wa!Begin
<1> QED BY <1>8, <1>9

(* A handler ends and its answer is sent. *)
LEMMA RepliedNext ==
  ASSUME WaInv, NEW h \in running, NEW ok \in BOOLEAN, Wa!Replied(h, ok), db' \in {"none", "open", "closing"},
         opened' \in Storages
  PROVE  /\ WaTypeOK' /\ NoCallHangs' /\ OnlyInit'
         /\ \A j \in DOMAIN calls : InFlight(j) <=> InFlight(j)'
         /\ \A k \in DOMAIN replies' : \/ replies'[k].id = h.id /\ replies'[k].ok = ok
                                       \/ \E j \in DOMAIN replies : replies[j] = replies'[k]
<1>1. PICK r : r = [id |-> h.id, ok |-> ok]
  OBVIOUS
<1>2. running' = running \ {h} /\ replies' = Append(replies, r) /\ UNCHANGED <<client, calls, requests>>
  BY <1>1 DEF Wa!Replied
<1>3. h.id \in DOMAIN calls /\ r \in [id : DOMAIN calls, ok : BOOLEAN] /\ r.id = h.id /\ r.ok = ok
  BY <1>1 DEF WaInv, WaTypeOK, Storages, ClientState, CallState
<1>4. /\ replies' \in Seq([id : DOMAIN calls, ok : BOOLEAN])
      /\ DOMAIN replies' = DOMAIN replies \cup {Len(replies) + 1}
      /\ replies'[Len(replies) + 1] = r
      /\ \A k \in DOMAIN replies : replies'[k] = replies[k]
  BY <1>2, <1>3, QueueAdd DEF WaInv, WaTypeOK, Storages, ClientState, CallState
<1>5. WaTypeOK'
  BY <1>2, <1>4 DEF WaInv, WaTypeOK, Storages, ClientState, CallState
<1>6. \A j \in DOMAIN calls : InFlight(j) <=> InFlight(j)'
  BY <1>2, <1>3, <1>4 DEF InFlight, Posted, Handled, SentBack
<1>7. NoCallHangs'
  BY <1>2, <1>6 DEF WaInv, NoCallHangs
<1>8. client.stage = "init" => requests' = <<>> /\ running' = {} /\ replies' = <<replies'[1]>>
  <2>1. client.stage = "init" => requests = <<>> /\ running = {h} /\ replies = <<>>
    BY DEF WaInv, OnlyInit
  <2> QED BY <1>2, <2>1
<1>9. OnlyInit'
  BY <1>2, <1>8 DEF WaInv, OnlyInit
<1> QED BY <1>3, <1>4, <1>5, <1>6, <1>7, <1>9

(* The database is opened, or not. *)
LEMMA FinishInitNext == ASSUME WaInv, NEW h \in running, Wa!FinishInit(h) PROVE WaInv'
<1>1. PICK ok \in BOOLEAN : Wa!Replied(h, ok)
  BY DEF Wa!FinishInit
<1>2. db' \in {"none", "open", "closing"} /\ opened' \in Storages
  BY DEF Wa!FinishInit, Wa!Opened, Wa!side, WaInv, WaTypeOK, Storages, ClientState
<1>3. client.stage # "open"
  BY DEF Wa!FinishInit, WaInv, WaTypeOK, OpenOnce, InFlight, Handled
<1>4. UNCHANGED <<client, calls>>
  BY <1>1 DEF Wa!Replied
<1>5. OpenOnce' /\ StoredFirst'
  BY <1>3, <1>4 DEF WaInv, OnlyInit, OpenOnce, StoredFirst
<1> QED BY <1>1, <1>2, <1>5, RepliedNext DEF WaInv

(* A statement is executed before its answer is sent. *)
LEMMA FinishUseNext == ASSUME WaInv, NEW h \in running, Wa!FinishUse(h) PROVE WaInv'
<1>1. PICK ok \in BOOLEAN :
         /\ Wa!Replied(h, ok)
         /\ ok => db = "open"
         /\ ok /\ calls[h.id].method = "append" =>
              IF opened = "opfs" THEN h.id \in disk' ELSE h.id \in memory'
  BY DEF Wa!FinishUse, Wa!Executes
<1>2. /\ UNCHANGED <<db, opened, dropped, client, calls>>
      /\ disk \subseteq disk' /\ memory \subseteq memory'
  BY <1>1 DEF Wa!FinishUse, Wa!side, Wa!Replied
<1>3. client.stage = "open"
  <2>1. h.id \in DOMAIN calls /\ calls[h.id].method # "init"
    BY DEF Wa!FinishUse, WaInv, WaTypeOK
  <2> QED BY <2>1 DEF WaInv, OnlyInit
<1>4. /\ WaTypeOK' /\ NoCallHangs' /\ OnlyInit'
      /\ \A j \in DOMAIN calls : InFlight(j) <=> InFlight(j)'
      /\ \A k \in DOMAIN replies' : \/ replies'[k].id = h.id /\ replies'[k].ok = ok
                                    \/ \E j \in DOMAIN replies : replies[j] = replies'[k]
  BY <1>1, <1>2, RepliedNext, ZenonT(40) DEF WaInv, WaTypeOK, Storages, ClientState, CallState
<1>5. OpenOnce'
  BY <1>2, <1>4 DEF WaInv, OpenOnce
<1>6. \A i \in DOMAIN calls : Kept(i) => Kept(i)'
  BY <1>2 DEF Kept
<1>7. ok /\ calls[h.id].method = "append" => Kept(h.id)'
  BY <1>1, <1>2, <1>3 DEF WaInv, OpenOnce, Kept
<1>8. StoredFirst'
  BY <1>2, <1>4, <1>6, <1>7 DEF WaInv, StoredFirst
<1> QED BY <1>4, <1>5, <1>8 DEF WaInv

(* The database is closed, and for drop its file removed. *)
LEMMA FinishCloseNext == ASSUME WaInv, NEW h \in running, Wa!FinishClose(h) PROVE WaInv'
<1>1. PICK ok \in BOOLEAN : Wa!Replied(h, ok)
  BY DEF Wa!FinishClose
<1>2. UNCHANGED <<client, calls>>
  BY <1>1 DEF Wa!Replied
<1>3. /\ db' = "none" \/ (UNCHANGED <<opened, disk, memory, dropped>> /\ (db' = db \/ (db = "closing" /\ db' = "open")))
      /\ dropped => dropped'
      /\ dropped' \/ disk' = disk
      /\ opened' \in {opened, "memory"}
  <2>1. CASE /\ db' = "none" /\ opened' = "memory" /\ dropped' = (dropped \/ h.clears)
             /\ disk' = IF h.clears THEN {} ELSE disk
    BY <2>1, Zenon
  <2>2. CASE db' = "none" /\ opened' = "memory" /\ dropped' = (dropped \/ h.clears) /\ disk' = disk
    BY <2>2, Zenon
  <2>3. CASE /\ db' = IF h.first /\ db = "closing" THEN "open" ELSE db
             /\ UNCHANGED <<opened, disk, memory, dropped>>
    <3>0. h.first \in BOOLEAN
      BY DEF WaInv, WaTypeOK
    <3>1. db' = db \/ (db = "closing" /\ db' = "open")
      BY <2>3, <3>0
    <3>2. opened' = opened /\ disk' = disk /\ memory' = memory /\ dropped' = dropped
      BY <2>3
    <3> QED BY <3>1, <3>2, Zenon
  <2> QED BY <2>1, <2>2, <2>3 DEF Wa!FinishClose
<1>4. /\ WaTypeOK' /\ NoCallHangs' /\ OnlyInit'
      /\ \A j \in DOMAIN calls : InFlight(j) <=> InFlight(j)'
      /\ \A k \in DOMAIN replies' : \/ replies'[k].id = h.id /\ replies'[k].ok = ok
                                    \/ \E j \in DOMAIN replies : replies[j] = replies'[k]
  BY <1>1, <1>3, RepliedNext DEF WaInv, WaTypeOK, Storages, ClientState, CallState
<1>5. calls[h.id].method # "append"
  BY DEF Wa!FinishClose
<1>6. OpenOnce'
  BY <1>2, <1>3, <1>4 DEF WaInv, OpenOnce
<1>7. \A i \in DOMAIN calls : Kept(i) => Kept(i)'
  BY <1>2, <1>3 DEF Kept
<1>8. StoredFirst'
  BY <1>2, <1>4, <1>5, <1>7 DEF WaInv, StoredFirst
<1> QED BY <1>4, <1>6, <1>8 DEF WaInv

(* Rejecting the pending calls leaves none waiting. *)
LEMMA Rejected ==
  ASSUME NEW cs \in Seq(CallState)
  PROVE  /\ Wa!AllRejected(cs) \in Seq(CallState)
         /\ DOMAIN Wa!AllRejected(cs) = DOMAIN cs
         /\ \A i \in DOMAIN cs :
               /\ Wa!AllRejected(cs)[i].method = cs[i].method /\ Wa!AllRejected(cs)[i].st # "waiting"
               /\ Wa!AllRejected(cs)[i].st = "ok" => cs[i].st = "ok"
<1>1. Len(cs) \in Nat /\ DOMAIN cs = 1 .. Len(cs) /\ \A i \in DOMAIN cs : cs[i] \in CallState
  BY QueueElements
<1>2. PICK new : new = Wa!AllRejected(cs)
  OBVIOUS
<1>3. /\ DOMAIN new = DOMAIN cs
      /\ \A i \in DOMAIN cs : new[i] = IF cs[i].st = "waiting" THEN [cs[i] EXCEPT !.st = "error"] ELSE cs[i]
  BY <1>2 DEF Wa!AllRejected
<1>4. ASSUME NEW i \in DOMAIN cs
      PROVE  /\ new[i] \in CallState /\ new[i].method = cs[i].method /\ new[i].st # "waiting"
             /\ new[i].st = "ok" => cs[i].st = "ok"
  BY <1>1, <1>3 DEF CallState
<1>5. new = [i \in DOMAIN cs |-> new[i]]
  BY <1>2, <1>3 DEF Wa!AllRejected
<1>6. new \in [1 .. Len(cs) -> CallState]
  BY <1>1, <1>3, <1>4, <1>5
<1>7. new \in Seq(CallState)
  BY <1>1, <1>6
<1> QED BY <1>2, <1>3, <1>4, <1>7

(* A client that rejects its calls and terminates its worker. *)
LEMMA RejectedNext ==
  ASSUME WaInv, NEW cs \in Seq(CallState), DOMAIN cs = DOMAIN calls,
         \A i \in DOMAIN cs : cs[i].method = calls[i].method,
         \A i \in DOMAIN cs : cs[i].method = "append" /\ cs[i].st = "ok" => calls[i].st = "ok",
         calls' = Wa!Cleanup(cs), requests' = <<>>, running' = {}, replies' = <<>>,
         UNCHANGED <<db, opened, disk, memory, dropped>>,
         client' \in ClientState,
         client'.storage = client.storage,
         IF client.stage = "open" THEN client'.stage = "open" ELSE client'.stage = "failed"
  PROVE  WaInv'
<1>1. /\ calls' \in Seq(CallState) /\ DOMAIN calls' = DOMAIN cs
      /\ \A i \in DOMAIN cs : /\ calls'[i].method = cs[i].method /\ calls'[i].st # "waiting"
                              /\ calls'[i].st = "ok" => cs[i].st = "ok"
  BY Rejected DEF Wa!Cleanup
<1>2. WaTypeOK'
  BY <1>1 DEF WaInv, WaTypeOK, Storages, ClientState, CallState
<1>3. DOMAIN requests' = {} /\ DOMAIN replies' = {}
  OBVIOUS
<1>4. NoCallHangs'
  BY <1>1 DEF NoCallHangs
<1>5. OnlyInit'
  BY <1>1 DEF WaInv, OnlyInit
<1>6. \A i : ~InFlight(i)'
  BY <1>3 DEF InFlight, Posted, Handled, SentBack
<1>7. OpenOnce'
  BY <1>1, <1>6 DEF WaInv, OpenOnce
<1>8. StoredFirst'
  BY <1>1, <1>3 DEF WaInv, StoredFirst, Kept
<1> QED BY <1>2, <1>4, <1>5, <1>7, <1>8 DEF WaInv

(* The main thread closes the client, or asks the worker to. *)
LEMMA TeardownNext ==
  ASSUME WaInv, client.stage = "open", NEW m \in {"close", "drop"}, NEW b \in BOOLEAN,
         Wa!Teardown(m, [client EXCEPT !.closing = b])
  PROVE  WaInv'
<1>1. UNCHANGED <<db, opened, disk, memory, dropped>>
  BY DEF Wa!Teardown, Wa!side
<1>2. PICK c : c = [client EXCEPT !.closing = b]
  OBVIOUS
<1>3. /\ c \in ClientState
      /\ c.stage = "open" /\ c.mode = client.mode /\ c.storage = client.storage
      /\ c.closed = client.closed /\ c.terminal = client.terminal
  BY <1>2 DEF WaInv, WaTypeOK, Storages, ClientState, CallState
<1>4. CASE client' = c /\ UNCHANGED <<calls, requests, running, replies>>
  <2>1. WaTypeOK' /\ (\A i \in DOMAIN calls : InFlight(i) <=> InFlight(i)')
    BY <1>1, <1>3, <1>4 DEF WaInv, WaTypeOK, Storages, ClientState, CallState, InFlight, Posted, Handled, SentBack
  <2>2. NoCallHangs' /\ OnlyInit' /\ OpenOnce' /\ StoredFirst'
    BY <1>1, <1>3, <1>4, <2>1 DEF WaInv, NoCallHangs, OnlyInit, OpenOnce, StoredFirst, Kept
  <2> QED BY <2>1, <2>2 DEF WaInv
<1>5. CASE /\ client' = [c EXCEPT !.closed = TRUE]
           /\ calls' = Wa!Cleanup(calls) /\ requests' = <<>> /\ running' = {} /\ replies' = <<>>
  <2>1. /\ client' \in ClientState
        /\ client'.stage = "open" /\ client'.storage = client.storage
    BY <1>3, <1>5 DEF ClientState
  <2>2. calls \in Seq(CallState)
    BY DEF WaInv, WaTypeOK, Storages, ClientState, CallState
  <2>3. IF client.stage = "open" THEN client'.stage = "open" ELSE client'.stage = "failed"
    BY <2>1
  <2>4. calls' = Wa!Cleanup(calls) /\ requests' = <<>> /\ running' = {} /\ replies' = <<>>
    BY <1>5
  <2>5. WaInv'
    BY <1>1, <2>1, <2>2, <2>3, <2>4, RejectedNext
  <2> QED BY <2>5
<1>6. CASE client' = c /\ Wa!Called(m)
  BY <1>1, <1>2, <1>6, CalledNext DEF Methods
<1> QED BY <1>2, <1>4, <1>5, <1>6 DEF Wa!Teardown

(* The worker has failed: nothing more is awaited from it. *)
LEMMA WorkerErrorNext == ASSUME WaInv, Wa!WorkerError PROVE WaInv'
<1>1. /\ calls' = Wa!AllRejected(calls) /\ client.stage \in {"init", "open"}
      /\ UNCHANGED <<requests, running, replies, db, opened, disk, memory, dropped>>
  BY DEF Wa!WorkerError, Wa!side
<1>2. /\ client' \in ClientState
      /\ client'.stage = (IF client.stage = "init" THEN "failed" ELSE "open") /\ client'.storage = client.storage
  BY <1>1 DEF Wa!WorkerError, WaInv, WaTypeOK, Storages, ClientState
<1>3. /\ calls' \in Seq(CallState) /\ DOMAIN calls' = DOMAIN calls
      /\ \A i \in DOMAIN calls : /\ calls'[i].method = calls[i].method /\ calls'[i].st # "waiting"
                                 /\ calls'[i].st = "ok" => calls[i].st = "ok"
  BY <1>1, Rejected DEF WaInv, WaTypeOK, Storages, ClientState, CallState
<1>4. WaTypeOK'
  BY <1>1, <1>2, <1>3 DEF WaInv, WaTypeOK, Storages, ClientState, CallState
<1>5. \A i \in DOMAIN calls : InFlight(i) <=> InFlight(i)'
  BY <1>1 DEF InFlight, Posted, Handled, SentBack
<1>6. NoCallHangs'
  BY <1>3 DEF NoCallHangs
<1>7. OnlyInit' /\ OpenOnce' /\ StoredFirst'
  BY <1>1, <1>2, <1>3, <1>5 DEF WaInv, OnlyInit, OpenOnce, StoredFirst, Kept
<1> QED BY <1>4, <1>6, <1>7 DEF WaInv

(* A reply reaches the main thread. *)
LEMMA DeliverNext == ASSUME WaInv, Wa!Deliver PROVE WaInv'
<1>1. PICK r : r = Head(replies)
  OBVIOUS
<1>2. replies # <<>> /\ UNCHANGED <<db, opened, disk, memory, dropped>>
  BY DEF Wa!Deliver, Wa!side
<1>3. /\ r \in [id : DOMAIN calls, ok : BOOLEAN] /\ Tail(replies) \in Seq([id : DOMAIN calls, ok : BOOLEAN])
      /\ 1 \in DOMAIN replies /\ replies[1] = r
      /\ \A k \in DOMAIN replies : replies[k] = r \/ \E j \in DOMAIN Tail(replies) : Tail(replies)[j] = replies[k]
      /\ \A j \in DOMAIN Tail(replies) : \E k \in DOMAIN replies : replies[k] = Tail(replies)[j]
  BY <1>1, <1>2, QueueHead DEF WaInv, WaTypeOK
<1>4. PICK n : n = r.id
  OBVIOUS
<1>5. n \in DOMAIN calls /\ r.ok \in BOOLEAN /\ InFlight(n) /\ calls[n] \in CallState
  <2>1. calls[n] \in CallState
    BY <1>3, <1>4, QueueElements DEF WaInv, WaTypeOK
  <2> QED BY <1>3, <1>4, <2>1 DEF InFlight, SentBack
<1>6. PICK cs : cs = IF calls[n].st = "waiting" THEN Wa!Settled(n, r.ok) ELSE calls
  OBVIOUS
<1>7. /\ cs \in Seq(CallState) /\ DOMAIN cs = DOMAIN calls /\ cs[n].st # "waiting"
      /\ \A i \in DOMAIN calls : cs[i].method = calls[i].method /\ (i # n => cs[i] = calls[i])
      /\ cs[n].st = "ok" => calls[n].st = "ok" \/ r.ok
  <2>0. calls \in Seq(CallState)
    BY DEF WaInv, WaTypeOK
  <2>1. CASE calls[n].st = "waiting"
    <3>1. PICK c : c = [calls[n] EXCEPT !.st = IF r.ok THEN "ok" ELSE "error"]
      OBVIOUS
    <3>2. c \in CallState /\ c.method = calls[n].method /\ c.st # "waiting" /\ (c.st = "ok" => r.ok)
      BY <1>5, <3>1 DEF CallState
    <3>3. cs = [calls EXCEPT ![n] = c]
      BY <1>5, <1>6, <2>1, <3>1 DEF Wa!Settled
    <3>4. cs \in Seq(CallState) /\ DOMAIN cs = DOMAIN calls
      BY <1>5, <2>0, <3>2, <3>3
    <3>5. cs[n] = c /\ \A i \in DOMAIN calls : i # n => cs[i] = calls[i]
      BY <1>5, <3>3
    <3> QED BY <3>2, <3>4, <3>5
  <2>2. CASE calls[n].st # "waiting"
    BY <1>6, <2>0, <2>2
  <2> QED BY <2>1, <2>2
<1> DEFINE ends == calls[n].st = "waiting" /\ r.ok /\ calls[n].method \in {"close", "drop"}
           starts == calls[n].st = "waiting" /\ calls[n].method = "init"
           degraded == starts /\ r.ok /\ client.require /\ opened # "opfs"
<1>8. /\ IF (ends /\ client.mode = "worker") \/ degraded
         THEN calls' = Wa!Cleanup(cs) /\ requests' = <<>> /\ running' = {} /\ replies' = <<>>
         ELSE calls' = cs /\ replies' = Tail(replies) /\ UNCHANGED <<requests, running>>
      /\ client' =
           CASE ends -> [client EXCEPT !.closed = TRUE]
             [] degraded -> [client EXCEPT !.stage = "failed", !.closed = TRUE]
             [] starts /\ ~degraded -> [client EXCEPT !.stage = IF r.ok THEN "open" ELSE "failed", !.storage = opened]
             [] OTHER -> client
  BY <1>1, <1>4, <1>6 DEF Wa!Deliver
<1>9. client \in ClientState
  BY DEF WaInv, WaTypeOK
<1>10. calls[n].method # "init" => client.stage = "open"
  BY <1>5 DEF WaInv, OnlyInit
<1>11. starts => client.stage = "init"
  BY <1>2, <1>5, <1>9 DEF WaInv, OnlyInit, OpenOnce, NoCallHangs, ClientState
<1> HIDE DEF ends, starts, degraded
<1>12. CASE (ends /\ client.mode = "worker") \/ degraded
  <2>1. calls' = Wa!Cleanup(cs) /\ requests' = <<>> /\ running' = {} /\ replies' = <<>>
    BY <1>8, <1>12
  <2>2. \A i \in DOMAIN cs : cs[i].method = "append" /\ cs[i].st = "ok" => calls[i].st = "ok"
    BY <1>7, <1>12 DEF ends, degraded, starts
  <2>3. CASE ends
    <3>1. client' = [client EXCEPT !.closed = TRUE] /\ client.stage = "open"
      BY <1>8, <1>10, <2>3 DEF ends, degraded, starts
    <3>2. client' \in ClientState /\ client'.storage = client.storage /\ client'.stage = "open"
      BY <1>9, <3>1 DEF ClientState
    <3>3. IF client.stage = "open" THEN client'.stage = "open" ELSE client'.stage = "failed"
      BY <3>1, <3>2
    <3> QED BY <1>2, <1>7, <2>1, <2>2, <3>2, <3>3, RejectedNext
  <2>4. CASE degraded
    <3>1. client' = [client EXCEPT !.stage = "failed", !.closed = TRUE] /\ client.stage = "init"
      BY <1>8, <1>11, <2>4 DEF ends, degraded, starts
    <3>2. client' \in ClientState /\ client'.storage = client.storage /\ client'.stage = "failed"
      BY <1>9, <3>1 DEF ClientState
    <3>3. IF client.stage = "open" THEN client'.stage = "open" ELSE client'.stage = "failed"
      BY <3>1, <3>2
    <3> QED BY <1>2, <1>7, <2>1, <2>2, <3>2, <3>3, RejectedNext
  <2> QED BY <1>12, <2>3, <2>4
<1>13. CASE ~((ends /\ client.mode = "worker") \/ degraded)
  <2>1. calls' = cs /\ replies' = Tail(replies) /\ UNCHANGED <<requests, running>>
    BY <1>8, <1>13
  <2>2. \A i \in DOMAIN calls : InFlight(i)' => InFlight(i)
    BY <1>3, <2>1 DEF InFlight, Posted, Handled, SentBack
  <2>3. \A i \in DOMAIN calls : i # n /\ InFlight(i) => InFlight(i)'
    BY <1>3, <1>4, <2>1 DEF InFlight, Posted, Handled, SentBack
  <2>4. \A i \in DOMAIN calls' : calls'[i].st = "waiting" => InFlight(i)'
    BY <1>7, <2>1, <2>3 DEF WaInv, NoCallHangs
  <2>5. client' \in ClientState => WaTypeOK'
    BY <1>2, <1>3, <1>7, <2>1 DEF WaInv, WaTypeOK
  <2>6. CASE starts
    <3>1. client' = [client EXCEPT !.stage = IF r.ok THEN "open" ELSE "failed", !.storage = opened]
      BY <1>8, <1>13, <2>6 DEF ends, starts
    <3>2. client' \in ClientState /\ client'.stage \in {"open", "failed"} /\ client'.storage = opened
      BY <1>9, <3>1 DEF WaInv, WaTypeOK, ClientState
    <3>3. /\ calls = <<[method |-> "init", st |-> "waiting"]>>
          /\ requests = <<>> /\ running = {} /\ replies = <<replies[1]>>
      BY <1>2, <1>11, <2>6 DEF WaInv, OnlyInit
    <3>4. DOMAIN calls = {n} /\ calls[n].method = "init"
      BY <1>5, <3>3
    <3>5. requests' = <<>> /\ running' = {} /\ replies' = <<>>
      <4>1. \A x : Tail(<<x>>) = <<>>
        OBVIOUS
      <4>2. Tail(replies) = <<>>
        BY <3>3, <4>1
      <4> QED BY <2>1, <3>3, <4>2
    <3>6. \A i : ~InFlight(i)'
      <4>1. DOMAIN requests' = {} /\ DOMAIN replies' = {}
        BY <3>5
      <4> QED BY <3>5, <4>1 DEF InFlight, Posted, Handled, SentBack
    <3>7. DOMAIN calls' = {n} /\ calls'[n].st # "waiting" /\ calls'[n].method = "init"
      BY <1>7, <2>1, <3>4
    <3>8. NoCallHangs' /\ OnlyInit'
      BY <3>2, <3>7 DEF NoCallHangs, OnlyInit
    <3>9. OpenOnce' /\ StoredFirst'
      BY <1>2, <3>2, <3>6, <3>7 DEF OpenOnce, StoredFirst
    <3> QED BY <2>5, <3>2, <3>8, <3>9 DEF WaInv
  <2>7. CASE ~starts
    <3>1. client' = client \/ (client.mode # "worker" /\ client.stage = "open" /\ client' = [client EXCEPT !.closed = TRUE])
      <4>1. ends => client.stage = "open"
        BY <1>10 DEF ends
      <4> QED BY <1>8, <1>13, <2>7, <4>1 DEF degraded
    <3>2. /\ client' \in ClientState /\ client'.stage = client.stage /\ client'.storage = client.storage
          /\ client'.mode = client.mode /\ client'.terminal = client.terminal
          /\ client.mode = "worker" \/ client.stage # "open" => client'.closed = client.closed
      BY <1>9, <3>1 DEF ClientState
    <3>3. \A i \in DOMAIN calls' : calls'[i].st = "waiting" => calls[i].st = "waiting"
      BY <1>7, <2>1
    <3>4. NoCallHangs'
      BY <1>7, <2>1, <2>4, <3>2, <3>3 DEF WaInv, NoCallHangs
    <3>5. client.stage \notin {"none", "init"}
      <4>1. client.stage # "none"
        BY <1>2 DEF WaInv, OnlyInit
      <4>2. ASSUME client.stage = "init" PROVE FALSE
        <5>1. calls = <<[method |-> "init", st |-> "waiting"]>>
          BY <4>2 DEF WaInv, OnlyInit
        <5> QED BY <1>5, <2>7, <5>1 DEF starts
      <4> QED BY <4>1, <4>2
    <3>6. OnlyInit'
      BY <1>7, <2>1, <3>2, <3>5 DEF WaInv, OnlyInit
    <3>7. OpenOnce'
      BY <1>2, <1>7, <2>1, <2>2, <3>2 DEF WaInv, OpenOnce
    <3>8. StoredFirst'
      <4>1. \A i : Kept(i)' <=> Kept(i)
        BY <1>2, <3>2 DEF Kept
      <4>2. \A i \in DOMAIN calls : calls'[i].st = "ok" =>
               calls[i].st = "ok" \/ \E k \in DOMAIN replies : replies[k].id = i /\ replies[k].ok
        BY <1>3, <1>4, <1>7, <2>1
      <4>3. \A j \in DOMAIN replies' : \E k \in DOMAIN replies : replies[k] = replies'[j]
        BY <1>3, <2>1
      <4> QED BY <1>7, <2>1, <4>1, <4>2, <4>3 DEF WaInv, StoredFirst
    <3> QED BY <2>5, <3>2, <3>4, <3>6, <3>7, <3>8 DEF WaInv
  <2> QED BY <2>6, <2>7
<1> QED BY <1>12, <1>13

(* Every step of the client and its worker keeps the invariant. *)
LEMMA WaNext == WaInv /\ [Wa!Next]_wa => WaInv'
<1> SUFFICES ASSUME WaInv, [Wa!Next]_wa PROVE WaInv'
  OBVIOUS
<1>1. CASE wa' = wa
  BY <1>1 DEF wa, WaInv, WaTypeOK, NoCallHangs, OnlyInit, OpenOnce, StoredFirst, Kept,
              InFlight, Posted, Handled, SentBack
<1>2. ASSUME NEW m \in {"append", "read"}, Wa!Use(m) PROVE WaInv'
  <2>1. client.stage = "open" /\ Wa!Called(m) /\ UNCHANGED <<client, db, opened, disk, memory, dropped>>
    BY <1>2 DEF Wa!Use, Wa!side
  <2>2. client.closing \in BOOLEAN /\ client' = [client EXCEPT !.closing = client.closing]
    BY <2>1 DEF WaInv, WaTypeOK, ClientState
  <2>3. m \in Methods \ {"init"}
    BY DEF Methods
  <2> QED BY <2>1, <2>2, <2>3, CalledNext
<1>3. CASE Wa!Close
  BY <1>3, TeardownNext DEF Wa!Close
<1>4. CASE Wa!Drop
  <2>1. client.closing \in BOOLEAN /\ client = [client EXCEPT !.closing = client.closing]
    BY DEF WaInv, WaTypeOK, ClientState
  <2>2. client.stage = "open" /\ Wa!Teardown("drop", [client EXCEPT !.closing = client.closing])
    BY <1>4, <2>1 DEF Wa!Drop
  <2> QED BY <2>1, <2>2, TeardownNext
<1> QED BY <1>1, <1>2, <1>3, <1>4, CreateNext, BeginNext, DeliverNext, WorkerErrorNext,
           FinishInitNext, FinishUseNext, FinishCloseNext DEF Wa!Next, wa, Wa!vars

(* The invariant of the client implies what the run checks. *)
LEMMA WaInvSuffices == WaInv => Wa!EveryCallSettles /\ Wa!AcknowledgedIsStored
<1> SUFFICES ASSUME WaInv PROVE Wa!EveryCallSettles /\ Wa!AcknowledgedIsStored
  OBVIOUS
<1>1. \A i : Posted(i) => i \in Wa!Range(requests)
  BY DEF Posted, Wa!Range
<1>2. \A i \in Wa!Waiting : InFlight(i)
  BY DEF WaInv, NoCallHangs, Wa!Waiting, Wa!Ids
<1>3. client.mode = "worker" /\ (client.closed \/ client.terminal) => Wa!Waiting = {}
  BY DEF WaInv, NoCallHangs, Wa!Waiting, Wa!Ids
<1>4. Wa!EveryCallSettles
  BY <1>1, <1>2, <1>3 DEF Wa!EveryCallSettles, InFlight, Handled, SentBack
<1>5. Wa!AcknowledgedIsStored
  BY DEF WaInv, StoredFirst, Kept, Wa!AcknowledgedIsStored, Wa!Ids
<1> QED BY <1>4, <1>5

-----------------------------------------------------------------------------
(* The presence mesh: announcements, acknowledgements and prunings. *)

\* For how many units both peers have run and been online.
Both(p, q) == IF calm[p] < calm[q] THEN calm[p] ELSE calm[q]
Announced(m, q) == m.t = "presence" /\ m.from = q

\* The messages of an inbox are delivered in the order they were sent in.
Ordered(s) == \A i, j \in 1..Len(s) : i < j => s[j].age <= s[i].age
\* An announcement of q from at most one unit after the age a waits in s.
Waits(s, q, a) == \E i \in 1..Len(s) : Announced(s[i], q) /\ s[i].age + 1 >= a
\* q was heard of at the age a, and its next announcement is due or waits.
Following(s, q, a, announced) == a = 0 \/ (a = 1 /\ ~announced) \/ Waits(s, q, a)
\* Behind each message that q has sent in the last n units waits the announcement of
\* the unit after it.
Chained(s, q, n, announced) ==
    \A i \in 1..Len(s) :
        /\ s[i].from = q /\ 1 <= s[i].age /\ s[i].age <= n
        /\ s[i].age = 1 => announced
        => \E j \in 1..Len(s) : i < j /\ Announced(s[j], q) /\ s[j].age + 1 >= s[i].age

MeshMsg ==
    [t : {"presence", "presence_ack"}, from : Peer, to : Peer, age : 0..MaxDelay]

MeshTypeOK ==
    /\ up \subseteq Peer
    /\ online \in [Peer -> BOOLEAN]
    /\ DOMAIN seen = Peer
    /\ \A p \in Peer : \A q \in DOMAIN seen[p] : seen[p][q] \in Nat
    /\ conns \in [Peer -> SUBSET Peer] /\ ready \in [Peer -> SUBSET Peer]
    /\ inbox \in [Peer -> Seq(MeshMsg)]
    /\ sent \in [Peer -> BOOLEAN]
    /\ calm \in [Peer -> 0..Mesh!Handshake]

\* A peer is calm while it runs and is online; what it is ready for it has heard of.
PeersSound ==
    \A p \in Peer :
        /\ calm[p] >= 1 => p \in up /\ online[p]
        /\ conns[p] = DOMAIN seen[p] /\ ready[p] \subseteq conns[p]
        /\ Ordered(inbox[p])

\* p is ready for q and will be: its next announcement comes in time.
StaysReady(p, q) ==
    /\ q \in ready[p] /\ q \in DOMAIN seen[p]
    /\ \A i \in 1..Len(inbox[p]) : inbox[p][i].age <= Both(p, q)
    /\ Following(inbox[p], q, seen[p][q], sent[q])

\* The first announcement of p since both are calm is on its way to q.
Calls(p, q) ==
    \E i \in 1..Len(inbox[q]) : Announced(inbox[q][i], p) /\ inbox[q][i].age + 1 >= Both(p, q)
\* The acknowledgement of q is on its way back.
IsAnswer(p, q, m) ==
    /\ m.t = "presence_ack" /\ m.from = q /\ m.to = p
    /\ m.age < Both(p, q) /\ m.age + 1 + MaxDelay >= Both(p, q)
Answers(p, q) == \E i \in 1..Len(inbox[p]) : IsAnswer(p, q, inbox[p][i])

\* The way from the first announcement to readiness.
Meeting(p, q) ==
    Both(p, q) >= 1 =>
        (Both(p, q) = 1 /\ ~sent[p]) \/ Calls(p, q) \/ Answers(p, q) \/ StaysReady(p, q)
Chain(p, q) == Chained(inbox[p], q, Both(p, q), sent[q])

MeshInv ==
    /\ MeshTypeOK /\ PeersSound
    /\ \A p, q \in Peer : p # q => Meeting(p, q) /\ Chain(p, q)

(* Sequences of messages: their elements. *)
LEMMA InboxElement ==
  ASSUME NEW s \in Seq(MeshMsg), NEW i \in 1..Len(s)
  PROVE  s[i] \in MeshMsg /\ s[i].age \in 0..MaxDelay
<1>1. s[i] \in MeshMsg
  OBVIOUS
<1> QED BY <1>1 DEF MeshMsg

(* A new message is at the end. *)
LEMMA InboxAppend ==
  ASSUME NEW s \in Seq(MeshMsg), NEW m \in MeshMsg, NEW r, r = Append(s, m)
  PROVE  /\ r \in Seq(MeshMsg) /\ Len(r) = Len(s) + 1 /\ Len(s) \in Nat /\ r[Len(r)] = m
         /\ \A i \in 1..Len(s) : i \in 1..Len(r) /\ r[i] = s[i]
         /\ \A i \in 1..Len(r) : i = Len(r) \/ i \in 1..Len(s)
<1>1. r \in Seq(MeshMsg) /\ Len(r) = Len(s) + 1 /\ Len(s) \in Nat /\ r[Len(r)] = m
  OBVIOUS
<1>2. \A i \in 1..Len(s) : r[i] = s[i]
  OBVIOUS
<1> QED BY <1>1, <1>2

(* The oldest message is taken. *)
LEMMA InboxTail ==
  ASSUME NEW s \in Seq(MeshMsg), s # <<>>, NEW r, r = Tail(s)
  PROVE  /\ r \in Seq(MeshMsg) /\ Len(r) = Len(s) - 1 /\ Len(s) \in Nat /\ Len(s) >= 1
         /\ Head(s) = s[1] /\ Head(s) \in MeshMsg
         /\ \A i \in 1..Len(r) : i + 1 \in 1..Len(s) /\ r[i] = s[i + 1]
         /\ \A i \in 1..Len(s) : i = 1 \/ (i - 1 \in 1..Len(r) /\ r[i - 1] = s[i])
<1>1. r \in Seq(MeshMsg) /\ Len(r) = Len(s) - 1 /\ Len(s) \in Nat /\ Len(s) >= 1
  OBVIOUS
<1>2. Head(s) = s[1] /\ Head(s) \in MeshMsg
  BY <1>1
<1>3. \A i \in 1..Len(r) : i + 1 \in 1..Len(s) /\ r[i] = s[i + 1]
  BY <1>1
<1>4. \A i \in 1..Len(s) : i = 1 \/ (i - 1 \in 1..Len(r) /\ r[i - 1] = s[i])
  <2> SUFFICES ASSUME NEW i \in 1..Len(s), i # 1 PROVE i - 1 \in 1..Len(r) /\ r[i - 1] = s[i]
    OBVIOUS
  <2>1. i - 1 \in 1..Len(r) /\ (i - 1) + 1 = i
    BY <1>1
  <2> QED BY <2>1, <1>3
<1> QED BY <1>1, <1>2, <1>3, <1>4

(* An inbox as it is, or with a message of this unit behind it. *)
Grown(s, r) == r = s \/ \E m \in MeshMsg : m.age = 0 /\ r = Append(s, m)

(* What grows keeps its messages, and what it adds is of this unit. *)
LEMMA GrownElements ==
  ASSUME NEW s \in Seq(MeshMsg), NEW r, Grown(s, r), Ordered(s), MaxDelay \in Nat
  PROVE  /\ r \in Seq(MeshMsg) /\ Ordered(r)
         /\ \A i \in 1..Len(s) : i \in 1..Len(r) /\ r[i] = s[i]
         /\ \A i \in 1..Len(r) : i \in 1..Len(s) \/ r[i].age = 0
<1>1. CASE r = s
  BY <1>1
<1>2. CASE \E m \in MeshMsg : m.age = 0 /\ r = Append(s, m)
  <2> PICK m \in MeshMsg : m.age = 0 /\ r = Append(s, m)
    BY <1>2
  <2>1. /\ r \in Seq(MeshMsg) /\ Len(r) = Len(s) + 1 /\ Len(s) \in Nat /\ r[Len(r)] = m
        /\ \A i \in 1..Len(s) : i \in 1..Len(r) /\ r[i] = s[i]
        /\ \A i \in 1..Len(r) : i = Len(r) \/ i \in 1..Len(s)
    BY InboxAppend
  <2>2. \A i \in 1..Len(r) : i \in 1..Len(s) \/ r[i].age = 0
    BY <2>1
  <2>3. \A i \in 1..Len(s) : s[i].age \in 0..MaxDelay
    BY InboxElement
  <2>4. Ordered(r)
    <3> SUFFICES ASSUME NEW i \in 1..Len(r), NEW j \in 1..Len(r), i < j PROVE r[j].age <= r[i].age
      BY DEF Ordered
    <3>1. i \in 1..Len(s)
      BY <2>1
    <3>2. CASE j = Len(r)
      BY <3>1, <3>2, <2>1, <2>3
    <3>3. CASE j \in 1..Len(s)
      BY <3>1, <3>3, <2>1 DEF Ordered
    <3> QED BY <3>2, <3>3, <2>1
  <2> QED BY <2>1, <2>2, <2>4
<1> QED BY <1>1, <1>2 DEF Grown

(* Whoever has announced itself in time has still when an inbox grows. *)
LEMMA GrownKeeps ==
  ASSUME NEW s \in Seq(MeshMsg), NEW r, Grown(s, r), Ordered(s), MaxDelay \in Nat,
         NEW q, NEW n \in Nat, NEW a \in Nat, NEW b
  PROVE  /\ Chained(s, q, n, b) => Chained(r, q, n, b)
         /\ Following(s, q, a, b) => Following(r, q, a, b)
<1>1. CASE r = s
  BY <1>1
<1>2. CASE \E m \in MeshMsg : m.age = 0 /\ r = Append(s, m)
  <2> PICK m \in MeshMsg : m.age = 0 /\ r = Append(s, m)
    BY <1>2
  <2>1. /\ r \in Seq(MeshMsg) /\ Len(r) = Len(s) + 1 /\ Len(s) \in Nat /\ r[Len(r)] = m
        /\ \A i \in 1..Len(s) : i \in 1..Len(r) /\ r[i] = s[i]
        /\ \A i \in 1..Len(r) : i = Len(r) \/ i \in 1..Len(s)
    BY InboxAppend
  <2>5. ASSUME Chained(s, q, n, b) PROVE Chained(r, q, n, b)
    <3> SUFFICES ASSUME NEW i \in 1..Len(r),
                        r[i].from = q, 1 <= r[i].age, r[i].age <= n, r[i].age = 1 => b
                 PROVE  \E j \in 1..Len(r) :
                          i < j /\ Announced(r[j], q) /\ r[j].age + 1 >= r[i].age
      BY DEF Chained
    <3>1. i \in 1..Len(s) /\ r[i] = s[i]
      BY <2>1
    <3>2. PICK j \in 1..Len(s) : i < j /\ Announced(s[j], q) /\ s[j].age + 1 >= s[i].age
      BY <2>5, <3>1 DEF Chained
    <3> QED BY <3>1, <3>2, <2>1
  <2>6. ASSUME Waits(s, q, a) PROVE Waits(r, q, a)
    BY <2>6, <2>1 DEF Waits
  <2> QED BY <2>5, <2>6 DEF Following
<1> QED BY <1>1, <1>2 DEF Grown

(* A peer that announces itself continues the chain of its announcements. *)
LEMMA AnnouncedNow ==
  ASSUME NEW s \in Seq(MeshMsg), NEW m \in MeshMsg, NEW r, r = Append(s, m), m.age = 0,
         Announced(m, m.from), MaxDelay \in Nat, NEW n \in Nat, NEW a \in Nat,
         Chained(s, m.from, n, FALSE)
  PROVE  /\ Chained(r, m.from, n, TRUE)
         /\ Following(s, m.from, a, FALSE) => Following(r, m.from, a, TRUE)
<1>1. /\ r \in Seq(MeshMsg) /\ Len(r) = Len(s) + 1 /\ Len(s) \in Nat /\ r[Len(r)] = m
      /\ \A i \in 1..Len(s) : i \in 1..Len(r) /\ r[i] = s[i]
      /\ \A i \in 1..Len(r) : i = Len(r) \/ i \in 1..Len(s)
  BY InboxAppend
<1>2. Chained(r, m.from, n, TRUE)
  <2> SUFFICES ASSUME NEW i \in 1..Len(r), r[i].from = m.from, 1 <= r[i].age, r[i].age <= n
               PROVE  \E j \in 1..Len(r) :
                        i < j /\ Announced(r[j], m.from) /\ r[j].age + 1 >= r[i].age
    BY DEF Chained
  <2>1. i \in 1..Len(s) /\ r[i] = s[i] /\ s[i].age \in Nat
    BY <1>1, InboxElement
  <2>2. CASE s[i].age = 1
    <3>1. Len(r) \in 1..Len(r) /\ i < Len(r) /\ r[Len(r)].age + 1 >= r[i].age
      BY <1>1, <2>1, <2>2
    <3> QED BY <3>1, <1>1
  <2>3. CASE s[i].age # 1
    <3>1. PICK j \in 1..Len(s) : i < j /\ Announced(s[j], m.from) /\ s[j].age + 1 >= s[i].age
      BY <2>1, <2>3 DEF Chained
    <3> QED BY <3>1, <1>1, <2>1
  <2> QED BY <2>2, <2>3
<1>3. ASSUME Following(s, m.from, a, FALSE) PROVE Following(r, m.from, a, TRUE)
  <2>1. CASE a = 0
    BY <2>1 DEF Following
  <2>2. CASE a = 1
    <3>1. Len(r) \in 1..Len(r) /\ Announced(r[Len(r)], m.from) /\ r[Len(r)].age + 1 >= a
      BY <1>1, <2>2
    <3> QED BY <3>1 DEF Following, Waits
  <2>3. CASE Waits(s, m.from, a)
    BY <2>3, <1>1 DEF Following, Waits
  <2> QED BY <1>3, <2>1, <2>2, <2>3 DEF Following
<1> QED BY <1>2, <1>3

(* When the oldest message is taken the others stay as they are; if q sent it, it is *)
(* followed by the announcement of q in the next unit.                               *)
LEMMA TakenKeeps ==
  ASSUME NEW s \in Seq(MeshMsg), s # <<>>, NEW r, r = Tail(s), Ordered(s), MaxDelay \in Nat,
         NEW q, NEW n \in Nat, NEW b, Chained(s, q, n, b)
  PROVE  /\ r \in Seq(MeshMsg) /\ Ordered(r) /\ Chained(r, q, n, b)
         /\ \A i \in 1..Len(r) : r[i].age <= s[1].age
         /\ s[1].from = q /\ s[1].age <= n => Following(r, q, s[1].age, b)
         /\ \A a \in Nat : Following(s, q, a, b) /\ ~Announced(s[1], q) => Following(r, q, a, b)
<1>1. /\ r \in Seq(MeshMsg) /\ Len(r) = Len(s) - 1 /\ Len(s) \in Nat /\ Len(s) >= 1
      /\ Head(s) = s[1] /\ Head(s) \in MeshMsg
      /\ \A i \in 1..Len(r) : i + 1 \in 1..Len(s) /\ r[i] = s[i + 1]
      /\ \A i \in 1..Len(s) : i = 1 \/ (i - 1 \in 1..Len(r) /\ r[i - 1] = s[i])
  BY InboxTail
<1>2. Ordered(r)
  BY <1>1 DEF Ordered
<1>3. \A i \in 1..Len(r) : r[i].age <= s[1].age
  BY <1>1 DEF Ordered
<1>4. \A i \in 1..Len(s) : s[i].age \in Nat
  BY InboxElement
<1>5. Chained(r, q, n, b)
  <2> SUFFICES ASSUME NEW i \in 1..Len(r),
                      r[i].from = q, 1 <= r[i].age, r[i].age <= n, r[i].age = 1 => b
               PROVE  \E j \in 1..Len(r) :
                        i < j /\ Announced(r[j], q) /\ r[j].age + 1 >= r[i].age
    BY DEF Chained
  <2>1. i + 1 \in 1..Len(s) /\ r[i] = s[i + 1]
    BY <1>1
  <2>2. PICK j \in 1..Len(s) : i + 1 < j /\ Announced(s[j], q) /\ s[j].age + 1 >= s[i + 1].age
    BY <2>1 DEF Chained
  <2>3. j - 1 \in 1..Len(r) /\ r[j - 1] = s[j] /\ i < j - 1
    BY <2>2, <1>1
  <2> QED BY <2>1, <2>2, <2>3
<1>6. ASSUME s[1].from = q, s[1].age <= n PROVE Following(r, q, s[1].age, b)
  <2>1. 1 \in 1..Len(s) /\ s[1].age \in Nat
    BY <1>1, <1>4
  <2>2. CASE s[1].age = 0 \/ (s[1].age = 1 /\ ~b)
    BY <2>2 DEF Following
  <2>3. CASE 1 <= s[1].age /\ (s[1].age = 1 => b)
    <3>1. PICK j \in 1..Len(s) : 1 < j /\ Announced(s[j], q) /\ s[j].age + 1 >= s[1].age
      BY <1>6, <2>1, <2>3 DEF Chained
    <3>2. j - 1 \in 1..Len(r) /\ r[j - 1] = s[j]
      BY <3>1, <1>1
    <3> QED BY <3>1, <3>2 DEF Following, Waits
  <2> QED BY <2>1, <2>2, <2>3
<1>7. ASSUME NEW a \in Nat, Following(s, q, a, b), ~Announced(s[1], q) PROVE Following(r, q, a, b)
  <2>1. ASSUME Waits(s, q, a) PROVE Waits(r, q, a)
    <3>1. PICK j \in 1..Len(s) : Announced(s[j], q) /\ s[j].age + 1 >= a
      BY <2>1 DEF Waits
    <3>2. j - 1 \in 1..Len(r) /\ r[j - 1] = s[j]
      BY <3>1, <1>1, <1>7
    <3> QED BY <3>1, <3>2 DEF Waits
  <2> QED BY <1>7, <2>1 DEF Following
<1> QED BY <1>1, <1>2, <1>3, <1>5, <1>6, <1>7

(* In a unit of time all messages grow older alike. *)
Aged(s, r) ==
    /\ Len(r) = Len(s)
    /\ \A i \in 1..Len(s) :
         /\ r[i].age = s[i].age + 1 /\ s[i].age \in Nat
         /\ r[i].t = s[i].t /\ r[i].from = s[i].from /\ r[i].to = s[i].to

(* Messages that may still wait stay messages. *)
LEMMA AgedKeeps ==
  ASSUME NEW s \in Seq(MeshMsg), MaxDelay \in Nat, Ordered(s),
         \A i \in 1..Len(s) : s[i].age < MaxDelay,
         NEW r, r = [i \in DOMAIN s |-> [s[i] EXCEPT !.age = @ + 1]]
  PROVE  r \in Seq(MeshMsg) /\ Aged(s, r) /\ Ordered(r)
<1>1. DOMAIN s = 1..Len(s) /\ Len(s) \in Nat
  OBVIOUS
<1>2. ASSUME NEW i \in 1..Len(s)
      PROVE  /\ r[i] \in MeshMsg /\ r[i].age = s[i].age + 1 /\ s[i].age \in Nat
             /\ r[i].t = s[i].t /\ r[i].from = s[i].from /\ r[i].to = s[i].to
  <2>1. s[i] \in MeshMsg /\ s[i].age \in 0..MaxDelay /\ s[i].age < MaxDelay
    BY InboxElement
  <2>2. r[i] = [s[i] EXCEPT !.age = s[i].age + 1]
    BY <1>1
  <2>3. s[i].age + 1 \in 0..MaxDelay /\ s[i].age \in Nat
    BY <2>1
  <2> QED BY <2>1, <2>2, <2>3 DEF MeshMsg
<1>3. r \in [1..Len(s) -> MeshMsg]
  BY <1>1, <1>2
<1>4. r \in Seq(MeshMsg) /\ Len(r) = Len(s)
  BY <1>1, <1>3
<1>5. Ordered(r)
  <2> SUFFICES ASSUME NEW i \in 1..Len(r), NEW j \in 1..Len(r), i < j PROVE r[j].age <= r[i].age
    BY DEF Ordered
  <2>1. i \in 1..Len(s) /\ j \in 1..Len(s) /\ s[j].age <= s[i].age
    BY <1>4 DEF Ordered
  <2>2. r[i].age = s[i].age + 1 /\ r[j].age = s[j].age + 1 /\ s[i].age \in Nat /\ s[j].age \in Nat
    BY <2>1, <1>2
  <2> QED BY <2>1, <2>2
<1> QED BY <1>2, <1>4, <1>5 DEF Aged

(* A unit later the announcement behind each message is one unit older, too. *)
LEMMA AgedChain ==
  ASSUME NEW s, NEW r, Aged(s, r), NEW q, NEW n \in Nat, NEW k \in Nat, k <= n + 1,
         Chained(s, q, n, TRUE)
  PROVE  Chained(r, q, k, FALSE)
<1> SUFFICES ASSUME NEW i \in 1..Len(r),
                    r[i].from = q, 1 <= r[i].age, r[i].age <= k, r[i].age # 1
             PROVE  \E j \in 1..Len(r) :
                      i < j /\ Announced(r[j], q) /\ r[j].age + 1 >= r[i].age
  BY DEF Chained
<1>1. i \in 1..Len(s)
  BY DEF Aged
<1>2. s[i].age \in Nat /\ r[i].age = s[i].age + 1 /\ s[i].from = q
  BY <1>1 DEF Aged
<1>3. 1 <= s[i].age /\ s[i].age <= n
  BY <1>2
<1>4. PICK j \in 1..Len(s) : i < j /\ Announced(s[j], q) /\ s[j].age + 1 >= s[i].age
  BY <1>1, <1>2, <1>3 DEF Chained
<1>5. /\ s[j].age \in Nat /\ r[j].age = s[j].age + 1 /\ j \in 1..Len(r)
      /\ Announced(r[j], q)
  BY <1>4 DEF Aged, Announced
<1>6. r[j].age + 1 >= r[i].age
  BY <1>2, <1>4, <1>5
<1> QED BY <1>4, <1>5, <1>6

(* The announcement that was due has been sent when the unit ends. *)
LEMMA AgedFollowing ==
  ASSUME NEW s, NEW r, Aged(s, r), NEW q, NEW a \in Nat, NEW c \in Nat, c <= a + 1,
         Following(s, q, a, TRUE)
  PROVE  Following(r, q, c, FALSE)
<1>1. CASE a = 0
  BY <1>1 DEF Following
<1>2. CASE Waits(s, q, a)
  <2>1. PICK j \in 1..Len(s) : Announced(s[j], q) /\ s[j].age + 1 >= a
    BY <1>2 DEF Waits
  <2>2. /\ s[j].age \in Nat /\ r[j].age = s[j].age + 1 /\ j \in 1..Len(r)
        /\ Announced(r[j], q)
    BY <2>1 DEF Aged, Announced
  <2>3. r[j].age + 1 >= c
    BY <2>1, <2>2
  <2> QED BY <2>2, <2>3 DEF Following, Waits
<1> QED BY <1>1, <1>2 DEF Following

(* What is posted arrives at every other running peer. *)
LEMMA PostedGrows ==
  ASSUME MeshTypeOK, NEW box \in [Peer -> Seq(MeshMsg)], NEW from \in Peer,
         NEW m \in MeshMsg, m.age = 0
  PROVE  /\ Mesh!Posted(box, from, m) \in [Peer -> Seq(MeshMsg)]
         /\ Mesh!Posted(box, from, m)[from] = box[from]
         /\ \A x \in Peer : Grown(box[x], Mesh!Posted(box, from, m)[x])
         /\ \A x \in up : x # from => Mesh!Posted(box, from, m)[x] = Append(box[x], m)
<1> DEFINE new == Mesh!Posted(box, from, m)
<1>1. new = [p \in Peer |-> IF p \in up \ {from} THEN Append(box[p], m) ELSE box[p]]
  BY DEF Mesh!Posted
<1>2. \A x \in Peer : box[x] \in Seq(MeshMsg) /\ Append(box[x], m) \in Seq(MeshMsg)
  OBVIOUS
<1>3. new \in [Peer -> Seq(MeshMsg)]
  BY <1>1, <1>2
<1>4. \A x \in Peer : new[x] = IF x \in up \ {from} THEN Append(box[x], m) ELSE box[x]
  BY <1>1
<1>5. up \subseteq Peer
  BY DEF MeshTypeOK
<1> HIDE DEF new
<1> QED BY <1>3, <1>4, <1>5 DEF Grown, new

(* Announcements and acknowledgements are messages of this unit. *)
LEMMA NewMessages ==
  ASSUME MaxDelay \in Nat, NEW p \in Peer, NEW q \in Peer
  PROVE  /\ Mesh!Announcement(p) \in MeshMsg /\ Mesh!Announcement(p).age = 0
         /\ Announced(Mesh!Announcement(p), p) /\ Mesh!Announcement(p).from = p
         /\ Mesh!Ack(p, q) \in MeshMsg /\ Mesh!Ack(p, q).age = 0
         /\ Mesh!Ack(p, q).t = "presence_ack" /\ Mesh!Ack(p, q).from = p /\ Mesh!Ack(p, q).to = q
BY DEF Mesh!Announcement, Mesh!Ack, MeshMsg, Announced

(* How long both are calm. *)
LEMMA BothType ==
  ASSUME MeshTypeOK, MaxDelay \in Nat, NEW p \in Peer, NEW q \in Peer
  PROVE  /\ Both(p, q) \in Nat /\ Both(p, q) <= calm[p] /\ Both(p, q) <= calm[q]
         /\ calm[p] \in 0..Mesh!Handshake /\ calm[q] \in 0..Mesh!Handshake
         /\ Mesh!Handshake = 2 + 2 * MaxDelay
BY DEF Both, MeshTypeOK, Mesh!Handshake

(* While both are calm both run and are online. *)
LEMMA BothRun ==
  ASSUME MeshInv, MaxDelay \in Nat, NEW p \in Peer, NEW q \in Peer, Both(p, q) >= 1
  PROVE  p \in up /\ q \in up /\ online[p] /\ online[q]
<1>1. calm[p] >= 1 /\ calm[q] >= 1
  BY BothType DEF MeshInv
<1> QED BY <1>1 DEF MeshInv, PeersSound

(* A step that disturbs one of them lets both begin anew. *)
LEMMA PairRests ==
  ASSUME MeshTypeOK', MaxDelay \in Nat, NEW p \in Peer, NEW q \in Peer,
         calm'[p] = 0 \/ calm'[q] = 0
  PROVE  Meeting(p, q)' /\ Chain(p, q)'
<1>1. Both(p, q)' = 0
  BY DEF Both, MeshTypeOK
<1>2. \A i \in 1..Len(inbox'[p]) : inbox'[p][i].age \in Nat
  <2>1. inbox'[p] \in Seq(MeshMsg)
    BY DEF MeshTypeOK
  <2> QED BY <2>1, InboxElement
<1>3. Chained(inbox'[p], q, 0, sent'[q])
  BY <1>2 DEF Chained
<1> QED BY <1>1, <1>3 DEF Meeting, Chain

(* A step that leaves both alone but for messages that arrive, and that drops neither. *)
LEMMA PairKeeps ==
  ASSUME MeshInv, MaxDelay \in Nat, NEW p \in Peer, NEW q \in Peer, p # q,
         calm'[p] = calm[p], calm'[q] = calm[q], sent'[p] = sent[p], sent'[q] = sent[q],
         Grown(inbox[p], inbox'[p]), Grown(inbox[q], inbox'[q]),
         StaysReady(p, q) => /\ q \in ready'[p] /\ q \in DOMAIN seen'[p]
                             /\ seen'[p][q] = seen[p][q] \/ seen'[p][q] = 0
  PROVE  Meeting(p, q)' /\ Chain(p, q)'
<1> DEFINE n == Both(p, q)
<1>1. Both(p, q)' = n /\ n \in Nat
  BY BothType DEF Both, MeshInv
<1>2. inbox[p] \in Seq(MeshMsg) /\ inbox[q] \in Seq(MeshMsg)
  BY DEF MeshInv, MeshTypeOK
<1>3. Ordered(inbox[p]) /\ Ordered(inbox[q])
  BY DEF MeshInv, PeersSound
<1> HIDE DEF n
<1>4. Chain(p, q)'
  <2>1. Chained(inbox[p], q, n, sent[q])
    BY DEF MeshInv, Chain, n
  <2>2. Chained(inbox'[p], q, n, sent[q])
    BY <2>1, <1>1, <1>2, <1>3, GrownKeeps, 0 \in Nat
  <2> QED BY <2>2, <1>1 DEF Chain
<1>5. /\ \A i \in 1..Len(inbox[p]) : i \in 1..Len(inbox'[p]) /\ inbox'[p][i] = inbox[p][i]
      /\ \A i \in 1..Len(inbox'[p]) : i \in 1..Len(inbox[p]) \/ inbox'[p][i].age = 0
  BY <1>2, <1>3, GrownElements
<1>6. \A i \in 1..Len(inbox[q]) : i \in 1..Len(inbox'[q]) /\ inbox'[q][i] = inbox[q][i]
  BY <1>2, <1>3, GrownElements
<1>7. ASSUME Calls(p, q) PROVE Calls(p, q)'
  BY <1>1, <1>6, <1>7 DEF Calls, n
<1>8. ASSUME Answers(p, q) PROVE Answers(p, q)'
  <2>1. PICK i \in 1..Len(inbox[p]) : IsAnswer(p, q, inbox[p][i])
    BY <1>8 DEF Answers
  <2>2. i \in 1..Len(inbox'[p]) /\ inbox'[p][i] = inbox[p][i]
    BY <1>5
  <2>3. IsAnswer(p, q, inbox[p][i])'
    BY <2>1, <2>2, <1>1 DEF IsAnswer, n
  <2> QED BY <2>2, <2>3 DEF Answers
<1>9. ASSUME StaysReady(p, q) PROVE StaysReady(p, q)'
  <2>1. q \in ready'[p] /\ q \in DOMAIN seen'[p]
    BY <1>9
  <2>2. \A i \in 1..Len(inbox'[p]) : inbox'[p][i].age <= n
    BY <1>9, <1>1, <1>5 DEF StaysReady, n
  <2>3. seen[p][q] \in Nat /\ Following(inbox[p], q, seen[p][q], sent[q])
    BY <1>9 DEF StaysReady, MeshInv, MeshTypeOK
  <2>4. Following(inbox'[p], q, seen[p][q], sent[q])
    BY <2>3, <1>1, <1>2, <1>3, GrownKeeps
  <2>5. Following(inbox'[p], q, 0, sent[q])
    BY DEF Following
  <2>6. Following(inbox'[p], q, seen'[p][q], sent'[q])
    BY <1>9, <2>4, <2>5
  <2> QED BY <2>1, <2>2, <2>6, <1>1 DEF StaysReady
<1>10. Meeting(p, q)
  BY DEF MeshInv
<1> QED BY <1>1, <1>4, <1>7, <1>8, <1>9, <1>10 DEF Meeting, n

(* In every initial state. *)
LEMMA MeshInit == Mesh!Assumptions /\ Mesh!Init => MeshInv
<1> SUFFICES ASSUME Mesh!Assumptions, Mesh!Init PROVE MeshInv
  OBVIOUS
<1>1. MaxDelay \in Nat
  BY DEF Mesh!Assumptions
<1>2. MeshTypeOK
  <2>1. 0 \in 0..Mesh!Handshake
    BY <1>1 DEF Mesh!Handshake
  <2>2. <<>> \in Seq(MeshMsg)
    OBVIOUS
  <2>3. \A p \in Peer : DOMAIN seen[p] = {}
    BY DEF Mesh!Init
  <2> QED BY <2>1, <2>2, <2>3 DEF Mesh!Init, MeshTypeOK
<1>3. PeersSound
  <2>1. \A p \in Peer : DOMAIN seen[p] = {} /\ inbox[p] = <<>> /\ calm[p] = 0
    BY DEF Mesh!Init
  <2>2. Ordered(<<>>)
    BY DEF Ordered
  <2> QED BY <2>1, <2>2 DEF PeersSound, Mesh!Init
<1>4. ASSUME NEW p \in Peer, NEW q \in Peer PROVE Meeting(p, q) /\ Chain(p, q)
  <2>1. Both(p, q) = 0 /\ inbox[p] = <<>>
    BY DEF Both, Mesh!Init
  <2>2. Chained(<<>>, q, 0, sent[q])
    BY DEF Chained
  <2> QED BY <2>1, <2>2 DEF Meeting, Chain
<1> QED BY <1>2, <1>3, <1>4 DEF MeshInv

(* The invariant gives the property. *)
LEMMA MeshInvSuffices == Mesh!Assumptions /\ MeshInv => Mesh!NeighboursAreReady
<1> SUFFICES ASSUME Mesh!Assumptions, MeshInv, NEW p \in Peer, NEW q \in Peer
             PROVE  /\ p # q /\ calm[p] = Mesh!Handshake /\ calm[q] = Mesh!Handshake =>
                          q \in ready[p] /\ q \in conns[p]
                    /\ conns[p] = DOMAIN seen[p] /\ ready[p] \subseteq conns[p]
  BY DEF Mesh!NeighboursAreReady
<1>1. conns[p] = DOMAIN seen[p] /\ ready[p] \subseteq conns[p]
  BY DEF MeshInv, PeersSound
<1>2. MaxDelay \in Nat
  BY DEF Mesh!Assumptions
<1>3. ASSUME p # q, calm[p] = Mesh!Handshake, calm[q] = Mesh!Handshake
      PROVE  q \in ready[p]
  <2>1. Both(p, q) = 2 + 2 * MaxDelay
    BY <1>3, <1>2 DEF Both, Mesh!Handshake
  <2>2. inbox[p] \in Seq(MeshMsg) /\ inbox[q] \in Seq(MeshMsg)
    BY DEF MeshInv, MeshTypeOK
  <2>3. ~Calls(p, q)
    <3>1. \A i \in 1..Len(inbox[q]) : inbox[q][i].age \in 0..MaxDelay
      BY <2>2, InboxElement
    <3> QED BY <3>1, <2>1, <1>2 DEF Calls
  <2>4. ~Answers(p, q)
    <3>1. \A i \in 1..Len(inbox[p]) : inbox[p][i].age \in 0..MaxDelay
      BY <2>2, InboxElement
    <3> QED BY <3>1, <2>1, <1>2 DEF Answers, IsAnswer
  <2> QED BY <1>2, <1>3, <2>1, <2>3, <2>4 DEF MeshInv, Meeting, StaysReady
<1> QED BY <1>1, <1>3

(* The types and the order of what a peer hears, for the steps below. *)
LEMMA MeshMessages ==
  ASSUME MeshInv, Mesh!Assumptions, NEW p \in Peer
  PROVE  /\ MaxDelay \in Nat /\ inbox[p] \in Seq(MeshMsg) /\ Ordered(inbox[p])
         /\ inbox \in [Peer -> Seq(MeshMsg)] /\ DOMAIN inbox = Peer
         /\ calm[p] \in 0..Mesh!Handshake /\ 0 \in 0..Mesh!Handshake
BY DEF MeshInv, MeshTypeOK, PeersSound, Mesh!Assumptions, Mesh!Handshake

(* createBroadcastPresenceMesh announces the new peer. *)
LEMMA StartMeshNext ==
  ASSUME MeshInv, Mesh!Assumptions, NEW x \in Peer, Mesh!StartMesh(x) PROVE MeshInv'
<1> USE DEF Mesh!StartMesh
<1>1. MaxDelay \in Nat /\ inbox \in [Peer -> Seq(MeshMsg)] /\ 0 \in 0..Mesh!Handshake
  BY MeshMessages
<1>2. /\ inbox' \in [Peer -> Seq(MeshMsg)]
      /\ \A p \in Peer : Grown(inbox[p], inbox'[p])
  <2>1. CASE online[x]
    BY <2>1, <1>1, NewMessages, PostedGrows DEF MeshInv
  <2>2. CASE ~online[x]
    BY <2>2, <1>1 DEF Grown
  <2> QED BY <2>1, <2>2
<1>3. MeshTypeOK'
  BY <1>1, <1>2 DEF MeshInv, MeshTypeOK
<1>4. PeersSound'
  <2> SUFFICES ASSUME NEW p \in Peer
               PROVE  /\ calm'[p] >= 1 => p \in up' /\ online'[p]
                      /\ conns'[p] = DOMAIN seen'[p] /\ ready'[p] \subseteq conns'[p]
                      /\ Ordered(inbox'[p])
    BY DEF PeersSound
  <2>1. Ordered(inbox'[p])
    BY <1>2, MeshMessages, GrownElements
  <2>2. calm'[p] >= 1 => p \in up' /\ online'[p]
    BY DEF MeshInv, MeshTypeOK, PeersSound
  <2> QED BY <2>1, <2>2 DEF MeshInv, PeersSound
<1>5. ASSUME NEW p \in Peer, NEW q \in Peer, p # q PROVE Meeting(p, q)' /\ Chain(p, q)'
  <2>1. CASE p = x \/ q = x
    <3>1. calm'[x] = 0
      BY DEF MeshInv, MeshTypeOK
    <3> QED BY <2>1, <3>1, <1>1, <1>3, PairRests
  <2>2. CASE p # x /\ q # x
    <3>1. calm'[p] = calm[p] /\ calm'[q] = calm[q] /\ sent'[p] = sent[p] /\ sent'[q] = sent[q]
      BY <2>2 DEF MeshInv, MeshTypeOK
    <3>2. StaysReady(p, q) => q \in ready'[p] /\ q \in DOMAIN seen'[p] /\ seen'[p][q] = seen[p][q]
      BY DEF StaysReady
    <3> QED BY <3>1, <3>2, <1>1, <1>2, <1>5, PairKeeps
  <2> QED BY <2>1, <2>2
<1> QED BY <1>3, <1>4, <1>5 DEF MeshInv

(* A peer that stops, or goes offline, or on again, begins anew; so does one whose user *)
(* disconnects another.                                                                 *)
LEMMA DisturbedNext ==
  ASSUME MeshInv, Mesh!Assumptions, NEW x \in Peer, MeshTypeOK', PeersSound', calm'[x] = 0,
         \A p \in Peer \ {x} :
            /\ calm'[p] = calm[p] /\ sent'[p] = sent[p] /\ inbox'[p] = inbox[p]
            /\ ready'[p] = ready[p] /\ seen'[p] = seen[p]
  PROVE  MeshInv'
<1>1. ASSUME NEW p \in Peer, NEW q \in Peer, p # q PROVE Meeting(p, q)' /\ Chain(p, q)'
  <2>1. MaxDelay \in Nat
    BY MeshMessages
  <2>2. CASE p = x \/ q = x
    BY <2>1, <2>2, PairRests
  <2>3. CASE p # x /\ q # x
    <3>1. Grown(inbox[p], inbox'[p]) /\ Grown(inbox[q], inbox'[q])
      BY <2>3 DEF Grown
    <3>2. StaysReady(p, q) => q \in ready'[p] /\ q \in DOMAIN seen'[p] /\ seen'[p][q] = seen[p][q]
      BY <2>3 DEF StaysReady
    <3>3. calm'[p] = calm[p] /\ calm'[q] = calm[q] /\ sent'[p] = sent[p] /\ sent'[q] = sent[q]
      BY <2>3
    <3> QED BY <2>1, <3>1, <3>2, <3>3, <1>1, PairKeeps
  <2> QED BY <2>2, <2>3
<1> QED BY <1>1 DEF MeshInv

(* The peers of x without those that are gone. *)
LEMMA DroppedTypes ==
  ASSUME MeshTypeOK, NEW x \in Peer, NEW gone, Mesh!Dropped(x, gone)
  PROVE  /\ DOMAIN seen' = Peer
         /\ \A p \in Peer \ {x} : seen'[p] = seen[p] /\ conns'[p] = conns[p] /\ ready'[p] = ready[p]
         /\ DOMAIN seen'[x] = DOMAIN seen[x] \ gone
         /\ \A q \in DOMAIN seen'[x] : seen'[x][q] = seen[x][q]
         /\ conns'[x] = conns[x] \ gone /\ ready'[x] = ready[x] \ gone
         /\ conns' \in [Peer -> SUBSET Peer] /\ ready' \in [Peer -> SUBSET Peer]
         /\ \A p \in Peer : \A q \in DOMAIN seen'[p] : seen'[p][q] \in Nat
<1>1. seen'[x] = [q \in DOMAIN seen[x] \ gone |-> seen[x][q]]
  BY DEF Mesh!Dropped, Mesh!Restrict, MeshTypeOK
<1>2. DOMAIN seen' = Peer /\ \A p \in Peer \ {x} : seen'[p] = seen[p]
  BY DEF Mesh!Dropped, MeshTypeOK
<1>3. /\ conns'[x] = conns[x] \ gone /\ ready'[x] = ready[x] \ gone
      /\ conns' \in [Peer -> SUBSET Peer] /\ ready' \in [Peer -> SUBSET Peer]
      /\ \A p \in Peer \ {x} : conns'[p] = conns[p] /\ ready'[p] = ready[p]
  BY DEF Mesh!Dropped, MeshTypeOK
<1>4. /\ DOMAIN seen'[x] = DOMAIN seen[x] \ gone
      /\ \A q \in DOMAIN seen'[x] : seen'[x][q] = seen[x][q]
  BY <1>1
<1>5. \A p \in Peer : \A q \in DOMAIN seen'[p] : seen'[p][q] \in Nat
  <2> SUFFICES ASSUME NEW p \in Peer, NEW q \in DOMAIN seen'[p] PROVE seen'[p][q] \in Nat
    OBVIOUS
  <2>1. CASE p = x
    BY <2>1, <1>4 DEF MeshTypeOK
  <2>2. CASE p # x
    BY <2>2, <1>2 DEF MeshTypeOK
  <2> QED BY <2>1, <2>2
<1> QED BY <1>2, <1>3, <1>4, <1>5

(* What is left of them is still sound. *)
LEMMA DroppedSound ==
  ASSUME MeshInv, NEW x \in Peer, NEW gone, Mesh!Dropped(x, gone)
  PROVE  \A p \in Peer : conns'[p] = DOMAIN seen'[p] /\ ready'[p] \subseteq conns'[p]
<1> SUFFICES ASSUME NEW p \in Peer
             PROVE  conns'[p] = DOMAIN seen'[p] /\ ready'[p] \subseteq conns'[p]
  OBVIOUS
<1>1. conns[p] = DOMAIN seen[p] /\ ready[p] \subseteq conns[p]
  BY DEF MeshInv, PeersSound
<1>2. CASE p = x
  <2>1. /\ DOMAIN seen'[x] = DOMAIN seen[x] \ gone
        /\ conns'[x] = conns[x] \ gone /\ ready'[x] = ready[x] \ gone
    BY DroppedTypes DEF MeshInv
  <2> QED BY <1>1, <1>2, <2>1
<1>3. CASE p # x
  <2>1. seen'[p] = seen[p] /\ conns'[p] = conns[p] /\ ready'[p] = ready[p]
    BY <1>3, DroppedTypes DEF MeshInv
  <2> QED BY <1>1, <2>1
<1> QED BY <1>2, <1>3

(* stop: the mesh closes its transports. *)
LEMMA StopMeshNext ==
  ASSUME MeshInv, Mesh!Assumptions, NEW x \in Peer, Mesh!StopMesh(x) PROVE MeshInv'
<1> USE DEF Mesh!StopMesh, Mesh!Disturbed
<1>1. MeshTypeOK
  BY DEF MeshInv
<1>2. 0 \in 0..Mesh!Handshake /\ <<>> \in Seq(MeshMsg)
  BY MeshMessages
<1>3. Mesh!Dropped(x, Peer)
  OBVIOUS
<1>4. MeshTypeOK'
  BY <1>1, <1>2, <1>3, DroppedTypes DEF MeshTypeOK
<1>5. calm'[x] = 0
  BY <1>1 DEF MeshTypeOK
<1>6. \A p \in Peer \ {x} :
         /\ calm'[p] = calm[p] /\ sent'[p] = sent[p] /\ inbox'[p] = inbox[p]
         /\ ready'[p] = ready[p] /\ seen'[p] = seen[p] /\ conns'[p] = conns[p]
  BY <1>1, <1>3, DroppedTypes DEF MeshTypeOK
<1>7. PeersSound'
  <2>1. inbox'[x] = <<>> /\ Ordered(<<>>)
    BY <1>1 DEF MeshTypeOK, Ordered
  <2>2. \A p \in Peer : Ordered(inbox'[p])
    BY <2>1, <1>6 DEF MeshInv, PeersSound
  <2>3. \A p \in Peer : calm'[p] >= 1 => p \in up' /\ online'[p]
    BY <1>5, <1>6 DEF MeshInv, PeersSound
  <2> QED BY <2>2, <2>3, <1>3, DroppedSound DEF PeersSound
<1> QED BY <1>4, <1>5, <1>6, <1>7, DisturbedNext

(* disconnectPeer. *)
LEMMA DisconnectPeerNext ==
  ASSUME MeshInv, Mesh!Assumptions, NEW x \in Peer, NEW y \in Peer, Mesh!DisconnectPeer(x, y)
  PROVE  MeshInv'
<1> USE DEF Mesh!DisconnectPeer, Mesh!Disturbed
<1>1. MeshTypeOK
  BY DEF MeshInv
<1>2. 0 \in 0..Mesh!Handshake
  BY MeshMessages
<1>3. Mesh!Dropped(x, {y})
  OBVIOUS
<1>4. MeshTypeOK'
  BY <1>1, <1>2, <1>3, DroppedTypes DEF MeshTypeOK
<1>5. calm'[x] = 0
  BY <1>1 DEF MeshTypeOK
<1>6. \A p \in Peer \ {x} :
         /\ calm'[p] = calm[p] /\ sent'[p] = sent[p] /\ inbox'[p] = inbox[p]
         /\ ready'[p] = ready[p] /\ seen'[p] = seen[p] /\ conns'[p] = conns[p]
  BY <1>1, <1>3, DroppedTypes DEF MeshTypeOK
<1>7. PeersSound'
  <2>1. \A p \in Peer : calm'[p] >= 1 => p \in up' /\ online'[p]
    BY <1>5, <1>6 DEF MeshInv, PeersSound
  <2> QED BY <2>1, <1>3, DroppedSound DEF MeshInv, PeersSound
<1> QED BY <1>4, <1>5, <1>6, <1>7, DisturbedNext

(* isOnline changes. *)
LEMMA OnlineNext ==
  ASSUME MeshInv, Mesh!Assumptions, NEW x \in Peer, Mesh!GoOffline(x) \/ Mesh!GoOnline(x)
  PROVE  MeshInv'
<1> USE DEF Mesh!GoOffline, Mesh!GoOnline, Mesh!Disturbed
<1>1. MeshTypeOK
  BY DEF MeshInv
<1>2. 0 \in 0..Mesh!Handshake
  BY MeshMessages
<1>3. calm' = [calm EXCEPT ![x] = 0] /\ UNCHANGED <<up, seen, conns, ready, inbox, sent>>
  OBVIOUS
<1>4. online' \in [Peer -> BOOLEAN] /\ \A p \in Peer \ {x} : online'[p] = online[p]
  BY <1>1 DEF MeshTypeOK
<1>5. MeshTypeOK'
  BY <1>1, <1>2, <1>3, <1>4 DEF MeshTypeOK
<1>6. calm'[x] = 0 /\ \A p \in Peer \ {x} : calm'[p] = calm[p]
  BY <1>1, <1>3 DEF MeshTypeOK
<1>7. PeersSound'
  BY <1>3, <1>4, <1>6 DEF MeshInv, PeersSound
<1> QED BY <1>3, <1>5, <1>6, <1>7, DisturbedNext

(* The prune timer drops no peer that is kept: its timestamp is young enough. *)
LEMMA PruneNext ==
  ASSUME MeshInv, Mesh!Assumptions, NEW x \in Peer, Mesh!Prune(x) PROVE MeshInv'
<1> USE DEF Mesh!Prune
<1> DEFINE gone == {q \in DOMAIN seen[x] : seen[x][q] > Timeout}
<1>1. MeshTypeOK
  BY DEF MeshInv
<1>2. Mesh!Dropped(x, gone)
  OBVIOUS
<1> HIDE DEF gone
<1>3. MeshTypeOK'
  BY <1>1, <1>2, DroppedTypes DEF MeshTypeOK
<1>4. PeersSound'
  BY <1>2, DroppedSound DEF MeshInv, PeersSound
<1>5. ASSUME NEW p \in Peer, NEW q \in Peer, p # q PROVE Meeting(p, q)' /\ Chain(p, q)'
  <2>1. Grown(inbox[p], inbox'[p]) /\ Grown(inbox[q], inbox'[q])
    BY DEF Grown
  <2>2. ASSUME StaysReady(p, q)
        PROVE  q \in ready'[p] /\ q \in DOMAIN seen'[p] /\ seen'[p][q] = seen[p][q]
    <3>1. CASE p # x
      BY <3>1, <2>2, <1>1, <1>2, DroppedTypes DEF StaysReady
    <3>2. CASE p = x
      <4>1. seen[p][q] \in Nat /\ Following(inbox[p], q, seen[p][q], sent[q])
        BY <2>2, <1>1 DEF StaysReady, MeshTypeOK
      <4>2. \A i \in 1..Len(inbox[p]) : inbox[p][i].age \in 0..MaxDelay
        BY MeshMessages, InboxElement
      <4>3. seen[p][q] <= MaxDelay + 1
        BY <4>1, <4>2 DEF Following, Waits, Mesh!Assumptions
      <4>4. q \notin gone
        BY <3>2, <4>1, <4>3 DEF gone, Mesh!Assumptions
      <4> QED BY <3>2, <4>4, <2>2, <1>1, <1>2, DroppedTypes DEF StaysReady
    <3> QED BY <3>1, <3>2
  <2> QED BY <2>1, <2>2, <1>5, MeshMessages, PairKeeps
<1> QED BY <1>3, <1>4, <1>5 DEF MeshInv

(* lastSeen of x after it has heard of y. *)
LEMMA HeardOf ==
  ASSUME MeshTypeOK, NEW x \in Peer, NEW y, NEW a, Mesh!Heard(x, y, a)
  PROVE  /\ DOMAIN seen' = Peer /\ DOMAIN seen'[x] = DOMAIN seen[x] \cup {y}
         /\ \A p \in Peer \ {x} : seen'[p] = seen[p]
         /\ \A q \in DOMAIN seen'[x] : seen'[x][q] = IF q = y THEN a ELSE seen[x][q]
<1>1. /\ DOMAIN seen' = Peer /\ \A p \in Peer \ {x} : seen'[p] = seen[p]
      /\ seen'[x] = [q \in DOMAIN seen[x] \cup {y} |-> IF q = y THEN a ELSE seen[x][q]]
  BY DEF Mesh!Heard, MeshTypeOK
<1> QED BY <1>1

(* A message of the sync protocol shows that its sender is there. *)
LEMMA OnTransportNext ==
  ASSUME MeshInv, Mesh!Assumptions, NEW x \in Peer, NEW y \in Peer, Mesh!OnTransport(x, y)
  PROVE  MeshInv'
<1> USE DEF Mesh!OnTransport
<1>1. MeshTypeOK /\ y \in conns[x] /\ y \in DOMAIN seen[x]
  BY DEF MeshInv, PeersSound
<1>2. /\ DOMAIN seen' = Peer /\ DOMAIN seen'[x] = DOMAIN seen[x]
      /\ \A p \in Peer \ {x} : seen'[p] = seen[p]
      /\ \A q \in DOMAIN seen[x] : seen'[x][q] = IF q = y THEN 0 ELSE seen[x][q]
  <2>1. DOMAIN seen[x] \cup {y} = DOMAIN seen[x]
    BY <1>1
  <2> QED BY <1>1, <2>1, HeardOf
<1>3. UNCHANGED <<up, online, conns, ready, inbox, sent, calm>>
  BY DEF Mesh!mesh
<1>4. \A p \in Peer : \A q \in DOMAIN seen'[p] : seen'[p][q] \in Nat
  <2> SUFFICES ASSUME NEW p \in Peer, NEW q \in DOMAIN seen'[p] PROVE seen'[p][q] \in Nat
    OBVIOUS
  <2>1. CASE p = x
    BY <2>1, <1>1, <1>2 DEF MeshTypeOK
  <2>2. CASE p # x
    BY <2>2, <1>1, <1>2 DEF MeshTypeOK
  <2> QED BY <2>1, <2>2
<1>5. MeshTypeOK'
  BY <1>1, <1>2, <1>3, <1>4 DEF MeshTypeOK
<1>6. PeersSound'
  <2>1. \A p \in Peer : DOMAIN seen'[p] = DOMAIN seen[p]
    BY <1>2
  <2> QED BY <2>1, <1>3 DEF MeshInv, PeersSound
<1>7. ASSUME NEW p \in Peer, NEW q \in Peer, p # q PROVE Meeting(p, q)' /\ Chain(p, q)'
  <2>1. Grown(inbox[p], inbox'[p]) /\ Grown(inbox[q], inbox'[q])
    BY <1>3 DEF Grown
  <2>2. StaysReady(p, q) => /\ q \in ready'[p] /\ q \in DOMAIN seen'[p]
                            /\ seen'[p][q] = seen[p][q] \/ seen'[p][q] = 0
    BY <1>2, <1>3 DEF StaysReady
  <2> QED BY <2>1, <2>2, <1>3, <1>7, MeshMessages, PairKeeps
<1> QED BY <1>5, <1>6, <1>7 DEF MeshInv

(* The presence timer: the announcement every peer waits for. *)
LEMMA SendPresenceNext ==
  ASSUME MeshInv, Mesh!Assumptions, NEW x \in Peer, Mesh!SendPresence(x) PROVE MeshInv'
<1> DEFINE m == Mesh!Announcement(x)
<1>1. MeshTypeOK /\ MaxDelay \in Nat /\ inbox \in [Peer -> Seq(MeshMsg)]
  BY MeshMessages DEF MeshInv
<1>2. UNCHANGED <<up, online, seen, conns, ready, calm>> /\ sent' = [sent EXCEPT ![x] = TRUE] /\ ~sent[x]
  BY DEF Mesh!SendPresence, Mesh!mesh
<1>3. inbox' = IF online[x] THEN Mesh!Posted(inbox, x, m) ELSE inbox
  BY DEF Mesh!SendPresence
<1>4. m \in MeshMsg /\ m.age = 0 /\ Announced(m, x) /\ m.from = x
  BY <1>1, NewMessages
<1> HIDE DEF m
<1>5. /\ inbox' \in [Peer -> Seq(MeshMsg)]
      /\ \A p \in Peer : Grown(inbox[p], inbox'[p])
      /\ online[x] => \A p \in up : p # x => inbox'[p] = Append(inbox[p], m)
  <2>1. CASE online[x]
    BY <2>1, <1>1, <1>3, <1>4, PostedGrows
  <2>2. CASE ~online[x]
    BY <2>2, <1>1, <1>3 DEF Grown
  <2> QED BY <2>1, <2>2
<1>6. sent' \in [Peer -> BOOLEAN] /\ sent'[x] /\ \A p \in Peer \ {x} : sent'[p] = sent[p]
  BY <1>1, <1>2 DEF MeshTypeOK
<1>7. MeshTypeOK'
  BY <1>1, <1>2, <1>5, <1>6 DEF MeshTypeOK
<1>8. PeersSound'
  <2>1. \A p \in Peer : Ordered(inbox'[p])
    BY <1>5, MeshMessages, GrownElements
  <2> QED BY <2>1, <1>2 DEF MeshInv, PeersSound
<1>9. ASSUME NEW p \in Peer, NEW q \in Peer, p # q PROVE Meeting(p, q)' /\ Chain(p, q)'
  <2> DEFINE n == Both(p, q)
  <2>1. Both(p, q)' = n /\ n \in Nat
    BY <1>1, <1>2, BothType DEF Both
  <2>2. CASE n = 0
    <3>1. calm'[p] = 0 \/ calm'[q] = 0
      BY <2>2, <1>1, <1>2 DEF Both, MeshTypeOK
    <3> QED BY <3>1, <1>1, <1>7, PairRests
  <2>3. CASE p # x /\ q # x
    <3>1. sent'[p] = sent[p] /\ sent'[q] = sent[q]
      BY <2>3, <1>6
    <3>2. StaysReady(p, q) => q \in ready'[p] /\ q \in DOMAIN seen'[p] /\ seen'[p][q] = seen[p][q]
      BY <1>2 DEF StaysReady
    <3> QED BY <3>1, <3>2, <1>1, <1>2, <1>5, <1>9, PairKeeps
  <2>4. CASE n >= 1 /\ p = x
    <3>1. inbox'[p] = inbox[p] /\ inbox'[q] = Append(inbox[q], m)
      <4>1. q \in up /\ online[x]
        BY <2>4, <1>1, BothRun
      <4>2. inbox'[x] = inbox[x]
        BY <4>1, <1>1, <1>3, <1>4, PostedGrows
      <4> QED BY <2>4, <4>1, <4>2, <1>5, <1>9
    <3>2. sent'[q] = sent[q]
      BY <2>4, <1>6, <1>9
    <3>3. Chain(p, q)'
      BY <2>1, <3>1, <3>2, <1>9 DEF Chain, MeshInv
    <3>4. \A i \in 1..Len(inbox[q]) : i \in 1..Len(inbox'[q]) /\ inbox'[q][i] = inbox[q][i]
      BY <3>1, <1>1, <1>4, InboxAppend
    <3>5. ASSUME Calls(p, q) PROVE Calls(p, q)'
      BY <3>4, <3>5, <2>1 DEF Calls
    <3>6. ASSUME Answers(p, q) PROVE Answers(p, q)'
      BY <3>1, <3>6, <2>1 DEF Answers, IsAnswer
    <3>7. ASSUME StaysReady(p, q) PROVE StaysReady(p, q)'
      BY <3>1, <3>2, <3>7, <2>1, <1>2 DEF StaysReady
    <3>8. ASSUME n = 1 PROVE Calls(p, q)'
      <4>1. Len(inbox'[q]) \in 1..Len(inbox'[q]) /\ inbox'[q][Len(inbox'[q])] = m
        BY <3>1, <1>1, <1>4, InboxAppend
      <4> QED BY <4>1, <3>8, <2>1, <2>4, <1>4 DEF Calls
    <3> QED BY <3>3, <3>5, <3>6, <3>7, <3>8, <2>1, <2>4, <1>9 DEF Meeting, MeshInv
  <2>5. CASE n >= 1 /\ q = x
    <3>1. inbox'[q] = inbox[q] /\ inbox'[p] = Append(inbox[p], m) /\ inbox[p] \in Seq(MeshMsg)
      <4>1. p \in up /\ online[x]
        BY <2>5, <1>1, BothRun
      <4>2. inbox'[x] = inbox[x]
        BY <4>1, <1>1, <1>3, <1>4, PostedGrows
      <4> QED BY <2>5, <4>1, <4>2, <1>1, <1>5, <1>9
    <3>2. sent'[p] = sent[p] /\ sent[q] = FALSE /\ sent'[q] = TRUE
      BY <2>5, <1>1, <1>2, <1>6, <1>9 DEF MeshTypeOK
    <3>3. Chained(inbox[p], q, n, FALSE)
      BY <3>2, <1>9 DEF MeshInv, Chain
    <3>4. Chained(inbox'[p], q, n, TRUE)
      BY <3>1, <3>3, <2>1, <2>5, <1>1, <1>4, AnnouncedNow, 0 \in Nat
    <3>5. Chain(p, q)'
      BY <3>2, <3>4, <2>1, <1>7 DEF Chain, MeshTypeOK
    <3>6. /\ \A i \in 1..Len(inbox[p]) : i \in 1..Len(inbox'[p]) /\ inbox'[p][i] = inbox[p][i]
          /\ \A i \in 1..Len(inbox'[p]) : i = Len(inbox'[p]) \/ i \in 1..Len(inbox[p])
          /\ inbox'[p][Len(inbox'[p])] = m
      BY <3>1, <1>4, InboxAppend
    <3>7. ASSUME Calls(p, q) PROVE Calls(p, q)'
      BY <3>1, <3>7, <2>1 DEF Calls
    <3>8. ASSUME Answers(p, q) PROVE Answers(p, q)'
      <4>1. PICK i \in 1..Len(inbox[p]) : IsAnswer(p, q, inbox[p][i])
        BY <3>8 DEF Answers
      <4>2. i \in 1..Len(inbox'[p]) /\ inbox'[p][i] = inbox[p][i]
        BY <3>6
      <4>3. IsAnswer(p, q, inbox[p][i])'
        BY <4>1, <4>2, <2>1 DEF IsAnswer
      <4> QED BY <4>2, <4>3 DEF Answers
    <3>9. ASSUME StaysReady(p, q) PROVE StaysReady(p, q)'
      <4>1. seen[p][q] \in Nat /\ Following(inbox[p], q, seen[p][q], FALSE)
        BY <3>2, <3>9, <1>1 DEF StaysReady, MeshTypeOK
      <4>2. Following(inbox'[p], q, seen[p][q], TRUE)
        BY <4>1, <3>1, <3>3, <2>1, <2>5, <1>1, <1>4, AnnouncedNow
      <4>3. Following(inbox'[p], q, seen'[p][q], sent'[q])
        BY <4>2, <3>2, <1>2, <1>6
      <4>4. \A i \in 1..Len(inbox'[p]) : inbox'[p][i].age <= n
        BY <3>6, <3>9, <2>1, <1>4 DEF StaysReady
      <4> QED BY <4>3, <4>4, <3>9, <2>1, <1>2 DEF StaysReady
    <3> QED BY <3>2, <3>5, <3>7, <3>8, <3>9, <2>1, <1>9 DEF Meeting, MeshInv
  <2> QED BY <2>1, <2>2, <2>3, <2>4, <2>5
<1> QED BY <1>7, <1>8, <1>9 DEF MeshInv

(* Time: all timers that are due have run, every message ages. *)
LEMMA TickNext ==
  ASSUME MeshInv, Mesh!Assumptions, Mesh!Tick PROVE MeshInv'
<1>1. MeshTypeOK /\ MaxDelay \in Nat /\ inbox \in [Peer -> Seq(MeshMsg)]
  BY DEF MeshInv, MeshTypeOK, Mesh!Assumptions
<1>2. /\ \A p \in up : sent[p]
      /\ \A p \in Peer : \A i \in DOMAIN inbox[p] : inbox[p][i].age < MaxDelay
      /\ sent' = [p \in Peer |-> FALSE] /\ UNCHANGED <<up, online, conns, ready>>
  BY DEF Mesh!Tick
<1>3. ASSUME NEW p \in Peer
      PROVE  inbox'[p] \in Seq(MeshMsg) /\ Aged(inbox[p], inbox'[p]) /\ Ordered(inbox'[p])
  <2>1. inbox'[p] = [i \in DOMAIN inbox[p] |-> [inbox[p][i] EXCEPT !.age = @ + 1]]
    BY DEF Mesh!Tick
  <2>2. \A i \in 1..Len(inbox[p]) : inbox[p][i].age < MaxDelay
    BY <1>1, <1>2
  <2>3. inbox[p] \in Seq(MeshMsg) /\ Ordered(inbox[p])
    BY MeshMessages
  <2> QED BY <2>1, <2>2, <2>3, <1>1, AgedKeeps
<1>4. inbox' \in [Peer -> Seq(MeshMsg)]
  <2>1. inbox' = [p \in Peer |-> [i \in DOMAIN inbox[p] |-> [inbox[p][i] EXCEPT !.age = @ + 1]]]
    BY DEF Mesh!Tick
  <2> QED BY <2>1, <1>3
<1>5. ASSUME NEW p \in Peer, NEW q \in DOMAIN seen[p]
      PROVE  seen'[p][q] \in Nat /\ seen'[p][q] <= seen[p][q] + 1
  <2>1. seen'[p][q] = IF seen[p][q] < Timeout + 1 THEN seen[p][q] + 1 ELSE Timeout + 1
    BY DEF Mesh!Tick, Mesh!Capped
  <2>2. seen[p][q] \in Nat /\ Timeout \in Nat
    BY <1>1 DEF MeshTypeOK, Mesh!Assumptions
  <2> QED BY <2>1, <2>2
<1>6. DOMAIN seen' = Peer /\ \A p \in Peer : DOMAIN seen'[p] = DOMAIN seen[p]
  BY DEF Mesh!Tick
<1>7. ASSUME NEW p \in Peer
      PROVE  /\ calm'[p] \in 0..Mesh!Handshake /\ calm'[p] <= calm[p] + 1
             /\ calm'[p] >= 1 => p \in up /\ online[p] /\ (calm'[p] = calm[p] + 1 \/ calm[p] = Mesh!Handshake)
  <2>1. calm'[p] = IF p \in up /\ online[p]
                   THEN (IF calm[p] < Mesh!Handshake THEN calm[p] + 1 ELSE Mesh!Handshake) ELSE 0
    BY DEF Mesh!Tick, Mesh!Capped
  <2>2. calm[p] \in 0..Mesh!Handshake /\ Mesh!Handshake \in Nat
    BY <1>1 DEF MeshTypeOK, Mesh!Handshake
  <2> QED BY <2>1, <2>2
<1>8. MeshTypeOK'
  <2>1. calm' \in [Peer -> 0..Mesh!Handshake]
    <3>1. calm' = [p \in Peer |-> IF p \in up /\ online[p] THEN Mesh!Capped(calm[p], Mesh!Handshake) ELSE 0]
      BY DEF Mesh!Tick
    <3> QED BY <3>1, <1>7
  <2>2. sent' \in [Peer -> BOOLEAN]
    BY <1>2
  <2> QED BY <1>1, <1>2, <1>4, <1>5, <1>6, <2>1, <2>2 DEF MeshTypeOK
<1>9. PeersSound'
  BY <1>2, <1>3, <1>6, <1>7 DEF MeshInv, PeersSound
<1>10. ASSUME NEW p \in Peer, NEW q \in Peer, p # q PROVE Meeting(p, q)' /\ Chain(p, q)'
  <2> DEFINE n == Both(p, q)
             k == IF calm'[p] < calm'[q] THEN calm'[p] ELSE calm'[q]
  <2>1. Both(p, q)' = k
    BY DEF Both
  <2>2. CASE k = 0
    <3>1. calm'[p] = 0 \/ calm'[q] = 0
      BY <2>2, <1>7
    <3> QED BY <3>1, <1>1, <1>8, PairRests
  <2>3. CASE k # 0
    <3>1. /\ n \in Nat /\ k \in Nat /\ k >= 1 /\ k <= n + 1 /\ calm'[p] >= 1 /\ calm'[q] >= 1
          /\ n < 2 + 2 * MaxDelay => k = n + 1
          /\ n <= 2 + 2 * MaxDelay /\ (k = n \/ k = n + 1)
      <4>1. /\ calm[p] \in 0..Mesh!Handshake /\ calm[q] \in 0..Mesh!Handshake
            /\ Mesh!Handshake = 2 + 2 * MaxDelay
        BY <1>1, BothType
      <4>2. calm'[p] >= 1 /\ calm'[q] >= 1
        BY <2>3, <1>7, <4>1, <1>1
      <4>3. /\ calm'[p] = calm[p] + 1 \/ calm[p] = Mesh!Handshake
            /\ calm'[q] = calm[q] + 1 \/ calm[q] = Mesh!Handshake
            /\ calm'[p] \in 0..Mesh!Handshake /\ calm'[q] \in 0..Mesh!Handshake
            /\ calm'[p] <= calm[p] + 1 /\ calm'[q] <= calm[q] + 1
        BY <4>2, <1>7
      <4>4. calm[p] = Mesh!Handshake => calm'[p] = Mesh!Handshake
        BY <4>1, <4>2, <1>1 DEF Mesh!Tick, Mesh!Capped
      <4>5. calm[q] = Mesh!Handshake => calm'[q] = Mesh!Handshake
        BY <4>1, <4>2, <1>1 DEF Mesh!Tick, Mesh!Capped
      <4> QED BY <4>1, <4>2, <4>3, <4>4, <4>5, <1>1 DEF Both
    <3> HIDE DEF n, k
    <3>2. p \in up /\ q \in up /\ sent[p] = TRUE /\ sent[q] = TRUE /\ sent'[q] = FALSE
      BY <3>1, <1>1, <1>2, <1>7 DEF MeshTypeOK
    <3>3. Chained(inbox[p], q, n, TRUE)
      BY <3>2, <1>10 DEF MeshInv, Chain, n
    <3>4. Chain(p, q)'
      BY <3>1, <3>2, <3>3, <2>1, <1>3, AgedChain DEF Chain
    <3>5. ASSUME Calls(p, q) PROVE Calls(p, q)'
      <4>1. PICK i \in 1..Len(inbox[q]) : Announced(inbox[q][i], p) /\ inbox[q][i].age + 1 >= n
        BY <3>5 DEF Calls, n
      <4>2. /\ i \in 1..Len(inbox'[q]) /\ inbox'[q][i].age = inbox[q][i].age + 1
            /\ inbox[q][i].age \in Nat /\ Announced(inbox'[q][i], p)
        BY <4>1, <1>3 DEF Aged, Announced
      <4>3. inbox'[q][i].age + 1 >= k
        BY <4>1, <4>2, <3>1
      <4> QED BY <4>2, <4>3, <2>1 DEF Calls
    <3>6. ASSUME Answers(p, q) PROVE Answers(p, q)'
      <4>1. PICK i \in 1..Len(inbox[p]) : IsAnswer(p, q, inbox[p][i])
        BY <3>6 DEF Answers
      <4>2. /\ i \in 1..Len(inbox'[p]) /\ inbox'[p][i].age = inbox[p][i].age + 1
            /\ inbox'[p][i].t = inbox[p][i].t /\ inbox'[p][i].from = inbox[p][i].from
            /\ inbox'[p][i].to = inbox[p][i].to
        BY <4>1, <1>3 DEF Aged
      <4>3. inbox[p][i].age \in 0..MaxDelay /\ inbox[p][i].age < MaxDelay
        BY <1>1, <1>2, InboxElement
      <4>4. inbox[p][i].age < n /\ inbox[p][i].age + 1 + MaxDelay >= n
        BY <4>1 DEF IsAnswer, n
      <4>5. inbox'[p][i].age < k /\ inbox'[p][i].age + 1 + MaxDelay >= k
        BY <4>2, <4>3, <4>4, <3>1, <1>1
      <4> QED BY <4>1, <4>2, <4>5, <2>1 DEF Answers, IsAnswer
    <3>7. ASSUME StaysReady(p, q) PROVE StaysReady(p, q)'
      <4>1. seen[p][q] \in Nat /\ q \in ready[p] /\ q \in DOMAIN seen[p]
        BY <3>7, <1>1 DEF StaysReady, MeshTypeOK
      <4>2. Following(inbox[p], q, seen[p][q], TRUE)
        BY <3>2, <3>7 DEF StaysReady
      <4>3. Following(inbox'[p], q, seen'[p][q], FALSE)
        BY <4>1, <4>2, <1>3, <1>5, AgedFollowing
      <4>4. \A i \in 1..Len(inbox'[p]) : inbox'[p][i].age <= k
        <5> SUFFICES ASSUME NEW i \in 1..Len(inbox'[p]) PROVE inbox'[p][i].age <= k
          OBVIOUS
        <5>1. i \in 1..Len(inbox[p]) /\ inbox'[p][i].age = inbox[p][i].age + 1
          BY <1>3 DEF Aged
        <5>2. inbox[p][i].age \in 0..MaxDelay /\ inbox[p][i].age < MaxDelay /\ inbox[p][i].age <= n
          BY <5>1, <3>7, <1>1, <1>2, InboxElement DEF StaysReady, n
        <5> QED BY <5>1, <5>2, <3>1, <1>1
      <4> QED BY <4>1, <4>3, <4>4, <3>2, <2>1, <1>2, <1>6 DEF StaysReady
    <3>8. CASE n >= 1
      <4>1. Calls(p, q) \/ Answers(p, q) \/ StaysReady(p, q)
        BY <3>2, <3>8, <1>10 DEF Meeting, MeshInv, n
      <4> QED BY <4>1, <3>4, <3>5, <3>6, <3>7 DEF Meeting
    <3>9. CASE n = 0
      <4>1. k = 1 /\ sent'[p] = FALSE
        BY <3>1, <3>9, <1>1, <1>2
      <4> QED BY <4>1, <3>4, <2>1 DEF Meeting
    <3> QED BY <3>1, <3>8, <3>9
  <2> QED BY <2>2, <2>3
<1> QED BY <1>8, <1>9, <1>10 DEF MeshInv

(* onBroadcast of an announcement: every one is acknowledged. *)
LEMMA OnPresenceNext ==
  ASSUME MeshInv, Mesh!Assumptions, NEW x \in Peer, Mesh!OnPresence(x) PROVE MeshInv'
<1> DEFINE m == inbox[x][1]
           a == Mesh!Ack(x, m.from)
           rest == [inbox EXCEPT ![x] = Tail(@)]
<1>1. MeshTypeOK /\ MaxDelay \in Nat /\ inbox \in [Peer -> Seq(MeshMsg)]
  BY MeshMessages DEF MeshInv
<1>2. UNCHANGED <<up, online, calm, ready, sent>>
  BY DEF Mesh!OnPresence, Mesh!mesh
<1>3. /\ inbox[x] \in Seq(MeshMsg) /\ inbox[x] # <<>> /\ Head(inbox[x]) = m /\ m \in MeshMsg
      /\ 1 \in 1..Len(inbox[x]) /\ Tail(inbox[x]) \in Seq(MeshMsg)
  BY <1>1, InboxTail DEF Mesh!OnPresence
<1>4. m.t = "presence" /\ m.from \in Peer /\ m.age \in Nat
  BY <1>3 DEF Mesh!OnPresence, MeshMsg
<1>5. /\ Mesh!Heard(x, m.from, m.age) /\ Mesh!EnsureConnection(x, m.from)
      /\ inbox' = Mesh!Posted(rest, x, a)
  BY <1>3 DEF Mesh!OnPresence, Mesh!Acks
<1>6. /\ a \in MeshMsg /\ a.age = 0 /\ a.t = "presence_ack" /\ a.from = x /\ a.to = m.from
  BY <1>1, <1>4, NewMessages
<1>7. /\ rest \in [Peer -> Seq(MeshMsg)] /\ rest[x] = Tail(inbox[x])
      /\ \A p \in Peer \ {x} : rest[p] = inbox[p]
  BY <1>1, <1>3
<1> HIDE DEF a, rest
<1>8. /\ inbox' \in [Peer -> Seq(MeshMsg)] /\ inbox'[x] = Tail(inbox[x])
      /\ \A p \in Peer \ {x} : Grown(inbox[p], inbox'[p])
      /\ \A p \in up \ {x} : inbox'[p] = Append(inbox[p], a)
  <2>1. up \subseteq Peer
    BY <1>1 DEF MeshTypeOK
  <2>2. /\ inbox' \in [Peer -> Seq(MeshMsg)] /\ inbox'[x] = rest[x]
        /\ \A p \in Peer : Grown(rest[p], inbox'[p])
        /\ \A p \in up : p # x => inbox'[p] = Append(rest[p], a)
    BY <1>1, <1>5, <1>6, <1>7, PostedGrows
  <2> QED BY <2>1, <2>2, <1>7
<1>9. /\ DOMAIN seen' = Peer /\ DOMAIN seen'[x] = DOMAIN seen[x] \cup {m.from}
      /\ \A p \in Peer \ {x} : seen'[p] = seen[p]
      /\ \A q \in DOMAIN seen'[x] : seen'[x][q] = IF q = m.from THEN m.age ELSE seen[x][q]
  BY <1>1, <1>5, HeardOf
<1>10. /\ conns' \in [Peer -> SUBSET Peer] /\ conns'[x] = conns[x] \cup {m.from}
       /\ \A p \in Peer \ {x} : conns'[p] = conns[p]
  BY <1>1, <1>4, <1>5 DEF Mesh!EnsureConnection, MeshTypeOK
<1> HIDE DEF m
<1>11. \A p \in Peer : \A q \in DOMAIN seen'[p] : seen'[p][q] \in Nat
  <2> SUFFICES ASSUME NEW p \in Peer, NEW q \in DOMAIN seen'[p] PROVE seen'[p][q] \in Nat
    OBVIOUS
  <2>1. CASE p = x
    BY <2>1, <1>1, <1>4, <1>9 DEF MeshTypeOK
  <2>2. CASE p # x
    BY <2>2, <1>1, <1>9 DEF MeshTypeOK
  <2> QED BY <2>1, <2>2
<1>12. MeshTypeOK'
  BY <1>1, <1>2, <1>8, <1>9, <1>10, <1>11 DEF MeshTypeOK
<1>13. PeersSound'
  <2> SUFFICES ASSUME NEW p \in Peer
               PROVE  /\ conns'[p] = DOMAIN seen'[p] /\ ready'[p] \subseteq conns'[p]
                      /\ Ordered(inbox'[p])
    BY <1>2 DEF PeersSound, MeshInv
  <2>1. CASE p = x
    <3>1. Ordered(inbox'[x])
      BY <1>1, <1>3, <1>8, MeshMessages, InboxTail DEF Ordered
    <3> QED BY <2>1, <3>1, <1>2, <1>9, <1>10 DEF MeshInv, PeersSound
  <2>2. CASE p # x
    <3>1. Ordered(inbox'[p])
      BY <2>2, <1>8, MeshMessages, GrownElements
    <3> QED BY <2>2, <3>1, <1>2, <1>9, <1>10 DEF MeshInv, PeersSound
  <2> QED BY <2>1, <2>2
<1>14. ASSUME NEW p \in Peer, NEW q \in Peer, p # q PROVE Meeting(p, q)' /\ Chain(p, q)'
  <2> DEFINE n == Both(p, q)
  <2>1. Both(p, q)' = n /\ n \in Nat
    BY <1>1, <1>2, BothType DEF Both
  <2>2. Meeting(p, q) /\ Chain(p, q)
    BY <1>14 DEF MeshInv
  <2>3. CASE p # x /\ q # x
    <3>1. StaysReady(p, q) => q \in ready'[p] /\ q \in DOMAIN seen'[p] /\ seen'[p][q] = seen[p][q]
      BY <2>3, <1>2, <1>9 DEF StaysReady
    <3> QED BY <2>3, <3>1, <1>1, <1>2, <1>8, <1>14, PairKeeps
  <2>4. CASE p = x
    <3>1. Chained(inbox[p], q, n, sent[q])
      BY <2>2 DEF Chain
    <3>2. Ordered(inbox[p])
      BY MeshMessages
    <3> HIDE DEF n
    <3>3. /\ Chained(inbox'[p], q, n, sent[q])
          /\ \A i \in 1..Len(inbox'[p]) : inbox'[p][i].age <= m.age
          /\ m.from = q /\ m.age <= n => Following(inbox'[p], q, m.age, sent[q])
          /\ \A b \in Nat : Following(inbox[p], q, b, sent[q]) /\ ~Announced(m, q)
                              => Following(inbox'[p], q, b, sent[q])
      BY <2>1, <2>4, <3>1, <3>2, <1>1, <1>3, <1>8, TakenKeeps DEF m
    <3>4. /\ \A i \in 1..Len(inbox[p]) : i = 1 \/ (i - 1 \in 1..Len(inbox'[p]) /\ inbox'[p][i - 1] = inbox[p][i])
          /\ \A i \in 1..Len(inbox'[p]) : i + 1 \in 1..Len(inbox[p]) /\ inbox'[p][i] = inbox[p][i + 1]
      BY <2>4, <1>3, <1>8, InboxTail
    <3>5. \A i \in 1..Len(inbox[q]) : i \in 1..Len(inbox'[q]) /\ inbox'[q][i] = inbox[q][i]
      <4>1. Grown(inbox[q], inbox'[q]) /\ inbox[q] \in Seq(MeshMsg) /\ Ordered(inbox[q])
        BY <2>4, <1>8, <1>14, MeshMessages
      <4> QED BY <4>1, <1>1, GrownElements
    <3>6. ASSUME Calls(p, q) PROVE Calls(p, q)'
      BY <3>5, <3>6, <2>1 DEF Calls, n
    <3>7. ASSUME Answers(p, q) PROVE Answers(p, q)'
      <4>1. PICK i \in 1..Len(inbox[p]) : IsAnswer(p, q, inbox[p][i])
        BY <3>7 DEF Answers
      <4>2. i # 1
        BY <4>1, <2>4, <1>4 DEF m, IsAnswer
      <4>3. i - 1 \in 1..Len(inbox'[p]) /\ inbox'[p][i - 1] = inbox[p][i]
        BY <4>2, <3>4
      <4>4. IsAnswer(p, q, inbox[p][i - 1])'
        BY <4>1, <4>3, <2>1 DEF IsAnswer, n
      <4> QED BY <4>3, <4>4 DEF Answers
    <3>8. ASSUME StaysReady(p, q) PROVE StaysReady(p, q)'
      <4>1. /\ q \in ready[p] /\ q \in DOMAIN seen[p] /\ seen[p][q] \in Nat
            /\ Following(inbox[p], q, seen[p][q], sent[q]) /\ m.age <= n
        BY <3>8, <2>4, <1>1, <1>3 DEF StaysReady, MeshTypeOK, m, n
      <4>2. \A i \in 1..Len(inbox'[p]) : inbox'[p][i].age <= n
        BY <3>4, <3>8, <2>1 DEF StaysReady, n
      <4>3. q \in DOMAIN seen'[p] /\ seen'[p][q] = IF q = m.from THEN m.age ELSE seen[p][q]
        BY <4>1, <2>4, <1>9
      <4>4. Following(inbox'[p], q, seen'[p][q], sent[q])
        <5>1. CASE q = m.from
          BY <5>1, <4>1, <4>3, <3>3
        <5>2. CASE q # m.from
          BY <5>2, <4>1, <4>3, <3>3 DEF Announced
        <5> QED BY <5>1, <5>2
      <4> QED BY <4>1, <4>2, <4>3, <4>4, <2>1, <1>2 DEF StaysReady
    <3>9. Chain(p, q)'
      BY <3>3, <2>1, <1>2 DEF Chain
    <3> QED BY <3>6, <3>7, <3>8, <3>9, <2>1, <2>2, <1>2 DEF Meeting, n
  <2>5. CASE q = x
    <3>1. Grown(inbox[p], inbox'[p]) /\ inbox[p] \in Seq(MeshMsg) /\ Ordered(inbox[p])
      BY <2>5, <1>8, <1>14, MeshMessages
    <3>2. /\ \A i \in 1..Len(inbox[p]) : i \in 1..Len(inbox'[p]) /\ inbox'[p][i] = inbox[p][i]
          /\ \A i \in 1..Len(inbox'[p]) : i \in 1..Len(inbox[p]) \/ inbox'[p][i].age = 0
      BY <3>1, <1>1, GrownElements
    <3> HIDE DEF n
    <3>3. Chain(p, q)'
      <4>1. Chained(inbox[p], q, n, sent[q])
        BY <2>2 DEF Chain, n
      <4>2. Chained(inbox'[p], q, n, sent[q])
        BY <4>1, <3>1, <2>1, <1>1, GrownKeeps, 0 \in Nat
      <4> QED BY <4>2, <2>1, <1>2 DEF Chain
    <3>4. ASSUME Calls(p, q), n >= 1 PROVE Calls(p, q)' \/ Answers(p, q)'
      <4>1. PICK i \in 1..Len(inbox[q]) : Announced(inbox[q][i], p) /\ inbox[q][i].age + 1 >= n
        BY <3>4 DEF Calls, n
      <4>2. CASE i = 1
        <5>1. m.from = p /\ m.age + 1 >= n /\ m.age \in 0..MaxDelay
          BY <4>1, <4>2, <2>5, <1>3, <1>1, InboxElement DEF m, Announced
        <5>2. inbox'[p] = Append(inbox[p], a)
          <6>1. p \in up
            BY <3>4, <1>1, BothRun DEF n
          <6> QED BY <6>1, <2>5, <1>8, <1>14
        <5>3. Len(inbox'[p]) \in 1..Len(inbox'[p]) /\ inbox'[p][Len(inbox'[p])] = a
          BY <5>2, <3>1, <1>6, InboxAppend
        <5>4. a.age < n /\ a.age + 1 + MaxDelay >= n
          BY <5>1, <3>4, <2>1, <1>1, <1>6
        <5> QED BY <5>1, <5>3, <5>4, <2>1, <2>5, <1>6 DEF Answers, IsAnswer
      <4>3. CASE i # 1
        <5>1. i - 1 \in 1..Len(inbox'[q]) /\ inbox'[q][i - 1] = inbox[q][i]
          BY <4>3, <2>5, <1>3, <1>8, InboxTail
        <5> QED BY <5>1, <4>1, <2>1 DEF Calls
      <4> QED BY <4>2, <4>3
    <3>5. ASSUME Answers(p, q) PROVE Answers(p, q)'
      <4>1. PICK i \in 1..Len(inbox[p]) : IsAnswer(p, q, inbox[p][i])
        BY <3>5 DEF Answers
      <4>2. i \in 1..Len(inbox'[p]) /\ inbox'[p][i] = inbox[p][i]
        BY <3>2
      <4>3. IsAnswer(p, q, inbox[p][i])'
        BY <4>1, <4>2, <2>1 DEF IsAnswer, n
      <4> QED BY <4>2, <4>3 DEF Answers
    <3>6. ASSUME StaysReady(p, q) PROVE StaysReady(p, q)'
      <4>1. /\ q \in ready[p] /\ q \in DOMAIN seen[p] /\ seen[p][q] \in Nat
            /\ Following(inbox[p], q, seen[p][q], sent[q])
        BY <3>6, <1>1 DEF StaysReady, MeshTypeOK
      <4>2. seen'[p] = seen[p]
        BY <2>5, <1>9, <1>14
      <4>3. Following(inbox'[p], q, seen[p][q], sent[q])
        BY <4>1, <3>1, <2>1, <1>1, GrownKeeps
      <4>4. \A i \in 1..Len(inbox'[p]) : inbox'[p][i].age <= n
        BY <3>2, <3>6, <2>1 DEF StaysReady, n
      <4> QED BY <4>1, <4>2, <4>3, <4>4, <2>1, <1>2 DEF StaysReady
    <3> QED BY <3>3, <3>4, <3>5, <3>6, <2>1, <2>2, <1>2 DEF Meeting, n
  <2> QED BY <2>3, <2>4, <2>5
<1> QED BY <1>12, <1>13, <1>14 DEF MeshInv

(* onBroadcast of an acknowledgement: only the peer it is for becomes ready. *)
LEMMA OnPresenceAckNext ==
  ASSUME MeshInv, Mesh!Assumptions, NEW x \in Peer, Mesh!OnPresenceAck(x) PROVE MeshInv'
<1> DEFINE m == inbox[x][1]
<1>1. MeshTypeOK /\ MaxDelay \in Nat /\ inbox \in [Peer -> Seq(MeshMsg)]
  BY MeshMessages DEF MeshInv
<1>2. UNCHANGED <<up, online, calm, sent>>
  BY DEF Mesh!OnPresenceAck, Mesh!mesh
<1>3. /\ inbox[x] \in Seq(MeshMsg) /\ inbox[x] # <<>> /\ Head(inbox[x]) = m /\ m \in MeshMsg
      /\ 1 \in 1..Len(inbox[x]) /\ Tail(inbox[x]) \in Seq(MeshMsg)
  BY <1>1, InboxTail DEF Mesh!OnPresenceAck
<1>4. m.t = "presence_ack" /\ m.from \in Peer /\ m.age \in Nat
  BY <1>3 DEF Mesh!OnPresenceAck, MeshMsg
<1>5. /\ inbox' \in [Peer -> Seq(MeshMsg)] /\ inbox'[x] = Tail(inbox[x])
      /\ \A p \in Peer \ {x} : inbox'[p] = inbox[p]
  BY <1>1, <1>3 DEF Mesh!OnPresenceAck
<1>6. IF m.to = x
      THEN /\ Mesh!Heard(x, m.from, m.age) /\ Mesh!EnsureConnection(x, m.from)
           /\ ready' = [ready EXCEPT ![x] = @ \cup {m.from}]
      ELSE UNCHANGED <<seen, conns, ready>>
  BY <1>3 DEF Mesh!OnPresenceAck
<1> HIDE DEF m
<1>7. /\ DOMAIN seen' = Peer
      /\ \A p \in Peer \ {x} : seen'[p] = seen[p] /\ conns'[p] = conns[p] /\ ready'[p] = ready[p]
      /\ conns' \in [Peer -> SUBSET Peer] /\ ready' \in [Peer -> SUBSET Peer]
      /\ \A q \in DOMAIN seen[x] :
            q \in DOMAIN seen'[x] /\ (m.from # q \/ m.to # x => seen'[x][q] = seen[x][q])
      /\ m.to = x => /\ DOMAIN seen'[x] = DOMAIN seen[x] \cup {m.from}
                     /\ conns'[x] = conns[x] \cup {m.from} /\ ready'[x] = ready[x] \cup {m.from}
                     /\ seen'[x][m.from] = m.age
      /\ m.to # x => DOMAIN seen'[x] = DOMAIN seen[x] /\ conns'[x] = conns[x] /\ ready'[x] = ready[x]
      /\ \A q \in DOMAIN seen'[x] : seen'[x][q] \in Nat
  <2>1. CASE m.to = x
    <3>1. /\ Mesh!Heard(x, m.from, m.age) /\ Mesh!EnsureConnection(x, m.from)
          /\ ready' = [ready EXCEPT ![x] = @ \cup {m.from}]
      BY <2>1, <1>6
    <3>2. /\ DOMAIN seen' = Peer /\ DOMAIN seen'[x] = DOMAIN seen[x] \cup {m.from}
          /\ \A p \in Peer \ {x} : seen'[p] = seen[p]
          /\ \A q \in DOMAIN seen'[x] : seen'[x][q] = IF q = m.from THEN m.age ELSE seen[x][q]
      BY <3>1, <1>1, HeardOf
    <3>3. /\ conns' \in [Peer -> SUBSET Peer] /\ conns'[x] = conns[x] \cup {m.from}
          /\ \A p \in Peer \ {x} : conns'[p] = conns[p]
      BY <3>1, <1>1, <1>4 DEF Mesh!EnsureConnection, MeshTypeOK
    <3>4. /\ ready' \in [Peer -> SUBSET Peer] /\ ready'[x] = ready[x] \cup {m.from}
          /\ \A p \in Peer \ {x} : ready'[p] = ready[p]
      BY <3>1, <1>1, <1>4 DEF MeshTypeOK
    <3>5. \A q \in DOMAIN seen'[x] : seen'[x][q] \in Nat
      BY <3>2, <1>1, <1>4 DEF MeshTypeOK
    <3> QED BY <2>1, <3>2, <3>3, <3>4, <3>5
  <2>2. CASE m.to # x
    BY <2>2, <1>1, <1>6 DEF MeshTypeOK
  <2> QED BY <2>1, <2>2
<1>8. MeshTypeOK'
  <2>1. ASSUME NEW p \in Peer, NEW q \in DOMAIN seen'[p] PROVE seen'[p][q] \in Nat
    <3>1. CASE p = x
      BY <2>1, <3>1, <1>7
    <3>2. CASE p # x
      BY <3>2, <2>1, <1>1, <1>7 DEF MeshTypeOK
    <3> QED BY <3>1, <3>2
  <2> QED BY <2>1, <1>1, <1>2, <1>5, <1>7 DEF MeshTypeOK
<1>9. PeersSound'
  <2> SUFFICES ASSUME NEW p \in Peer
               PROVE  /\ conns'[p] = DOMAIN seen'[p] /\ ready'[p] \subseteq conns'[p]
                      /\ Ordered(inbox'[p])
    BY <1>2 DEF PeersSound, MeshInv
  <2>1. conns[p] = DOMAIN seen[p] /\ ready[p] \subseteq conns[p] /\ Ordered(inbox[p])
    BY DEF MeshInv, PeersSound
  <2>2. CASE p = x
    <3>1. Ordered(inbox'[x])
      BY <1>1, <1>3, <1>5, MeshMessages, InboxTail DEF Ordered
    <3> QED BY <2>1, <2>2, <3>1, <1>7
  <2>3. CASE p # x
    BY <2>1, <2>3, <1>5, <1>7
  <2> QED BY <2>2, <2>3
<1>10. ASSUME NEW p \in Peer, NEW q \in Peer, p # q PROVE Meeting(p, q)' /\ Chain(p, q)'
  <2> DEFINE n == Both(p, q)
  <2>1. Both(p, q)' = n /\ n \in Nat
    BY <1>1, <1>2, BothType DEF Both
  <2>2. Meeting(p, q) /\ Chain(p, q)
    BY <1>10 DEF MeshInv
  <2>3. CASE p # x /\ q # x
    <3>1. StaysReady(p, q) => q \in ready'[p] /\ q \in DOMAIN seen'[p] /\ seen'[p][q] = seen[p][q]
      BY <2>3, <1>7 DEF StaysReady
    <3>2. Grown(inbox[p], inbox'[p]) /\ Grown(inbox[q], inbox'[q])
      BY <2>3, <1>5 DEF Grown
    <3> QED BY <2>3, <3>1, <3>2, <1>1, <1>2, <1>10, PairKeeps
  <2>4. CASE p = x
    <3>1. Chained(inbox[p], q, n, sent[q])
      BY <2>2 DEF Chain
    <3>2. Ordered(inbox[p])
      BY MeshMessages
    <3> HIDE DEF n
    <3>3. /\ Chained(inbox'[p], q, n, sent[q])
          /\ \A i \in 1..Len(inbox'[p]) : inbox'[p][i].age <= m.age
          /\ m.from = q /\ m.age <= n => Following(inbox'[p], q, m.age, sent[q])
          /\ \A b \in Nat : Following(inbox[p], q, b, sent[q]) /\ ~Announced(m, q)
                              => Following(inbox'[p], q, b, sent[q])
      BY <2>1, <2>4, <3>1, <3>2, <1>1, <1>3, <1>5, TakenKeeps DEF m
    <3>4. /\ \A i \in 1..Len(inbox[p]) : i = 1 \/ (i - 1 \in 1..Len(inbox'[p]) /\ inbox'[p][i - 1] = inbox[p][i])
          /\ \A i \in 1..Len(inbox'[p]) : i + 1 \in 1..Len(inbox[p]) /\ inbox'[p][i] = inbox[p][i + 1]
      BY <2>4, <1>3, <1>5, InboxTail
    <3>5. ~Announced(m, q)
      BY <1>4 DEF Announced
    <3>6. ASSUME Calls(p, q) PROVE Calls(p, q)'
      BY <2>4, <3>6, <2>1, <1>5, <1>10 DEF Calls, n
    <3>7. ASSUME IsAnswer(p, q, m) PROVE StaysReady(p, q)'
      <4>1. m.to = x /\ m.from = q /\ m.age < n
        BY <3>7, <2>4 DEF IsAnswer, n
      <4>2. q \in ready'[p] /\ q \in DOMAIN seen'[p] /\ seen'[p][q] = m.age
        BY <4>1, <2>4, <1>7
      <4>3. Following(inbox'[p], q, m.age, sent[q])
        BY <4>1, <3>3, <2>1, <1>4
      <4>4. \A i \in 1..Len(inbox'[p]) : inbox'[p][i].age <= n
        <5>1. \A i \in 1..Len(inbox'[p]) : inbox'[p][i].age \in 0..MaxDelay
          BY <1>5, InboxElement
        <5> QED BY <5>1, <4>1, <3>3, <2>1, <1>1, <1>4
      <4> QED BY <4>2, <4>3, <4>4, <2>1, <1>2 DEF StaysReady
    <3>8. ASSUME Answers(p, q) PROVE Answers(p, q)' \/ StaysReady(p, q)'
      <4>1. PICK i \in 1..Len(inbox[p]) : IsAnswer(p, q, inbox[p][i])
        BY <3>8 DEF Answers
      <4>2. CASE i = 1
        BY <4>1, <4>2, <2>4, <3>7 DEF m
      <4>3. CASE i # 1
        <5>1. i - 1 \in 1..Len(inbox'[p]) /\ inbox'[p][i - 1] = inbox[p][i]
          BY <4>3, <3>4
        <5>2. IsAnswer(p, q, inbox[p][i - 1])'
          BY <4>1, <5>1, <2>1 DEF IsAnswer, n
        <5> QED BY <5>1, <5>2 DEF Answers
      <4> QED BY <4>2, <4>3
    <3>9. ASSUME StaysReady(p, q) PROVE StaysReady(p, q)'
      <4>1. /\ q \in ready[p] /\ q \in DOMAIN seen[p] /\ seen[p][q] \in Nat
            /\ Following(inbox[p], q, seen[p][q], sent[q]) /\ m.age <= n
        BY <3>9, <2>4, <1>1, <1>3 DEF StaysReady, MeshTypeOK, m, n
      <4>2. \A i \in 1..Len(inbox'[p]) : inbox'[p][i].age <= n
        BY <3>4, <3>9, <2>1 DEF StaysReady, n
      <4>3. q \in ready'[p] /\ q \in DOMAIN seen'[p]
        BY <4>1, <2>4, <1>7
      <4>4. Following(inbox'[p], q, seen'[p][q], sent[q])
        <5>1. CASE q = m.from /\ m.to = x
          BY <5>1, <4>1, <2>4, <3>3, <1>7
        <5>2. CASE q # m.from \/ m.to # x
          BY <5>2, <4>1, <2>4, <3>3, <3>5, <1>7
        <5> QED BY <5>1, <5>2
      <4> QED BY <4>2, <4>3, <4>4, <2>1, <1>2 DEF StaysReady
    <3>10. Chain(p, q)'
      BY <3>3, <2>1, <1>2 DEF Chain
    <3> QED BY <3>6, <3>8, <3>9, <3>10, <2>1, <2>2, <1>2 DEF Meeting, n
  <2>5. CASE q = x
    <3>1. inbox'[p] = inbox[p] /\ seen'[p] = seen[p] /\ ready'[p] = ready[p]
      BY <2>5, <1>5, <1>7, <1>10
    <3>2. ASSUME Calls(p, q) PROVE Calls(p, q)'
      <4>1. PICK i \in 1..Len(inbox[q]) : Announced(inbox[q][i], p) /\ inbox[q][i].age + 1 >= n
        BY <3>2 DEF Calls
      <4>2. i # 1
        BY <4>1, <2>5, <1>4 DEF m, Announced
      <4>3. i - 1 \in 1..Len(inbox'[q]) /\ inbox'[q][i - 1] = inbox[q][i]
        BY <4>2, <2>5, <1>3, <1>5, InboxTail
      <4> QED BY <4>1, <4>3, <2>1 DEF Calls
    <3>3. Answers(p, q) => Answers(p, q)'
      BY <3>1, <2>1 DEF Answers, IsAnswer
    <3>4. StaysReady(p, q) => StaysReady(p, q)'
      BY <3>1, <2>1, <1>2 DEF StaysReady
    <3>5. Chain(p, q)'
      BY <3>1, <2>1, <2>2, <1>2 DEF Chain
    <3> QED BY <3>2, <3>3, <3>4, <3>5, <2>1, <2>2, <1>2 DEF Meeting
  <2> QED BY <2>3, <2>4, <2>5
<1> QED BY <1>8, <1>9, <1>10 DEF MeshInv

(* Every step of the mesh keeps the invariant. *)
LEMMA MeshNext == Mesh!Assumptions /\ MeshInv /\ [Mesh!Next]_mesh => MeshInv'
<1> SUFFICES ASSUME Mesh!Assumptions, MeshInv, [Mesh!Next]_mesh PROVE MeshInv'
  OBVIOUS
<1>1. CASE UNCHANGED mesh
  BY <1>1 DEF mesh, MeshInv, MeshTypeOK, PeersSound, Meeting, Chain, Calls, Answers, StaysReady, Both,
              IsAnswer
<1>2. CASE Mesh!Tick
  BY <1>2, TickNext
<1>3. ASSUME NEW p \in Peer,
             \/ Mesh!StartMesh(p) \/ Mesh!SendPresence(p) \/ Mesh!OnPresence(p)
             \/ Mesh!OnPresenceAck(p) \/ Mesh!Prune(p) \/ Mesh!StopMesh(p)
             \/ Mesh!GoOffline(p) \/ Mesh!GoOnline(p)
      PROVE  MeshInv'
  BY <1>3, StartMeshNext, SendPresenceNext, OnPresenceNext, OnPresenceAckNext, PruneNext,
     StopMeshNext, OnlineNext
<1>4. ASSUME NEW p \in Peer, NEW q \in Peer, Mesh!OnTransport(p, q) \/ Mesh!DisconnectPeer(p, q)
      PROVE  MeshInv'
  BY <1>4, OnTransportNext, DisconnectPeerNext
<1> QED BY <1>1, <1>2, <1>3, <1>4 DEF Mesh!Next

-----------------------------------------------------------------------------
(* The composition. *)

\* The part of a behaviour never changes, and its invariant holds.
PartsInv ==
    /\ part = "server" => ServerInv
    /\ part = "gate" => GateInv
    /\ part = "routes" => RoutesInv
    /\ part = "mesh" => MeshInv
    /\ part = "wa" => WaInv

(* Every step of the composition is a step of one part. *)
LEMMA PartsNext == PartsInv /\ [Next]_all_vars => PartsInv'
<1> SUFFICES ASSUME PartsInv, [Next]_all_vars PROVE PartsInv'
  OBVIOUS
<1>1. Server!Assumptions /\ Gate!Assumptions /\ Routes!Assumptions /\ Mesh!Assumptions
  BY MCServicesAssumption
<1>2. part' = part
  BY DEF Next, all_vars
<1>3. part = "server" => [Server!Next]_server
  BY DEF Next, all_vars
<1>4. part = "gate" => [Gate!Next]_gate
  BY DEF Next, all_vars
<1>5. part = "routes" => [Routes!Next]_routes
  BY DEF Next, all_vars
<1>6. part = "wa" => [Wa!Next]_wa
  BY DEF Next, all_vars
<1>7. part = "mesh" => [Mesh!Next]_mesh
  BY DEF Next, all_vars
<1> QED BY <1>1, <1>2, <1>3, <1>4, <1>5, <1>6, <1>7,
           ServerNext, GateNext, RoutesNext, MeshNext, WaNext DEF PartsInv

(* The invariants of all parts hold in every reachable state. *)
THEOREM PartsInvariance == Spec => []PartsInv
<1>1. Init => PartsInv
  BY MCServicesAssumption, ServerInit, GateInit, RoutesInit, MeshInit, WaInit DEF Init, PartsInv
<1> QED BY <1>1, PartsNext, PTL DEF Spec, all_vars

(* createDocumentStore: however sockets close while a document is opened, while the idle timer *)
(* runs or while the server stops, a backend is open exactly as long as it is used.            *)
THEOREM BackendsAreCounted == Spec => []BackendsFollowConnections
<1>1. PartsInv => BackendsFollowConnections
  BY MCServicesAssumption, ServerInvSuffices DEF PartsInv, BackendsFollowConnections
<1> QED BY <1>1, PartsInvariance, PTL

(* onOpsApplied and the Postgres bus: a connected peer hears of every stored operation, through *)
(* the call that stored it or the bus, unless its publication failed.                           *)
THEOREM StoredReachesPeers == Spec => []StoredIsAnnounced
<1>1. PartsInv => StoredIsAnnounced
  BY MCServicesAssumption, ServerInvSuffices DEF PartsInv, StoredIsAnnounced
<1> QED BY <1>1, PartsInvariance, PTL

(* createRateLimiter: for every window and every maximum, the fixed windows and the pruning of *)
(* their buckets bound the upgrades of an address.                                             *)
THEOREM UpgradesAreBounded == Spec => []RateIsBounded
<1>1. PartsInv => RateIsBounded
  BY MCServicesAssumption, GateInvSuffices DEF PartsInv, RateIsBounded
<1> QED BY <1>1, PartsInvariance, PTL

(* resolveWebSocketAttachment: whatever calls share the route cache, a route that is used is    *)
(* for its document, from its server, and younger than its time to live and one answer.        *)
THEOREM RoutesStayCurrent == Spec => []RoutesAreCurrent
<1>1. PartsInv => RoutesAreCurrent
  BY DEF PartsInv, RoutesInv, RoutesAreCurrent
<1> QED BY <1>1, PartsInvariance, PTL

(* createBroadcastPresenceMesh: two peers that run and are online for one handshake are ready   *)
(* for each other and stay so, whatever was lost, dropped or stopped before; for every number   *)
(* of peers, every prune interval, and every time out longer than a delivery.                   *)
THEOREM NeighboursStayReady == Spec => []NeighboursAreReady
<1>1. PartsInv => NeighboursAreReady
  BY MCServicesAssumption, MeshInvSuffices DEF PartsInv, NeighboursAreReady
<1> QED BY <1>1, PartsInvariance, PTL

(* createWorkerClient and worker.ts: for every number of calls, whatever fails, closes or is    *)
(* dropped, no call is left without an answer and no acknowledged append without its record.    *)
THEOREM CallsGetAnswers == Spec => []CallsAreAnswered
<1>1. PartsInv => CallsAreAnswered
  BY WaInvSuffices DEF PartsInv, CallsAreAnswered
<1> QED BY <1>1, PartsInvariance, PTL
=============================================================================
