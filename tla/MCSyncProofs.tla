---------------------------- MODULE MCSyncProofs ----------------------------
(***************************************************************************)
(* The theorems of the sync peer's parts, carried over to the composition  *)
(* of MCSync: the properties its run checks, proved from the inductive     *)
(* invariants of SyncSessionProofs, SyncSubscriptionProofs and             *)
(* MaterialStoreProofs; and the theorems of the pending operations and of  *)
(* the playground's hooks.                                                 *)
(***************************************************************************)
EXTENDS MCSync, FiniteSetTheorems, SequenceTheorems, TLAPS

all_vars == <<part, exchange, pushing, waiting, material, live, edits>>

-----------------------------------------------------------------------------
(* The live subscriptions of the playground.  NoOrphanSubscription alone is *)
(* not inductive only for want of types: numbers of subscriptions are       *)
(* positive, so that an unregistered key has none, and there are finitely   *)
(* many, so that a new one has a number of its own.  The lemmas follow the  *)
(* record of the three variables through the code's helpers: what they do   *)
(* to the keys that have a subscription nobody stopped.                     *)

AttemptType == [phase : {"starting", "started"}, stopped : BOOLEAN, current : BOOLEAN]

\* A record of subscriptions over the keys K: each one that nobody stopped runs on a present
\* connection and is registered.
Registered(K, l) ==
    /\ l = [subs |-> l.subs, started |-> l.started, attempts |-> l.attempts]
    /\ l.subs \in [K -> Nat]
    /\ IsFiniteSet(DOMAIN l.attempts) /\ DOMAIN l.attempts \subseteq K \X (Nat \ {0})
    /\ l.attempts \in [DOMAIN l.attempts -> AttemptType]
    /\ \A n \in DOMAIN l.attempts :
          ~l.attempts[n].stopped => l.attempts[n].current /\ l.subs[n[1]] = n[2]

\* The subscriptions that nobody stopped have their keys in S.
Served(l, S) == \A n \in DOMAIN l.attempts : ~l.attempts[n].stopped => n[1] \in S

LiveKeys(mesh, parents) == Playground(mesh, parents)!Key

LiveInv(mesh, parents) ==
    LET l == Playground(mesh, parents)!Live
    IN /\ conn \subseteq Playground(mesh, parents)!Peer
       /\ wanted \subseteq Playground(mesh, parents)!Scope
       /\ Registered(LiveKeys(mesh, parents), l)
       /\ Served(l, conn \X wanted)

(* sub.stop() of what is registered for some keys leaves nothing unstopped for them. *)
LEMMA StopKeeps ==
  ASSUME NEW mesh, NEW parents, NEW l, Registered(LiveKeys(mesh, parents), l), NEW keys,
         NEW m, m = Playground(mesh, parents)!StopLive(l, keys)
  PROVE  /\ Registered(LiveKeys(mesh, parents), m)
         /\ DOMAIN m.attempts \subseteq DOMAIN l.attempts
         /\ \A S : Served(l, S) => Served(m, S \ keys)
<1> DEFINE K == LiveKeys(mesh, parents)
           ids == {<<k, l.subs[k]>> : k \in keys}
           as == l.attempts
           over == {n \in ids \cap DOMAIN as : as[n].phase = "started"}
           bs == [n \in DOMAIN as \ over |-> IF n \in ids THEN [as[n] EXCEPT !.stopped = TRUE]
                                             ELSE as[n]]
           entries == [k \in K |-> IF k \in keys THEN 0 ELSE l.subs[k]]
<1>1. m = [l EXCEPT !.attempts = bs, !.subs = entries]
  BY DEF Playground!StopLive, Playground!Stopped, LiveKeys
<1>2. /\ l = [subs |-> l.subs, started |-> l.started, attempts |-> as]
      /\ l.subs \in [K -> Nat] /\ IsFiniteSet(DOMAIN as)
      /\ DOMAIN as \subseteq K \X (Nat \ {0}) /\ as \in [DOMAIN as -> AttemptType]
      /\ \A n \in DOMAIN as : ~as[n].stopped => as[n].current /\ l.subs[n[1]] = n[2]
  BY DEF Registered
<1> HIDE DEF K
<1>3. m = [subs |-> entries, started |-> l.started, attempts |-> bs]
  BY <1>1, <1>2
<1>4. DOMAIN bs \subseteq DOMAIN as /\ IsFiniteSet(DOMAIN bs)
  BY <1>2, FS_Subset
<1>5. ASSUME NEW n \in DOMAIN bs
      PROVE  /\ bs[n] \in AttemptType /\ n[1] \in K /\ n[2] \in Nat /\ n = <<n[1], n[2]>>
             /\ ~bs[n].stopped => n \notin ids /\ bs[n] = as[n]
  <2>1. as[n] \in AttemptType /\ n \in DOMAIN as
    BY <1>2
  <2>2. n[1] \in K /\ n[2] \in Nat /\ n = <<n[1], n[2]>>
    BY <1>2, <2>1
  <2>3. CASE n \in ids
    <3>1. bs[n] = [as[n] EXCEPT !.stopped = TRUE]
      BY <2>3
    <3> HIDE DEF bs
    <3> QED BY <2>1, <2>2, <3>1 DEF AttemptType
  <2>4. CASE n \notin ids
    BY <2>1, <2>2, <2>4
  <2> QED BY <2>3, <2>4
<1>6. ASSUME NEW n \in DOMAIN bs, ~bs[n].stopped
      PROVE  n[1] \notin keys /\ bs[n].current /\ entries[n[1]] = n[2] /\ ~as[n].stopped
  <2>1. n \notin ids /\ bs[n] = as[n] /\ n = <<n[1], n[2]>> /\ n[1] \in K
    BY <1>5, <1>6
  <2>2. as[n].current /\ l.subs[n[1]] = n[2] /\ ~as[n].stopped
    BY <1>2, <1>4, <1>6, <2>1
  <2>3. n[1] \notin keys
    BY <2>1, <2>2
  <2> QED BY <2>1, <2>2, <2>3
<1>7. entries \in [K -> Nat]
  BY <1>2
<1>8. m.subs = entries /\ m.started = l.started /\ m.attempts = bs
  BY <1>3
<1>9. bs \in [DOMAIN bs -> AttemptType] /\ DOMAIN bs \subseteq K \X (Nat \ {0})
  <2>1. bs = [n \in DOMAIN bs |-> bs[n]]
    OBVIOUS
  <2> HIDE DEF bs
  <2> QED BY <1>2, <1>4, <1>5, <2>1
<1> HIDE DEF bs, entries
<1>10. Registered(K, m)
  BY <1>3, <1>4, <1>6, <1>7, <1>8, <1>9 DEF Registered
<1>11. \A S : Served(l, S) => Served(m, S \ keys)
  BY <1>4, <1>6, <1>8 DEF Served
<1> QED BY <1>4, <1>8, <1>10, <1>11 DEF K

(* A sequence of distinct values leaves every finite set. *)
LEMMA FreshIndex ==
  ASSUME NEW D, IsFiniteSet(D), NEW f, \A i, j \in Nat : f[i] = f[j] => i = j
  PROVE  \E n \in 1..(Cardinality(D) + 1) : f[n] \notin D
<1> DEFINE S == 1..(Cardinality(D) + 1)
           g == [n \in S |-> f[n]]
<1> SUFFICES ASSUME \A n \in S : f[n] \in D PROVE FALSE
  OBVIOUS
<1>1. Cardinality(D) \in Nat
  BY FS_CardinalityType
<1>2. IsFiniteSet(S) /\ Cardinality(S) = Cardinality(D) + 1
  <2>1. 1 \in Int /\ Cardinality(D) + 1 \in Int /\ 1 <= Cardinality(D) + 1
    BY <1>1
  <2>2. IsFiniteSet(S) /\ Cardinality(S) = (Cardinality(D) + 1) - 1 + 1
    BY <1>1, <2>1, FS_Interval
  <2> QED BY <1>1, <2>2
<1>3. g \in [S -> D] /\ Cardinality(D) < Cardinality(S)
  BY <1>1, <1>2
<1>4. PICK i, j \in S : i # j /\ g[i] = g[j]
  <2> HIDE DEF S, g
  <2> QED BY <1>2, <1>3, FS_PigeonHole
<1>5. i \in Nat /\ j \in Nat /\ f[i] = f[j]
  BY <1>1, <1>4
<1> QED BY <1>4, <1>5

(* startLiveAll and startLiveChildren register what they start, beside the others. *)
LEMMA StartKeeps ==
  ASSUME NEW mesh, NEW parents, NEW l, Registered(LiveKeys(mesh, parents), l),
         NEW keys \in SUBSET LiveKeys(mesh, parents), IsFiniteSet(LiveKeys(mesh, parents)),
         NEW m, m = Playground(mesh, parents)!StartAll(l, keys)
  PROVE  /\ Registered(LiveKeys(mesh, parents), m)
         /\ \A S : Served(l, S) => Served(m, S \cup keys)
<1> DEFINE K == LiveKeys(mesh, parents)
           as == l.attempts
           new == {k \in keys : l.subs[k] = 0 /\ k \notin l.started}
           number == [k \in new |-> Playground(mesh, parents)!Unused(as, k)]
           ids == {<<k, number[k]>> : k \in new}
           entries == [k \in K |-> IF k \in new THEN number[k] ELSE l.subs[k]]
           fresh == [phase |-> "starting", stopped |-> FALSE, current |-> TRUE]
           bs == [n \in DOMAIN as \cup ids |-> IF n \notin ids THEN as[n] ELSE fresh]
<1>1. m = [subs |-> entries, started |-> l.started \cup new, attempts |-> bs]
  BY DEF Playground!StartAll, LiveKeys
<1>2. /\ l.subs \in [K -> Nat] /\ IsFiniteSet(DOMAIN as)
      /\ DOMAIN as \subseteq K \X (Nat \ {0}) /\ as \in [DOMAIN as -> AttemptType]
      /\ \A n \in DOMAIN as : ~as[n].stopped => as[n].current /\ l.subs[n[1]] = n[2]
  BY DEF Registered
<1> HIDE DEF K
<1>3. ASSUME NEW k \in new
      PROVE  number[k] \in Nat \ {0} /\ <<k, number[k]>> \notin DOMAIN as
  <2> DEFINE f == [n \in Nat |-> <<k, n>>]
  <2>1. \E n \in 1..(Cardinality(DOMAIN as) + 1) : f[n] \notin DOMAIN as
    <3>1. \A i, j \in Nat : f[i] = f[j] => i = j
      OBVIOUS
    <3> HIDE DEF f
    <3> QED BY <1>2, <3>1, FreshIndex
  <2>2. Cardinality(DOMAIN as) \in Nat
    BY <1>2, FS_CardinalityType
  <2>3. \E n \in 1..(Cardinality(DOMAIN as) + 1) : <<k, n>> \notin DOMAIN as
    BY <2>1, <2>2
  <2>4. number[k] \in 1..(Cardinality(DOMAIN as) + 1) /\ <<k, number[k]>> \notin DOMAIN as
    BY <2>3 DEF Playground!Unused, Playground!Cardinality, Cardinality,
                Playground!IsFiniteSet, IsFiniteSet
  <2> QED BY <2>2, <2>4
<1> HIDE DEF number
<1>4. new \subseteq K /\ IsFiniteSet(new)
  BY FS_Subset DEF K
<1>5. IsFiniteSet(ids)
  <2> DEFINE g == [k \in new |-> <<k, number[k]>>]
  <2>1. g \in [new -> ids] /\ \A i \in ids : \E k \in new : g[k] = i
    OBVIOUS
  <2>2. g \in Surjection(new, ids)
    BY <2>1 DEF Surjection
  <2> QED BY <1>4, <2>2, FS_Surjection
<1>6. IsFiniteSet(DOMAIN bs) /\ DOMAIN bs = DOMAIN as \cup ids
  BY <1>2, <1>5, FS_Union
<1>7. ids \subseteq K \X (Nat \ {0}) /\ ids \cap DOMAIN as = {}
  BY <1>3, <1>4
<1>8. entries \in [K -> Nat]
  BY <1>2, <1>3
<1>9. ASSUME NEW n \in ids
      PROVE  bs[n] = fresh /\ n[1] \in new /\ entries[n[1]] = n[2]
  BY <1>4, <1>9
<1>10. ASSUME NEW n \in DOMAIN as
       PROVE  /\ bs[n] = as[n] /\ bs[n] \in AttemptType
              /\ ~as[n].stopped => as[n].current /\ entries[n[1]] = n[2]
  <2>1. bs[n] = as[n]
    BY <1>7
  <2>2. n[1] \in K /\ n[2] \in Nat \ {0} /\ as[n] \in AttemptType
    BY <1>2
  <2>3. ~as[n].stopped => n[1] \notin new
    BY <1>2, <2>2
  <2> QED BY <1>2, <2>1, <2>2, <2>3
<1>11. fresh \in AttemptType /\ ~fresh.stopped /\ fresh.current
  BY DEF AttemptType
<1>12. bs \in [DOMAIN bs -> AttemptType]
  <2>1. bs = [n \in DOMAIN bs |-> bs[n]]
    OBVIOUS
  <2>2. \A n \in DOMAIN bs : bs[n] \in AttemptType
    <3>1. \A n \in ids : bs[n] \in AttemptType
      BY <1>9, <1>11
    <3>2. \A n \in DOMAIN as : bs[n] \in AttemptType
      BY <1>10
    <3> HIDE DEF bs, ids, fresh
    <3> QED BY <1>6, <3>1, <3>2
  <2> HIDE DEF bs, ids, fresh
  <2> QED BY <2>1, <2>2
<1>13. m.subs = entries /\ m.started = l.started \cup new /\ m.attempts = bs
  BY <1>1
<1> HIDE DEF bs, ids, fresh, entries, new
<1>14. Registered(K, m)
  BY <1>1, <1>2, <1>6, <1>7, <1>8, <1>9, <1>10, <1>11, <1>12, <1>13 DEF Registered
<1>15. \A S : Served(l, S) => Served(m, S \cup new)
  BY <1>6, <1>9, <1>10, <1>13 DEF Served
<1>16. \A S : Served(m, S \cup new) => Served(m, S \cup keys)
  BY DEF Served, new
<1> QED BY <1>14, <1>15, <1>16 DEF K

(* Losing the connections of some peers leaves nothing unstopped on them. *)
LEMMA LostKeeps ==
  ASSUME NEW mesh, NEW parents, NEW l, Registered(LiveKeys(mesh, parents), l), NEW peers,
         NEW m, m = Playground(mesh, parents)!Lost(l, peers)
  PROVE  /\ Registered(LiveKeys(mesh, parents), m)
         /\ \A S : Served(l, S) =>
               Served(m, S \ (peers \X Playground(mesh, parents)!Scope))
<1> DEFINE K == LiveKeys(mesh, parents)
           keys == peers \X Playground(mesh, parents)!Scope
           s == Playground(mesh, parents)!StopLive(l, keys)
           bs == [n \in DOMAIN s.attempts |-> IF n[1][1] \in peers
                                              THEN [s.attempts[n] EXCEPT !.current = FALSE]
                                              ELSE s.attempts[n]]
<1>1. Registered(K, s) /\ \A S : Served(l, S) => Served(s, S \ keys)
  BY StopKeeps
<1>2. m = [s EXCEPT !.attempts = bs]
  BY DEF Playground!Lost
<1>3. K = Playground(mesh, parents)!Peer \X Playground(mesh, parents)!Scope
  BY DEF LiveKeys, Playground!Key
<1>4. Served(s, K \ keys)
  <2>1. Served(l, K)
    BY DEF Registered, Served
  <2> QED BY <1>1, <2>1
<1> HIDE DEF s, keys, K
<1>5. /\ s = [subs |-> s.subs, started |-> s.started, attempts |-> s.attempts]
      /\ IsFiniteSet(DOMAIN s.attempts) /\ DOMAIN s.attempts \subseteq K \X (Nat \ {0})
      /\ s.attempts \in [DOMAIN s.attempts -> AttemptType] /\ s.subs \in [K -> Nat]
      /\ \A n \in DOMAIN s.attempts :
            ~s.attempts[n].stopped => s.attempts[n].current /\ s.subs[n[1]] = n[2]
  BY <1>1 DEF Registered
<1>6. m = [subs |-> s.subs, started |-> s.started, attempts |-> bs]
  BY <1>2, <1>5
<1>7. m.subs = s.subs /\ m.started = s.started /\ m.attempts = bs /\ DOMAIN bs = DOMAIN s.attempts
  BY <1>6
<1>8. ASSUME NEW n \in DOMAIN s.attempts
      PROVE  /\ bs[n] \in AttemptType /\ bs[n].stopped = s.attempts[n].stopped
             /\ ~bs[n].stopped => bs[n] = s.attempts[n]
  <2>1. s.attempts[n] \in AttemptType
    BY <1>5
  <2>2. ~s.attempts[n].stopped => n[1][1] \notin peers
    BY <1>3, <1>4, <1>5 DEF Served, keys
  <2>3. CASE n[1][1] \in peers
    <3>1. bs[n] = [s.attempts[n] EXCEPT !.current = FALSE]
      BY <2>3
    <3> HIDE DEF bs
    <3> QED BY <2>1, <2>2, <2>3, <3>1 DEF AttemptType
  <2>4. CASE n[1][1] \notin peers
    BY <2>1, <2>4
  <2> QED BY <2>3, <2>4
<1>9. bs \in [DOMAIN bs -> AttemptType]
  <2>1. bs = [n \in DOMAIN bs |-> bs[n]]
    OBVIOUS
  <2> HIDE DEF bs
  <2> QED BY <1>7, <1>8, <2>1
<1> HIDE DEF bs
<1>10. Registered(K, m)
  BY <1>5, <1>6, <1>7, <1>8, <1>9 DEF Registered
<1>11. \A S : Served(s, S) => Served(m, S)
  BY <1>7, <1>8 DEF Served
<1> QED BY <1>1, <1>10, <1>11 DEF K, keys

(* The hook sets out without connections and subscriptions. *)
LEMMA LiveInit ==
  ASSUME NEW mesh, NEW parents, Playground(mesh, parents)!Init
  PROVE  LiveInv(mesh, parents)
<1> DEFINE l == Playground(mesh, parents)!Live
<1>1. /\ conn = {} /\ wanted = {} /\ DOMAIN attempts = {}
      /\ attempts \in [DOMAIN attempts -> AttemptType]
      /\ liveSubs \in [LiveKeys(mesh, parents) -> Nat]
  BY DEF Playground!Init, LiveKeys
<1>2. l = [subs |-> liveSubs, started |-> started, attempts |-> attempts]
  BY DEF Playground!Live
<1>3. l = [subs |-> l.subs, started |-> l.started, attempts |-> l.attempts]
      /\ l.subs = liveSubs /\ l.attempts = attempts
  BY <1>2
<1> HIDE DEF l
<1>4. Registered(LiveKeys(mesh, parents), l) /\ Served(l, conn \X wanted)
  BY <1>1, <1>3, FS_EmptySet DEF Registered, Served
<1> QED BY <1>1, <1>4 DEF LiveInv, l

(* The keys of the hook are finitely many. *)
LEMMA KeysFinite ==
  ASSUME NEW mesh, NEW parents, IsFiniteSet(mesh), IsFiniteSet(parents)
  PROVE  IsFiniteSet(LiveKeys(mesh, parents))
<1>1. IsFiniteSet(Playground(mesh, parents)!Peer)
  BY FS_Union, FS_Singleton DEF Playground!Peer
<1>2. IsFiniteSet(Playground(mesh, parents)!Scope)
  BY FS_Union, FS_Singleton DEF Playground!Scope
<1> QED BY <1>1, <1>2, FS_Product DEF LiveKeys, Playground!Key

(* What the handlers do to the subscriptions, from the helpers' lemmas. *)
LEMMA LiveSet ==
  ASSUME NEW mesh, NEW parents, NEW m, Playground(mesh, parents)!SetLive(m),
         Registered(LiveKeys(mesh, parents), m), Served(m, conn' \X wanted'),
         conn' \subseteq Playground(mesh, parents)!Peer,
         wanted' \subseteq Playground(mesh, parents)!Scope
  PROVE  LiveInv(mesh, parents)'
<1>1. m = [subs |-> m.subs, started |-> m.started, attempts |-> m.attempts]
  BY DEF Registered
<1>2. liveSubs' = m.subs /\ started' = m.started /\ attempts' = m.attempts
  BY DEF Playground!SetLive
<1>3. m = Playground(mesh, parents)!Live'
  BY <1>1, <1>2 DEF Playground!Live
<1> QED BY <1>3 DEF LiveInv, Registered, Served, LiveKeys, Playground!Key, Playground!Peer,
             Playground!Scope

(* A connection is gone with its subscriptions; a peer that is gone already changes nothing. *)
LEMMA DisconnectKeeps ==
  ASSUME NEW mesh, NEW parents, LiveInv(mesh, parents), NEW p,
         conn' = conn \ {p}, wanted' = wanted,
         Playground(mesh, parents)!SetLive(
            IF p \in conn THEN Playground(mesh, parents)!Lost(Playground(mesh, parents)!Live, {p})
            ELSE Playground(mesh, parents)!Live)
  PROVE  LiveInv(mesh, parents)'
<1> DEFINE l == Playground(mesh, parents)!Live
           m == Playground(mesh, parents)!Lost(l, {p})
           S == Playground(mesh, parents)!Scope
<1>1. /\ conn \subseteq Playground(mesh, parents)!Peer /\ wanted \subseteq S
      /\ Registered(LiveKeys(mesh, parents), l) /\ Served(l, conn \X wanted)
  BY DEF LiveInv
<1> HIDE DEF l, S
<1>2. CASE p \in conn
  <2>1. Registered(LiveKeys(mesh, parents), m) /\ Served(m, (conn \X wanted) \ ({p} \X S))
    BY <1>1, LostKeeps DEF S
  <2>2. Playground(mesh, parents)!SetLive(m)
    BY <1>2 DEF l
  <2> HIDE DEF m
  <2>3. Served(m, conn' \X wanted')
    BY <1>1, <2>1 DEF Served
  <2> QED BY <1>1, <2>1, <2>2, <2>3, LiveSet DEF S
<1>3. CASE p \notin conn
  <2>1. Playground(mesh, parents)!SetLive(l) /\ conn' = conn
    BY <1>3 DEF l
  <2> QED BY <1>1, <2>1, LiveSet DEF S
<1> QED BY <1>2, <1>3

(* maybeStartLiveForPeer starts what is wanted on a connection. *)
LEMMA StartForPeerKeeps ==
  ASSUME NEW mesh, NEW parents, IsFiniteSet(mesh), IsFiniteSet(parents),
         LiveInv(mesh, parents), NEW p \in Playground(mesh, parents)!Peer,
         p \in conn', conn \subseteq conn', conn' \subseteq Playground(mesh, parents)!Peer,
         wanted' = wanted, Playground(mesh, parents)!StartForPeer(p)
  PROVE  LiveInv(mesh, parents)'
<1> DEFINE l == Playground(mesh, parents)!Live
           m(ks) == Playground(mesh, parents)!StartAll(l, ks)
<1>1. PICK ks : ks \subseteq {<<p, s>> : s \in wanted} /\ Playground(mesh, parents)!SetLive(m(ks))
  BY DEF Playground!StartForPeer
<1>2. /\ conn \subseteq Playground(mesh, parents)!Peer
      /\ wanted \subseteq Playground(mesh, parents)!Scope
      /\ Registered(LiveKeys(mesh, parents), l) /\ Served(l, conn \X wanted)
  BY DEF LiveInv
<1> HIDE DEF l
<1>3. ks \subseteq LiveKeys(mesh, parents) /\ ks \subseteq conn' \X wanted
  BY <1>1, <1>2 DEF LiveKeys, Playground!Key
<1>4. /\ Registered(LiveKeys(mesh, parents), m(ks))
      /\ Served(m(ks), (conn \X wanted) \cup ks)
  BY <1>2, <1>3, KeysFinite, StartKeeps
<1> HIDE DEF m
<1>5. Served(m(ks), conn' \X wanted')
  BY <1>3, <1>4 DEF Served
<1> QED BY <1>1, <1>2, <1>4, <1>5, LiveSet

(* Every step of the hook keeps it that no subscription is orphaned. *)
LEMMA LiveNext ==
  ASSUME NEW mesh, NEW parents, IsFiniteSet(mesh), IsFiniteSet(parents),
         LiveInv(mesh, parents), [Playground(mesh, parents)!Next]_live
  PROVE  LiveInv(mesh, parents)'
<1> DEFINE l == Playground(mesh, parents)!Live
           K == LiveKeys(mesh, parents)
           Peer == Playground(mesh, parents)!Peer
           Scope == Playground(mesh, parents)!Scope
<1>1. /\ conn \subseteq Peer /\ wanted \subseteq Scope
      /\ Registered(K, l) /\ Served(l, conn \X wanted)
  BY DEF LiveInv
<1>2. /\ l = [subs |-> liveSubs, started |-> started, attempts |-> attempts]
      /\ l.subs = liveSubs /\ l.started = started /\ l.attempts = attempts
  BY DEF Playground!Live
<1>3. K = Peer \X Scope /\ Peer = mesh \cup {server}
  BY DEF LiveKeys, Playground!Key, Playground!Peer
<1>4. ASSUME UNCHANGED <<conn, wanted, liveSubs, attempts>> PROVE LiveInv(mesh, parents)'
  <2> DEFINE m == [subs |-> liveSubs', started |-> started', attempts |-> attempts']
  <2>1. m.subs = l.subs /\ m.attempts = l.attempts /\ m.started = started'
    BY <1>2, <1>4
  <2>2. Registered(K, m)
    BY <1>1, <2>1 DEF Registered
  <2>3. Served(m, conn' \X wanted')
    BY <1>1, <1>4, <2>1 DEF Served
  <2>4. Playground(mesh, parents)!SetLive(m)
    BY DEF Playground!SetLive
  <2> HIDE DEF m, l
  <2> QED BY <1>1, <1>4, <2>2, <2>3, <2>4, LiveSet
<1>5. CASE UNCHANGED live
  BY <1>4, <1>5 DEF live
<1>6. ASSUME NEW b, Playground(mesh, parents)!SetUp(b) \/ Playground(mesh, parents)!Resolved(b)
      PROVE  LiveInv(mesh, parents)'
  BY <1>4, <1>6 DEF Playground!SetUp, Playground!Resolved, Playground!live
<1>7. CASE Playground(mesh, parents)!TearDown
  <2> DEFINE s == Playground(mesh, parents)!Lost(l, Peer)
             m == [s EXCEPT !.started = {}]
  <2>1. conn' = {} /\ wanted' = wanted /\ Playground(mesh, parents)!SetLive(m)
    BY <1>7 DEF Playground!TearDown
  <2> HIDE DEF l, Peer, Scope
  <2>2. Registered(K, s) /\ Served(s, (conn \X wanted) \ (Peer \X Scope))
    BY <1>1, LostKeeps DEF Scope
  <2> HIDE DEF s
  <2>3. m = [subs |-> s.subs, started |-> {}, attempts |-> s.attempts]
    <3>1. PICK x, y, z : s = [subs |-> x, started |-> y, attempts |-> z]
      BY <2>2 DEF Registered
    <3> QED BY <3>1
  <2>4. Registered(K, m)
    BY <2>2, <2>3 DEF Registered
  <2>5. Served(m, conn' \X wanted')
    BY <1>1, <2>1, <2>2, <2>3 DEF Served
  <2> HIDE DEF m
  <2> QED BY <1>1, <2>1, <2>4, <2>5, LiveSet DEF Peer, Scope
<1>8. CASE Playground(mesh, parents)!SocketOpens
  BY <1>1, <1>3, <1>8, StartForPeerKeeps DEF Playground!SocketOpens
<1>9. CASE Playground(mesh, parents)!SocketCloses
  BY <1>9, DisconnectKeeps DEF Playground!SocketCloses
<1>10. CASE Playground(mesh, parents)!PushFails
  BY <1>10, DisconnectKeeps DEF Playground!PushFails, Playground!Disconnect
<1>11. ASSUME NEW p \in mesh,
              \/ Playground(mesh, parents)!PeerTransport(p)
              \/ Playground(mesh, parents)!PeerReady(p)
              \/ Playground(mesh, parents)!PeerDisconnected(p)
       PROVE  LiveInv(mesh, parents)'
  <2>1. CASE Playground(mesh, parents)!PeerTransport(p)
    BY <1>1, <1>3, <2>1, StartForPeerKeeps DEF Playground!PeerTransport
  <2>2. CASE Playground(mesh, parents)!PeerReady(p)
    BY <1>1, <1>3, <2>2, StartForPeerKeeps DEF Playground!PeerReady
  <2>3. CASE Playground(mesh, parents)!PeerDisconnected(p)
    BY <2>3, DisconnectKeeps DEF Playground!PeerDisconnected, Playground!Disconnect
  <2> QED BY <1>11, <2>1, <2>2, <2>3
<1>12. ASSUME NEW s \in Scope, Playground(mesh, parents)!Toggle(s)
       PROVE  LiveInv(mesh, parents)'
  <2> DEFINE kind == IF s = "all" THEN {"all"} ELSE parents
             on == conn \X (kind \cap wanted')
             off == Peer \X (kind \ wanted')
             a == Playground(mesh, parents)!StartAll(l, on)
             m == Playground(mesh, parents)!StopLive(a, off)
  <2>1. /\ conn' = conn /\ Playground(mesh, parents)!SetLive(m)
        /\ wanted' = IF s \in wanted THEN wanted \ {s} ELSE wanted \cup {s}
    BY <1>12 DEF Playground!Toggle
  <2>2. s \in kind /\ wanted' \subseteq Scope
    BY <1>1, <1>12, <2>1 DEF Playground!Scope
  <2>3. on \subseteq K /\ on \subseteq conn \X wanted'
    BY <1>1, <1>3, <2>2
  <2> HIDE DEF l, kind, on, off, K, Peer, Scope
  <2>4. Registered(K, a) /\ Served(a, (conn \X wanted) \cup on)
    BY <1>1, <2>3, KeysFinite, StartKeeps DEF K
  <2> HIDE DEF a
  <2>5. Registered(K, m) /\ Served(m, ((conn \X wanted) \cup on) \ off)
    BY <2>4, StopKeeps DEF K
  <2> HIDE DEF m
  <2>6. Served(m, conn' \X wanted')
    <3>1. ((conn \X wanted) \cup on) \ off \subseteq conn \X wanted'
      BY <1>1, <2>1, <2>2, <2>3 DEF off
    <3> QED BY <2>1, <2>5, <3>1 DEF Served
  <2> QED BY <1>1, <2>1, <2>2, <2>5, <2>6, LiveSet DEF K, Peer, Scope
<1>13. ASSUME NEW n \in DOMAIN attempts, NEW ok \in BOOLEAN,
              Playground(mesh, parents)!ReadySettles(n, ok)
       PROVE  LiveInv(mesh, parents)'
  <2> DEFINE a == [attempts EXCEPT ![n].phase = "started"]
             b == [subs |-> liveSubs, started |-> started \ {n[1]}, attempts |-> a]
             c == IF ok THEN b ELSE Playground(mesh, parents)!StopLive(b, {n[1]})
             gone == {i \in DOMAIN c.attempts : c.attempts[i].phase = "started" /\ c.attempts[i].stopped}
             rest == [i \in DOMAIN c.attempts \ gone |-> c.attempts[i]]
             m == [c EXCEPT !.attempts = rest]
  <2>1. [l EXCEPT !.started = @ \ {n[1]}, !.attempts = a] = b
    <3>1. PICK r : r = [l EXCEPT !.started = @ \ {n[1]}, !.attempts = a]
      OBVIOUS
    <3> HIDE DEF a, l
    <3>2. r = [subs |-> liveSubs, started |-> started \ {n[1]}, attempts |-> a]
      BY <1>2, <3>1
    <3> QED BY <3>1, <3>2
  <2>2. UNCHANGED <<conn, wanted>> /\ Playground(mesh, parents)!SetLive(m)
    <3> DEFINE b0 == [l EXCEPT !.started = @ \ {n[1]}, !.attempts = a]
               c0 == IF ok THEN b0 ELSE Playground(mesh, parents)!StopLive(b0, {n[1]})
               without(f) == Playground(mesh, parents)!Without(f,
                                {i \in DOMAIN f : f[i].phase = "started" /\ f[i].stopped})
    <3>1. UNCHANGED <<conn, wanted>>
          /\ Playground(mesh, parents)!SetLive([c0 EXCEPT !.attempts = without(@)])
      BY <1>13 DEF Playground!ReadySettles
    <3>2. c0 = c
      <4> HIDE DEF b, l
      <4> QED BY <2>1
    <3> HIDE DEF c0, c
    <3>3. without(c.attempts) = rest
      BY DEF Playground!Without
    <3>4. [c EXCEPT !.attempts = without(@)] = m
      <4> HIDE DEF rest, without
      <4> QED BY <3>3
    <3> QED BY <3>1, <3>2, <3>4
  <2>3. /\ attempts \in [DOMAIN attempts -> AttemptType] /\ liveSubs \in [K -> Nat]
        /\ IsFiniteSet(DOMAIN attempts) /\ DOMAIN attempts \subseteq K \X (Nat \ {0})
        /\ \A i \in DOMAIN attempts :
              ~attempts[i].stopped => attempts[i].current /\ liveSubs[i[1]] = i[2]
    BY <1>1, <1>2 DEF Registered
  <2> HIDE DEF l, K
  <2>4. DOMAIN a = DOMAIN attempts
    OBVIOUS
  <2>5. ASSUME NEW i \in DOMAIN attempts
        PROVE  a[i] \in AttemptType /\ a[i].stopped = attempts[i].stopped
               /\ a[i].current = attempts[i].current
    <3>1. attempts[i] \in AttemptType
      BY <2>3
    <3>2. a[i] = IF i = n THEN [attempts[n] EXCEPT !.phase = "started"] ELSE attempts[i]
      OBVIOUS
    <3> HIDE DEF a
    <3> QED BY <3>1, <3>2 DEF AttemptType
  <2>6. a \in [DOMAIN a -> AttemptType]
    <3>1. a = [i \in DOMAIN a |-> a[i]]
      OBVIOUS
    <3> HIDE DEF a
    <3> QED BY <2>4, <2>5, <3>1
  <2>7. b.subs = liveSubs /\ b.started = started \ {n[1]} /\ b.attempts = a
    OBVIOUS
  <2>8. b = [subs |-> b.subs, started |-> b.started, attempts |-> b.attempts]
    OBVIOUS
  <2> HIDE DEF a, b
  <2>9. Registered(K, b)
    BY <2>3, <2>4, <2>5, <2>6, <2>7, <2>8 DEF Registered
  <2>10. Served(b, conn \X wanted)
    BY <1>1, <1>2, <2>4, <2>5, <2>7 DEF Served
  <2>11. Registered(K, c) /\ Served(c, conn \X wanted)
    <3>1. CASE ok
      BY <2>9, <2>10, <3>1
    <3>2. CASE ~ok
      <4> DEFINE d == Playground(mesh, parents)!StopLive(b, {n[1]})
      <4>1. Registered(K, d) /\ Served(d, (conn \X wanted) \ {n[1]})
        BY <2>9, <2>10, StopKeeps DEF K
      <4>2. c = d
        BY <3>2
      <4> HIDE DEF c, d
      <4> QED BY <4>1, <4>2 DEF Served
    <3> QED BY <3>1, <3>2
  <2> HIDE DEF c
  <2>12. /\ c = [subs |-> c.subs, started |-> c.started, attempts |-> c.attempts]
         /\ c.attempts \in [DOMAIN c.attempts -> AttemptType]
         /\ IsFiniteSet(DOMAIN c.attempts)
    BY <2>11 DEF Registered
  <2>13. /\ m = [subs |-> c.subs, started |-> c.started, attempts |-> rest]
         /\ m = [subs |-> m.subs, started |-> m.started, attempts |-> m.attempts]
         /\ m.subs = c.subs /\ m.attempts = rest
    BY <2>12
  <2>14. /\ DOMAIN rest \subseteq DOMAIN c.attempts /\ rest \in [DOMAIN rest -> AttemptType]
         /\ IsFiniteSet(DOMAIN rest)
         /\ \A i \in DOMAIN rest : rest[i] = c.attempts[i]
    <3>1. DOMAIN rest \subseteq DOMAIN c.attempts /\ \A i \in DOMAIN rest : rest[i] = c.attempts[i]
      OBVIOUS
    <3>2. rest = [i \in DOMAIN rest |-> rest[i]]
      OBVIOUS
    <3> HIDE DEF rest
    <3> QED BY <2>12, <3>1, <3>2, FS_Subset
  <2> HIDE DEF m, rest
  <2>15. Registered(K, m)
    BY <2>11, <2>13, <2>14 DEF Registered
  <2>16. Served(m, conn' \X wanted')
    BY <2>2, <2>11, <2>13, <2>14 DEF Served
  <2> QED BY <1>1, <2>2, <2>15, <2>16, LiveSet DEF K
<1>14. ASSUME NEW n \in DOMAIN attempts, Playground(mesh, parents)!SubscriptionFails(n)
       PROVE  LiveInv(mesh, parents)'
  <2> DEFINE m == Playground(mesh, parents)!StopLive(l, {n[1]})
  <2>1. UNCHANGED <<conn, wanted>> /\ Playground(mesh, parents)!SetLive(m)
    BY <1>14 DEF Playground!SubscriptionFails
  <2> HIDE DEF l
  <2>2. Registered(K, m) /\ Served(m, (conn \X wanted) \ {n[1]})
    BY <1>1, StopKeeps
  <2> HIDE DEF m
  <2>3. Served(m, conn' \X wanted')
    BY <2>1, <2>2 DEF Served
  <2> QED BY <1>1, <2>1, <2>2, <2>3, LiveSet
<1>15. ASSUME NEW T, Playground(mesh, parents)!StartSync(T)
       PROVE  LiveInv(mesh, parents)'
  BY <1>4, <1>15 DEF Playground!StartSync, Playground!live
<1>16. ASSUME NEW p, Playground(mesh, parents)!StartAutoSync(p)
       PROVE  LiveInv(mesh, parents)'
  BY <1>4, <1>16 DEF Playground!StartAutoSync, Playground!live
<1>17. ASSUME NEW o, Playground(mesh, parents)!SyncEnds(o)
       PROVE  LiveInv(mesh, parents)'
  <2>1. wanted' = wanted
    BY <1>17 DEF Playground!SyncEnds
  <2>2. PICK p : IF o = "error" /\ p \in conn THEN Playground(mesh, parents)!Disconnect(p)
                 ELSE UNCHANGED <<conn, ready, socket, Playground(mesh, parents)!live>>
    BY <1>17 DEF Playground!SyncEnds
  <2>3. CASE o = "error" /\ p \in conn
    BY <2>1, <2>2, <2>3, DisconnectKeeps DEF Playground!Disconnect
  <2>4. CASE ~(o = "error" /\ p \in conn)
    BY <1>4, <2>1, <2>2, <2>4 DEF Playground!live
  <2> QED BY <2>3, <2>4
<1> HIDE DEF l, K, Peer, Scope
<1>18. CASE Playground(mesh, parents)!Next
  BY <1>6, <1>7, <1>8, <1>9, <1>10, <1>11, <1>12, <1>13, <1>14, <1>15, <1>16, <1>17, <1>18
     DEF Playground!Next, Scope
<1> QED BY <1>5, <1>18

-----------------------------------------------------------------------------
(* The queue of local edits.  HintsAreNotLost alone is not inductive: that  *)
(* a loop which was told of operations still takes them rests on the way to *)
(* the server being open as long as they count as told, and on a running    *)
(* flag never outliving the loops; a new loop has a number of its own       *)
(* because the running ones are finitely many.                              *)

Fates == {"new", "hinted", "waked", "taken", "pushed", "failed"}

EditsTypeOK ==
    /\ up \in BOOLEAN /\ online \in BOOLEAN /\ remote \in BOOLEAN /\ wantsLive \in BOOLEAN
    /\ hints \in [scheduled : BOOLEAN, running : BOOLEAN, full : BOOLEAN, ops : SUBSET Edit]
    /\ IsFiniteSet(DOMAIN loops)
    /\ loops = [i \in DOMAIN loops |-> loops[i]]
    /\ \A i \in DOMAIN loops : loops[i].ops \subseteq Edit
    /\ fate \in [Edit -> Fates]

EditsInv ==
    /\ EditsTypeOK
    /\ Edits!HintsAreNotLost
    /\ \A o \in Edit : fate[o] = "waked" => online /\ up /\ remote
    /\ hints.running => DOMAIN loops # {}

LEMMA EditsInit == Edits!Init => EditsInv
<1> SUFFICES ASSUME Edits!Init PROVE EditsInv
  OBVIOUS
<1>1. loops = [i \in {} |-> 0] /\ DOMAIN loops = {}
  BY DEF Edits!Init
<1>2. IsFiniteSet(DOMAIN loops)
  BY <1>1, FS_EmptySet
<1> QED BY <1>1, <1>2 DEF Edits!Init, EditsInv, EditsTypeOK, Edits!HintsAreNotLost, Fates

(* What is awaited next, by a loop that reads the queue q: it ends and the  *)
(* queue is as before, or it was told and the way is open; then it takes    *)
(* every operation.                                                         *)
LEMMA IterateCases ==
  ASSUME NEW q \in [scheduled : BOOLEAN, running : BOOLEAN, full : BOOLEAN, ops : SUBSET Edit],
         NEW open \in BOOLEAN, NEW r, r = Edits!Iterate(q, open)
  PROVE  /\ r.q \in [scheduled : BOOLEAN, running : BOOLEAN, full : BOOLEAN, ops : SUBSET Edit]
         /\ r.ops \subseteq Edit
         /\ r.await = "end" => ~r.q.running /\ r.ops = {}
         /\ \/ r.q.ops = q.ops /\ r.ops = {} /\ r.await = "end"
               /\ ~(q.scheduled /\ online /\ up /\ open)
            \/ r.q.ops = {} /\ r.ops = q.ops /\ q.scheduled
<1> DEFINE Q == [scheduled : BOOLEAN, running : BOOLEAN, full : BOOLEAN, ops : SUBSET Edit]
           R == [q EXCEPT !.scheduled = FALSE]
           T == [R EXCEPT !.ops = {}, !.full = FALSE]
           E(x) == [x EXCEPT !.running = FALSE]
<1>1. R \in Q /\ R.ops = q.ops /\ E(R) \in Q /\ E(R).ops = q.ops /\ ~E(R).running
  OBVIOUS
<1>2. T \in Q /\ T.ops = {} /\ E(T) \in Q /\ E(T).ops = {} /\ ~E(T).running
  OBVIOUS
<1>3. CASE ~q.scheduled \/ ~(online /\ up /\ open)
  <2>1. r = [q |-> E(R), await |-> "end", ops |-> {}]
    BY <1>3 DEF Edits!Iterate, Edits!Ends
  <2> HIDE DEF R, T, E
  <2>2. r.q = E(R) /\ r.await = "end" /\ r.ops = {}
    BY <2>1
  <2>3. ~(q.scheduled /\ online /\ up /\ open)
    BY <1>3
  <2> QED BY <1>1, <2>2, <2>3
<1>4. CASE ~(~q.scheduled \/ ~(online /\ up /\ open))
  <2>1. \/ r = [q |-> T, await |-> "push", ops |-> q.ops]
        \/ q.ops = {} /\ r = [q |-> T, await |-> "sync", ops |-> {}]
        \/ q.ops = {} /\ r = [q |-> E(T), await |-> "end", ops |-> {}]
    BY <1>4 DEF Edits!Iterate, Edits!Ends
  <2> HIDE DEF R, T, E
  <2>2. r.ops = q.ops /\ r.q \in {T, E(T)} /\ (r.await = "end" => r.q = E(T) /\ r.ops = {})
    BY <2>1
  <2>3. q.scheduled
    BY <1>4
  <2>4. q.ops \subseteq Edit
    OBVIOUS
  <2> QED BY <1>2, <2>2, <2>3, <2>4
<1> QED BY <1>3, <1>4

(* How a loop that goes on keeps the invariant: f says what became of the   *)
(* operations before it reads the queue q.  Operations that are hinted are  *)
(* in q, a told one has an open way, and one taken has another loop.        *)
LEMMA GoesKeeps ==
  ASSUME EditsInv, NEW i,
         NEW q \in [scheduled : BOOLEAN, running : BOOLEAN, full : BOOLEAN, ops : SUBSET Edit],
         NEW f \in [Edit -> Fates],
         remote' \in BOOLEAN, up' = up, online' = online, wantsLive' = wantsLive,
         \A o \in Edit : f[o] \in {"hinted", "waked"} => o \in q.ops,
         \A o \in Edit : f[o] = "waked" => q.scheduled /\ online /\ up /\ remote',
         \A o \in Edit : f[o] = "taken" =>
            \E j \in DOMAIN loops : j # i /\ o \in loops[j].ops,
         Edits!Goes(i, Edits!Iterate(q, remote'), f)
  PROVE  EditsInv'
<1> DEFINE r == Edits!Iterate(q, remote')
<1>1. /\ r.q \in [scheduled : BOOLEAN, running : BOOLEAN, full : BOOLEAN, ops : SUBSET Edit]
      /\ r.ops \subseteq Edit
      /\ r.await = "end" => ~r.q.running /\ r.ops = {}
      /\ \/ r.q.ops = q.ops /\ r.ops = {} /\ r.await = "end"
            /\ ~(q.scheduled /\ online /\ up /\ remote')
         \/ r.q.ops = {} /\ r.ops = q.ops /\ q.scheduled
  BY IterateCases
<1> HIDE DEF r
<1> DEFINE D == IF r.await = "end" THEN DOMAIN loops \ {i} ELSE DOMAIN loops \cup {i}
<1>2. /\ hints' = r.q
      /\ loops' = [n \in D |-> IF n = i THEN [await |-> r.await, ops |-> r.ops] ELSE loops[n]]
      /\ fate' = [o \in Edit |-> IF o \in r.ops THEN "taken" ELSE f[o]]
  BY DEF Edits!Goes, r
<1>3. IsFiniteSet(D) /\ DOMAIN loops' = D
  BY <1>2, FS_AddElement, FS_RemoveElement DEF EditsInv, EditsTypeOK
<1>4. \A n \in D : loops'[n] = IF n = i THEN [await |-> r.await, ops |-> r.ops] ELSE loops[n]
  BY <1>2
<1>5. \A n \in D : n # i => n \in DOMAIN loops
  OBVIOUS
<1>6. EditsTypeOK'
  <2>1. \A n \in D : loops'[n].ops \subseteq Edit
    BY <1>1, <1>4, <1>5 DEF EditsInv, EditsTypeOK
  <2>2. fate' \in [Edit -> Fates]
    BY <1>2 DEF Fates
  <2>3. loops' = [n \in DOMAIN loops' |-> loops'[n]]
    BY <1>2
  <2> QED BY <1>1, <1>2, <1>3, <2>1, <2>2, <2>3 DEF EditsInv, EditsTypeOK
<1>7. ASSUME NEW o \in Edit
      PROVE  /\ fate'[o] \in {"hinted", "waked"} => o \in hints'.ops
             /\ fate'[o] # "waked"
  <2>1. fate'[o] = IF o \in r.ops THEN "taken" ELSE f[o]
    BY <1>2
  <2> QED BY <1>1, <1>2, <2>1
<1>8. ASSUME NEW o \in Edit, fate'[o] = "taken"
      PROVE  \E n \in DOMAIN loops' : o \in loops'[n].ops
  <2>1. CASE o \in r.ops
    <3>1. r.await # "end"
      BY <1>1, <2>1
    <3>2. i \in D /\ loops'[i].ops = r.ops
      BY <1>4, <3>1
    <3> QED BY <1>3, <2>1, <3>2
  <2>2. CASE o \notin r.ops
    <3>1. f[o] = "taken"
      BY <1>2, <1>8, <2>2
    <3>2. PICK j \in DOMAIN loops : j # i /\ o \in loops[j].ops
      BY <3>1
    <3>3. j \in D /\ loops'[j] = loops[j]
      BY <1>4, <3>2
    <3> QED BY <1>3, <3>2, <3>3
  <2> QED BY <2>1, <2>2
<1>9. hints'.running => DOMAIN loops' # {}
  BY <1>1, <1>2, <1>3
<1> QED BY <1>6, <1>7, <1>8, <1>9 DEF EditsInv, Edits!HintsAreNotLost

(* The way to the server closes: told operations are mere hints again. *)
LEMMA UnwakedKeeps ==
  ASSUME NEW f \in [Edit -> Fates]
  PROVE  /\ Edits!Unwaked(f) \in [Edit -> Fates]
         /\ \A o \in Edit : /\ Edits!Unwaked(f)[o] # "waked"
                            /\ Edits!Unwaked(f)[o] = "hinted" => f[o] \in {"hinted", "waked"}
                            /\ Edits!Unwaked(f)[o] = "taken" => f[o] = "taken"
BY DEF Edits!Unwaked, Fates

(* Every step of the queue and of what surrounds it keeps the invariant. *)
LEMMA EditsNext == EditsInv /\ [Edits!Next]_edits => EditsInv'
<1> SUFFICES ASSUME EditsInv, [Edits!Next]_edits PROVE EditsInv'
  OBVIOUS
<1> DEFINE Q == [scheduled : BOOLEAN, running : BOOLEAN, full : BOOLEAN, ops : SUBSET Edit]
<1>1. /\ up \in BOOLEAN /\ online \in BOOLEAN /\ remote \in BOOLEAN /\ wantsLive \in BOOLEAN
      /\ hints \in Q /\ hints.ops \subseteq Edit
      /\ fate \in [Edit -> Fates] /\ IsFiniteSet(DOMAIN loops)
  BY DEF EditsInv, EditsTypeOK
<1>2. /\ \A o \in Edit : fate[o] \in {"hinted", "waked"} => o \in hints.ops
      /\ \A o \in Edit : fate[o] = "waked" =>
            hints.scheduled /\ DOMAIN loops # {} /\ online /\ up /\ remote
      /\ \A o \in Edit : fate[o] = "taken" => \E i \in DOMAIN loops : o \in loops[i].ops
      /\ hints.running => DOMAIN loops # {}
  BY DEF EditsInv, Edits!HintsAreNotLost
<1>3. CASE UNCHANGED edits
  BY <1>3 DEF edits, EditsInv, EditsTypeOK, Edits!HintsAreNotLost
<1>4. ASSUME UNCHANGED loops, hints' \in Q, hints'.ops = hints.ops,
             hints'.running => hints.running,
             fate' = Edits!Unwaked(fate),
             up' \in BOOLEAN, online' \in BOOLEAN, remote' \in BOOLEAN, wantsLive' \in BOOLEAN
      PROVE  EditsInv'
  <2>1. /\ fate' \in [Edit -> Fates]
        /\ \A o \in Edit : /\ fate'[o] # "waked"
                           /\ fate'[o] = "hinted" => fate[o] \in {"hinted", "waked"}
                           /\ fate'[o] = "taken" => fate[o] = "taken"
    BY <1>1, <1>4, UnwakedKeeps
  <2>2. EditsTypeOK'
    BY <1>4, <2>1 DEF EditsInv, EditsTypeOK
  <2>3. Edits!HintsAreNotLost'
    BY <1>2, <1>4, <2>1 DEF Edits!HintsAreNotLost
  <2> QED BY <1>2, <1>4, <2>1, <2>2, <2>3 DEF EditsInv
<1>5. ASSUME UNCHANGED <<loops, hints, fate>>, up => up', online => online', remote => remote',
             up' \in BOOLEAN, online' \in BOOLEAN, remote' \in BOOLEAN, wantsLive' \in BOOLEAN
      PROVE  EditsInv'
  BY <1>5 DEF EditsInv, EditsTypeOK, Edits!HintsAreNotLost
<1>6. CASE Edits!SetUp
  BY <1>1, <1>5, <1>6 DEF Edits!SetUp
<1>7. CASE Edits!TearDown
  <2>1. hints' = [hints EXCEPT !.scheduled = FALSE, !.running = FALSE]
    BY <1>7 DEF Edits!TearDown
  <2>2. hints' \in Q /\ hints'.ops = hints.ops /\ ~hints'.running
    BY <1>1, <2>1
  <2> QED BY <1>1, <1>4, <1>7, <2>2 DEF Edits!TearDown
<1>8. CASE Edits!RemoteOpens
  BY <1>1, <1>5, <1>8 DEF Edits!RemoteOpens
<1>9. CASE Edits!RemoteLost
  BY <1>1, <1>4, <1>9 DEF Edits!RemoteLost
<1>10. CASE Edits!SetOnline
  <2>1. CASE online
    BY <1>1, <1>4, <1>10, <2>1 DEF Edits!SetOnline
  <2>2. CASE ~online
    BY <1>1, <1>5, <1>10, <2>2 DEF Edits!SetOnline
  <2> QED BY <2>1, <2>2
<1>11. CASE Edits!ToggleLive
  BY <1>1, <1>5, <1>11 DEF Edits!ToggleLive
<1>12. ASSUME NEW ops \in SUBSET Edit, Edits!NotifyLocalUpdate(ops)
       PROVE  EditsInv'
  <2> DEFINE open == online /\ up /\ remote
             told == [Edits!Hinted(hints, ops) EXCEPT !.scheduled = TRUE]
             run == [told EXCEPT !.running = TRUE]
             f == [o \in Edit |-> IF o \notin ops THEN fate[o]
                                  ELSE IF open THEN "waked" ELSE "hinted"]
             i == CHOOSE n \in 1..(Cardinality(DOMAIN loops) + 1) : n \notin DOMAIN loops
  <2>1. told \in Q /\ told.ops = hints.ops \cup ops /\ told.scheduled
        /\ (told.running = hints.running)
    BY <1>1 DEF Edits!Hinted
  <2>2. run \in Q /\ run.ops = hints.ops \cup ops /\ run.scheduled
    <3> HIDE DEF told
    <3> QED BY <2>1
  <2>3. i \notin DOMAIN loops
    <3> DEFINE id == [n \in Nat |-> n]
    <3>1. \A m, n \in Nat : id[m] = id[n] => m = n
      OBVIOUS
    <3> HIDE DEF id
    <3>2. \E n \in 1..(Cardinality(DOMAIN loops) + 1) : id[n] \notin DOMAIN loops
      BY <1>1, <3>1, FreshIndex
    <3>3. Cardinality(DOMAIN loops) \in Nat
      BY <1>1, FS_CardinalityType
    <3> QED BY <3>2, <3>3 DEF id
  <2>4. f \in [Edit -> Fates]
    BY <1>1 DEF Fates
  <2>5. \A o \in Edit : /\ f[o] \in {"hinted", "waked"} => o \in hints.ops \cup ops
                        /\ f[o] = "waked" => open
                        /\ f[o] = "taken" => fate[o] = "taken"
    BY <1>2
  <2>6. UNCHANGED <<epoch, up, online, remote, wantsLive>>
    BY <1>12 DEF Edits!NotifyLocalUpdate
  <2>7. \/ hints.running /\ hints' = told /\ fate' = f /\ UNCHANGED loops
        \/ Edits!Goes(i, Edits!Iterate(run, remote), f)
    BY <1>12 DEF Edits!NotifyLocalUpdate, Edits!Cardinality, Cardinality, Edits!IsFiniteSet, IsFiniteSet
  <2>8. CASE hints.running /\ hints' = told /\ fate' = f /\ UNCHANGED loops
    <3> HIDE DEF told, f, i, run
    <3>1. EditsTypeOK'
      BY <2>1, <2>4, <2>6, <2>8 DEF EditsInv, EditsTypeOK
    <3>2. Edits!HintsAreNotLost'
      BY <1>2, <2>1, <2>5, <2>8 DEF Edits!HintsAreNotLost
    <3> QED BY <1>2, <2>5, <2>6, <2>8, <3>1, <3>2 DEF EditsInv
  <2>9. CASE Edits!Goes(i, Edits!Iterate(run, remote), f)
    <3> HIDE DEF told, f, i, run
    <3>1. Edits!Goes(i, Edits!Iterate(run, remote'), f)
      BY <2>6, <2>9
    <3>2. \A o \in Edit : f[o] = "taken" =>
             \E j \in DOMAIN loops : j # i /\ o \in loops[j].ops
      BY <1>2, <2>3, <2>5
    <3>3. \A o \in Edit : f[o] = "waked" => run.scheduled /\ online /\ up /\ remote'
      BY <2>2, <2>5, <2>6
    <3>4. \A o \in Edit : f[o] \in {"hinted", "waked"} => o \in run.ops
      BY <2>2, <2>5
    <3> QED BY <1>1, <2>2, <2>4, <2>6, <3>1, <3>2, <3>3, <3>4, GoesKeeps
  <2> QED BY <2>7, <2>8, <2>9
<1>13. ASSUME NEW i \in DOMAIN loops, NEW outcome \in {"ok", "error", "revoked"},
              Edits!LoopResumes(i, outcome)
       PROVE  EditsInv'
  <2> DEFINE end == IF outcome = "ok" THEN "pushed" ELSE "failed"
             f == [o \in Edit |-> IF o \in loops[i].ops THEN end ELSE fate[o]]
             g == IF outcome = "error" THEN Edits!Unwaked(f) ELSE f
  <2>1. /\ remote' = (remote /\ outcome # "error")
        /\ Edits!Goes(i, Edits!Iterate(hints, remote'), g)
        /\ UNCHANGED <<epoch, up, online, wantsLive>>
    BY <1>13 DEF Edits!LoopResumes
  <2>2. f \in [Edit -> Fates]
    BY <1>1 DEF Fates
  <2>3. \A o \in Edit : /\ f[o] \in {"hinted", "waked"} => fate[o] = f[o]
                        /\ f[o] = "taken" => fate[o] = "taken" /\ o \notin loops[i].ops
    OBVIOUS
  <2> HIDE DEF f
  <2>4. /\ g \in [Edit -> Fates]
        /\ \A o \in Edit : /\ g[o] \in {"hinted", "waked"} => f[o] \in {"hinted", "waked"}
                           /\ g[o] = "taken" => f[o] = "taken"
                           /\ g[o] = "waked" => f[o] = "waked" /\ outcome # "error"
    BY <2>2, UnwakedKeeps
  <2> HIDE DEF g
  <2>5. \A o \in Edit : g[o] \in {"hinted", "waked"} => o \in hints.ops
    BY <1>2, <2>3, <2>4
  <2>6. \A o \in Edit : g[o] = "waked" => hints.scheduled /\ online /\ up /\ remote'
    BY <1>2, <2>1, <2>3, <2>4
  <2>7. \A o \in Edit : g[o] = "taken" =>
           \E j \in DOMAIN loops : j # i /\ o \in loops[j].ops
    BY <1>2, <2>3, <2>4
  <2>8. remote' \in BOOLEAN
    BY <2>1
  <2> QED BY <1>1, <2>1, <2>4, <2>5, <2>6, <2>7, <2>8, GoesKeeps
<1> QED BY <1>3, <1>6, <1>7, <1>8, <1>9, <1>10, <1>11, <1>12, <1>13 DEF Edits!Next

-----------------------------------------------------------------------------
(* Operations that wait for proofs, for every set-up s of Holding: every   *)
(* set of operations, relation of contexts and set of filters, and any     *)
(* number of batches and rounds.                                           *)

\* The shapes of a handler and of a pass.
HandlerType(s) ==
    [at : {"idle", "store", "apply", "retry", "await"}, allow : SUBSET s.ops,
     pend : SUBSET s.ops]
PassType(s) ==
    [at : {"off", "list", "scan", "apply", "delete"}, todo : SUBSET s.ops, cur : SUBSET s.ops,
     progress : BOOLEAN, round : Nat]

PendingType(s) ==
    /\ applied \subseteq s.ops /\ pending \subseteq s.ops
    /\ batches \in [s.filters -> Seq(SUBSET s.ops)]
    /\ handler \in [s.filters -> HandlerType(s)]
    /\ pass \in PassType(s)

\* An operation whose scope check answers, and answers that it is allowed.
Authorized(s, o) == s.needs[o] \subseteq applied /\ o \notin s.bad

\* What verifyOps allowed stays allowed until it is applied: nothing leaves the store
\* while the handler awaits storePendingOps and applyOps.
AllowedStaysAllowed(s) ==
    \A f \in s.filters : handler[f].at \in {"store", "apply"} =>
        \A o \in handler[f].allow : Authorized(s, o)

\* The pass applies what it verified, and deletes what it applied or what was denied.
PassIsSound(s) ==
    /\ pass.at = "apply" => \A o \in pass.cur : Authorized(s, o)
    /\ pass.at = "delete" => pass.cur \subseteq applied \cup s.bad

\* A handler works on the first batch of its queue, and one that awaits a pass awaits
\* one that runs.
HandlersHaveWork(s) ==
    \A f \in s.filters : /\ handler[f].at # "idle" => batches[f] # <<>>
                         /\ handler[f].at = "await" => pass.at # "off"

PendingInv(s) ==
    /\ PendingType(s) /\ Holding(s)!AppliedIsAuthorized /\ AllowedStaysAllowed(s)
    /\ PassIsSound(s) /\ HandlersHaveWork(s)

(* Init of a peer with an empty store satisfies the invariant. *)
LEMMA PendingInit ==
  ASSUME NEW s, Holding(s)!Init
  PROVE  PendingInv(s)
<1>1. PendingType(s)
  BY DEF Holding!Init, PendingType, Holding!Idle, Holding!NoPass, HandlerType, PassType
<1>2. /\ Holding(s)!AppliedIsAuthorized /\ AllowedStaysAllowed(s)
      /\ PassIsSound(s) /\ HandlersHaveWork(s)
  BY DEF Holding!Init, Holding!AppliedIsAuthorized, AllowedStaysAllowed, PassIsSound,
       HandlersHaveWork, Holding!Idle, Holding!NoPass
<1> QED BY <1>1, <1>2 DEF PendingInv

(* An authorized operation stays authorized while the store only grows. *)
LEMMA AuthorizationLasts ==
  ASSUME NEW s, applied \subseteq applied', NEW o, Authorized(s, o)
  PROVE  Authorized(s, o)'
BY DEF Authorized

(* The removal of the first batch of some queues, all of them non-empty, keeps their type:   *)
(* the finally of enqueueOpsBatch.                                                           *)
LEMMA TailType ==
  ASSUME NEW S, NEW q \in Seq(S), q # <<>>
  PROVE  Tail(q) \in Seq(S)
BY HeadTailProperties

(* Settling a pass keeps the invariant: exactly the handlers that await it finish. *)
LEMMA SettleInvariant ==
  ASSUME NEW s, PendingInv(s), Holding(s)!Settle, UNCHANGED <<applied, pending>>
  PROVE  PendingInv(s)'
<1> USE DEF PendingInv
<1>1. handler' = [f \in s.filters |->
                     IF handler[f].at = "await" THEN Holding(s)!Idle ELSE handler[f]]
  BY DEF Holding!Settle
<1>2. batches' = [f \in s.filters |->
                     IF handler[f].at = "await" THEN Tail(batches[f]) ELSE batches[f]]
  BY DEF Holding!Settle
<1>3. pass' = Holding(s)!NoPass
  BY DEF Holding!Settle, Holding!Ended
<1>4. PendingType(s)'
  <2>1. batches' \in [s.filters -> Seq(SUBSET s.ops)]
    <3> SUFFICES ASSUME NEW f \in s.filters, handler[f].at = "await"
                 PROVE  Tail(batches[f]) \in Seq(SUBSET s.ops)
      BY <1>2 DEF PendingType
    <3> QED BY TailType DEF PendingType, HandlersHaveWork
  <2>2. handler' \in [s.filters -> HandlerType(s)]
    BY <1>1 DEF PendingType, Holding!Idle, HandlerType
  <2>3. pass' \in PassType(s)
    BY <1>3 DEF Holding!NoPass, PassType
  <2> QED BY <2>1, <2>2, <2>3 DEF PendingType
<1>5. Holding(s)!AppliedIsAuthorized' /\ PassIsSound(s)'
  BY <1>3 DEF Holding!AppliedIsAuthorized, PassIsSound, Holding!NoPass
<1>6. AllowedStaysAllowed(s)'
  BY <1>1 DEF AllowedStaysAllowed, Holding!Idle, Authorized
<1>7. HandlersHaveWork(s)'
  BY <1>1, <1>2 DEF HandlersHaveWork, Holding!Idle
<1> QED BY <1>4, <1>5, <1>6, <1>7

(* The steps of a batch: enqueueOpsBatch and onOpsBatch. *)
LEMMA BatchInvariant ==
  ASSUME NEW s, PendingInv(s), NEW f \in s.filters,
         Holding(s)!Receive(f) \/ Holding(s)!Refuse(f) \/ Holding(s)!Step(f)
  PROVE  PendingInv(s)'
<1> USE DEF PendingInv
<1>1. CASE Holding(s)!Receive(f)
  <2>1. PICK ops \in SUBSET s.ops : batches' = [batches EXCEPT ![f] = Append(@, ops)]
    BY <1>1 DEF Holding!Receive
  <2>2. UNCHANGED <<applied, pending, handler, pass>>
    BY <1>1 DEF Holding!Receive
  <2>3. Append(batches[f], ops) \in Seq(SUBSET s.ops) /\ Append(batches[f], ops) # <<>>
    <3> DEFINE S == SUBSET s.ops
    <3>1. batches[f] \in Seq(S) /\ ops \in S
      BY DEF PendingType
    <3> HIDE DEF S
    <3>2. Append(batches[f], ops) \in Seq(S) /\ Append(batches[f], ops) # <<>>
      BY <3>1, AppendProperties
    <3> QED BY <3>2 DEF S
  <2>4. PendingType(s)'
    BY <2>1, <2>2, <2>3 DEF PendingType
  <2>5. HandlersHaveWork(s)'
    BY <2>1, <2>2, <2>3 DEF HandlersHaveWork, PendingType
  <2> QED
    BY <2>2, <2>4, <2>5 DEF Holding!AppliedIsAuthorized, AllowedStaysAllowed, PassIsSound,
       Authorized
<1>2. ASSUME Holding(s)!Finished(f), batches[f] # <<>>, handler[f].at = "idle",
             UNCHANGED <<applied, pending, handler, pass>>
      PROVE  PendingInv(s)'
  <2>1. Tail(batches[f]) \in Seq(SUBSET s.ops)
    BY <1>2, TailType DEF PendingType
  <2>2. PendingType(s)' /\ HandlersHaveWork(s)'
    BY <1>2, <2>1 DEF PendingType, HandlersHaveWork, Holding!Finished
  <2> QED
    BY <1>2, <2>2 DEF Holding!AppliedIsAuthorized, AllowedStaysAllowed, PassIsSound, Authorized
<1>3. CASE Holding(s)!Refuse(f)
  BY <1>2, <1>3 DEF Holding!Refuse
<1>4. CASE Holding(s)!Verify(f)
  <2>1. CASE \E o \in Head(batches[f]) : Holding(s)!Verdict(o) = "deny"
    BY <1>2, <1>4, <2>1 DEF Holding!Verify
  <2>2. CASE ~ \E o \in Head(batches[f]) : Holding(s)!Verdict(o) = "deny"
    <3> DEFINE b == Holding(s)!Sorted(Head(batches[f]))
    <3>1. handler' = [handler EXCEPT ![f] = b]
      BY <1>4, <2>2 DEF Holding!Verify
    <3>2. UNCHANGED <<applied, pending, batches, pass>> /\ batches[f] # <<>>
      BY <1>4, <2>2 DEF Holding!Verify
    <3>3. Head(batches[f]) \in SUBSET s.ops
      BY <3>2, HeadTailProperties DEF PendingType
    <3>4. b \in HandlerType(s) /\ b.at = "store"
      BY <3>3 DEF Holding!Sorted, HandlerType
    <3>5. \A o \in b.allow : Authorized(s, o)
      BY DEF Holding!Sorted, Holding!Verdict, Authorized
    <3> HIDE DEF b
    <3>6. PendingType(s)' /\ HandlersHaveWork(s)'
      BY <3>1, <3>2, <3>4 DEF PendingType, HandlersHaveWork
    <3>7. AllowedStaysAllowed(s)'
      BY <3>1, <3>2, <3>4, <3>5 DEF AllowedStaysAllowed, PendingType, Authorized
    <3> QED
      BY <3>2, <3>6, <3>7 DEF Holding!AppliedIsAuthorized, PassIsSound, Authorized
  <2> QED BY <2>1, <2>2
<1>5. CASE Holding(s)!StorePendingOps(f)
  <2>1. PendingType(s)' /\ HandlersHaveWork(s)'
    BY <1>5 DEF Holding!StorePendingOps, PendingType, HandlerType, HandlersHaveWork
  <2>2. AllowedStaysAllowed(s)'
    BY <1>5 DEF Holding!StorePendingOps, AllowedStaysAllowed, PendingType, HandlerType,
       Authorized
  <2> QED
    BY <1>5, <2>1, <2>2 DEF Holding!StorePendingOps, Holding!AppliedIsAuthorized, PassIsSound,
       Authorized
<1>6. CASE Holding(s)!ApplyOps(f)
  <2>1. /\ applied' = applied \cup handler[f].allow
        /\ handler' = [handler EXCEPT ![f].at = "retry"]
        /\ UNCHANGED <<pending, batches, pass>>
        /\ handler[f].at = "apply"
    BY <1>6 DEF Holding!ApplyOps
  <2>2. PendingType(s)' /\ HandlersHaveWork(s)'
    BY <2>1 DEF PendingType, HandlerType, HandlersHaveWork
  <2>3. \A o \in handler[f].allow : Authorized(s, o)
    BY <2>1 DEF AllowedStaysAllowed
  <2>4. Holding(s)!AppliedIsAuthorized'
    BY <2>1, <2>3 DEF Holding!AppliedIsAuthorized, Authorized
  <2>5. AllowedStaysAllowed(s)' /\ PassIsSound(s)'
    BY <2>1 DEF AllowedStaysAllowed, PassIsSound, Authorized, PendingType, HandlerType
  <2> QED BY <2>2, <2>4, <2>5
<1>7. CASE Holding(s)!Reprocess(f)
  <2>1. PendingType(s)'
    BY <1>7 DEF Holding!Reprocess, PendingType, HandlerType, PassType, Holding!NoPass
  <2>2. Holding(s)!AppliedIsAuthorized' /\ AllowedStaysAllowed(s)'
    BY <1>7 DEF Holding!Reprocess, Holding!AppliedIsAuthorized, AllowedStaysAllowed,
       Authorized, PendingType, HandlerType
  <2>3. PassIsSound(s)' /\ HandlersHaveWork(s)'
    BY <1>7 DEF Holding!Reprocess, PassIsSound, HandlersHaveWork, Authorized, Holding!NoPass,
       PendingType, HandlerType
  <2> QED BY <2>1, <2>2, <2>3
<1> QED BY <1>1, <1>3, <1>4, <1>5, <1>6, <1>7 DEF Holding!Step

(* The steps of a pass: reprocessPendingOps. *)
LEMMA PassInvariant ==
  ASSUME NEW s, PendingInv(s), Holding(s)!PassStep
  PROVE  PendingInv(s)'
<1> USE DEF PendingInv
<1>1. CASE Holding(s)!ListPendingOps
  <2>1. CASE pending = {}
    BY <1>1, <2>1, SettleInvariant DEF Holding!ListPendingOps
  <2>2. CASE pending # {}
    BY <1>1, <2>2 DEF Holding!ListPendingOps, PendingType, PassType,
       Holding!AppliedIsAuthorized,
       AllowedStaysAllowed, PassIsSound, HandlersHaveWork, Authorized
  <2> QED BY <2>1, <2>2
<1>2. CASE Holding(s)!RetryOne
  <2>1. PICK o \in pass.todo :
          pass' = [pass EXCEPT !.todo = @ \ {o}, !.cur = {o}, !.at = Holding(s)!NextStep(o)]
    BY <1>2 DEF Holding!RetryOne
  <2>2. UNCHANGED <<applied, pending, batches, handler>> /\ pass.at = "scan"
    BY <1>2 DEF Holding!RetryOne
  <2>3. Holding(s)!NextStep(o) \in {"scan", "delete", "apply"}
    BY DEF Holding!NextStep
  <2>4. Holding(s)!NextStep(o) = "apply" => Authorized(s, o)
    BY DEF Holding!NextStep, Holding!Verdict, Authorized
  <2>5. Holding(s)!NextStep(o) = "delete" => o \in s.bad
    BY DEF Holding!NextStep, Holding!Verdict
  <2>6. pass'.at = Holding(s)!NextStep(o) /\ pass'.cur = {o} /\ pass' \in PassType(s)
    BY <2>1, <2>3 DEF PendingType, PassType
  <2>7. PendingType(s)' /\ HandlersHaveWork(s)'
    BY <2>2, <2>3, <2>6 DEF PendingType, HandlersHaveWork
  <2>8. PassIsSound(s)'
    BY <2>2, <2>4, <2>5, <2>6 DEF PassIsSound, Authorized
  <2> QED
    BY <2>2, <2>7, <2>8 DEF Holding!AppliedIsAuthorized, AllowedStaysAllowed, Authorized
<1>3. CASE Holding(s)!ApplyOne
  <2>1. PendingType(s)' /\ HandlersHaveWork(s)'
    BY <1>3 DEF Holding!ApplyOne, PendingType, PassType, HandlersHaveWork
  <2>2. Holding(s)!AppliedIsAuthorized' /\ AllowedStaysAllowed(s)'
    BY <1>3 DEF Holding!ApplyOne, Holding!AppliedIsAuthorized, AllowedStaysAllowed,
       PassIsSound, Authorized
  <2>3. PassIsSound(s)'
    BY <1>3 DEF Holding!ApplyOne, PassIsSound, PendingType, PassType
  <2> QED BY <2>1, <2>2, <2>3
<1>4. CASE Holding(s)!DeletePendingOps
  <2>1. PendingType(s)' /\ HandlersHaveWork(s)' /\ PassIsSound(s)'
    BY <1>4 DEF Holding!DeletePendingOps, PendingType, PassType, HandlersHaveWork, PassIsSound
  <2> QED
    BY <1>4, <2>1 DEF Holding!DeletePendingOps, Holding!AppliedIsAuthorized,
       AllowedStaysAllowed, Authorized
<1>5. CASE Holding(s)!RoundEnds
  <2>1. CASE Holding(s)!AnotherRound
    <3>1. /\ pass' = [pass EXCEPT !.at = "list", !.round = @ + 1]
          /\ UNCHANGED <<applied, pending, batches, handler>>
      BY <1>5, <2>1 DEF Holding!RoundEnds
    <3>2. pass' \in PassType(s) /\ pass'.at = "list"
      <4>1. pass.round + 1 \in Nat
        BY DEF PendingType, PassType
      <4>2. pass' = [pass EXCEPT !.at = "list", !.round = pass.round + 1]
        BY <3>1
      <4> QED BY <4>1, <4>2, Zenon DEF PendingType, PassType
    <3>3. PendingType(s)' /\ HandlersHaveWork(s)' /\ PassIsSound(s)'
      BY <3>1, <3>2 DEF PendingType, HandlersHaveWork, PassIsSound
    <3> QED
      BY <3>1, <3>3 DEF Holding!AppliedIsAuthorized, AllowedStaysAllowed, Authorized
  <2>2. CASE ~Holding(s)!AnotherRound
    BY <1>5, <2>2, SettleInvariant DEF Holding!RoundEnds
  <2> QED BY <2>1, <2>2
<1> QED BY <1>1, <1>2, <1>3, <1>4, <1>5 DEF Holding!PassStep

(* Every step keeps the invariant, a restart of the process included. *)
LEMMA PendingNext ==
  ASSUME NEW s, PendingInv(s), [Holding(s)!Next]_waiting
  PROVE  PendingInv(s)'
<1> USE DEF PendingInv
<1>1. ASSUME NEW f \in s.filters,
             Holding(s)!Receive(f) \/ Holding(s)!Refuse(f) \/ Holding(s)!Step(f)
      PROVE  PendingInv(s)'
  BY <1>1, BatchInvariant
<1>2. CASE Holding(s)!PassStep
  BY <1>2, PassInvariant
<1>3. CASE UNCHANGED <<applied, pending, batches, handler, pass>>
  BY <1>3 DEF PendingType, Holding!AppliedIsAuthorized, AllowedStaysAllowed, PassIsSound,
     HandlersHaveWork, Authorized
<1>4. CASE Holding(s)!Crash
  <2>1. PendingType(s)'
    BY <1>4, EmptySeq DEF Holding!Crash, PendingType, Holding!Idle, Holding!NoPass,
       HandlerType, PassType
  <2> QED
    BY <1>4, <2>1 DEF Holding!Crash, Holding!AppliedIsAuthorized, AllowedStaysAllowed,
       PassIsSound,
       HandlersHaveWork, Holding!Idle, Holding!NoPass
<1> QED BY <1>1, <1>2, <1>3, <1>4 DEF Holding!Next, Holding!List, Holding!Fetch, waiting

(* What a step does to the operations the peer holds: only deletePendingOps takes one away. *)
LEMMA StepKeepsHeld ==
  ASSUME NEW s, PendingInv(s), [Holding(s)!Next]_waiting
  PROVE  Holding(s)!HeldStep
<1> USE DEF Holding!HeldStep
<1>1. CASE Holding(s)!DeletePendingOps
  BY <1>1 DEF Holding!DeletePendingOps, PendingInv, PassIsSound
<1>2. CASE ~Holding(s)!DeletePendingOps
  <2>1. applied \subseteq applied' /\ pending \subseteq pending'
    BY <1>2 DEF Holding!Next, Holding!Step, Holding!PassStep, Holding!Receive, Holding!Refuse,
       Holding!Verify, Holding!StorePendingOps, Holding!ApplyOps,
       Holding!Reprocess, Holding!ListPendingOps, Holding!RetryOne, Holding!ApplyOne,
       Holding!RoundEnds, Holding!List, Holding!Fetch, Holding!Crash, waiting
  <2> QED BY <2>1
<1> QED BY <1>1, <1>2

(* The invariant holds in every reachable state, whatever the set-up. *)
THEOREM PendingInvariance ==
  ASSUME NEW s
  PROVE  Holding(s)!Init /\ [][Holding(s)!Next]_waiting => []PendingInv(s)
<1>1. Holding(s)!Init => PendingInv(s)
  BY PendingInit
<1>2. PendingInv(s) /\ [Holding(s)!Next]_waiting => PendingInv(s)'
  BY PendingNext
<1> QED BY <1>1, <1>2, PTL

(* onOpsBatch and reprocessPendingOps apply an operation only after its scope check has  *)
(* answered and allowed it, whatever batches interleave and whenever the process stops.  *)
THEOREM AppliedAreAuthorized ==
  ASSUME NEW s
  PROVE  Holding(s)!Init /\ [][Holding(s)!Next]_waiting => []Holding(s)!AppliedIsAuthorized
<1>1. PendingInv(s) => Holding(s)!AppliedIsAuthorized
  BY DEF PendingInv
<1> QED BY <1>1, PendingInvariance, PTL

(* What listOpRefs has reported stays pending or applied, unless its scope check denies it. *)
THEOREM HeldAreKept ==
  ASSUME NEW s
  PROVE  Holding(s)!Init /\ [][Holding(s)!Next]_waiting => [][Holding(s)!HeldStep]_waiting
<1>1. PendingInv(s) /\ [Holding(s)!Next]_waiting => [Holding(s)!HeldStep]_waiting
  BY StepKeepsHeld
<1> QED BY <1>1, PendingInvariance, PTL

(* A batch that awaits reprocessPendingOps never awaits a pass that has already ended, and  *)
(* its batch is still the first of its queue: no filter blocks itself.                      *)
THEOREM WaitersHaveWork ==
  ASSUME NEW s
  PROVE  Holding(s)!Init /\ [][Holding(s)!Next]_waiting => []HandlersHaveWork(s)
<1>1. PendingInv(s) => HandlersHaveWork(s)
  BY DEF PendingInv
<1> QED BY <1>1, PendingInvariance, PTL

-----------------------------------------------------------------------------
\* The part of a behaviour never changes, and its invariant holds.
PartsInv ==
    /\ part = "pushing" => Pushing!IInv
    /\ part = "waiting" => PendingInv(Waiting)
    /\ part = "serving" => PendingInv(Serving)
    /\ part = "server" => LiveInv({}, {parent})
    /\ part = "mesh" => LiveInv({neighbour}, {})
    /\ part = "edits" => EditsInv
    /\ part = "sqlite" => OnSqlite!MaterialInv
    /\ part = "postgres" => OnPostgres!MaterialInv

(* The parts start in states of their invariants. *)
LEMMA PartsInit == Init => PartsInv
<1>1. Pushing!Assumptions /\ Pushing!Init => Pushing!IInv
  BY Pushing!InitInvariant
<1>2. Pushing!Assumptions
  BY MCSyncAssumption
<1>3. Holding(Waiting)!Init => PendingInv(Waiting)
  BY PendingInit
<1>4. Holding(Serving)!Init => PendingInv(Serving)
  BY PendingInit
<1>5. Playground({}, {parent})!Init => LiveInv({}, {parent})
  BY LiveInit
<1>6. Playground({neighbour}, {})!Init => LiveInv({neighbour}, {})
  BY LiveInit
<1>7. /\ OnSqlite!Init => OnSqlite!MaterialInv
      /\ OnPostgres!Init => OnPostgres!MaterialInv
  BY OnSqlite!MaterialInit, OnPostgres!MaterialInit, MCSyncAssumption
<1> QED BY <1>1, <1>2, <1>3, <1>4, <1>5, <1>6, <1>7, EditsInit DEF Init, PartsInv

(* A step of the composition is a step or a stutter of each of these parts. *)
LEMMA StepOfPart ==
  ASSUME [Next]_all_vars
  PROVE  /\ part' = part
         /\ part = "pushing" => [Pushing!Next]_pushing
         /\ part = "waiting" => [Holding(Waiting)!Next]_waiting
         /\ part = "serving" => [Holding(Serving)!Next]_waiting
         /\ part = "server" => [Playground({}, {parent})!Next]_live
         /\ part = "mesh" => [Playground({neighbour}, {})!Next]_live
         /\ part = "edits" => [Edits!Next]_edits
         /\ part = "sqlite" => [OnSqlite!Next]_material
         /\ part = "postgres" => [OnPostgres!Next]_material
         /\ part \notin {"sqlite", "postgres"} => UNCHANGED material
BY DEF Next, all_vars

(* Every step keeps the invariants of the parts. *)
LEMMA PartsNext == PartsInv /\ [Next]_all_vars => PartsInv'
<1> SUFFICES ASSUME PartsInv, [Next]_all_vars PROVE PartsInv'
  OBVIOUS
<1>1. Pushing!Assumptions
  BY MCSyncAssumption
<1>2. Pushing!IInv /\ [Pushing!Next]_pushing => Pushing!IInv'
  BY <1>1, Pushing!NextInvariant DEF pushing, Pushing!vars
<1>3. PendingInv(Waiting) /\ [Holding(Waiting)!Next]_waiting => PendingInv(Waiting)'
  BY PendingNext
<1>4. PendingInv(Serving) /\ [Holding(Serving)!Next]_waiting => PendingInv(Serving)'
  BY PendingNext
<1>5. LiveInv({}, {parent}) /\ [Playground({}, {parent})!Next]_live => LiveInv({}, {parent})'
  BY LiveNext, FS_EmptySet, FS_Singleton
<1>6. LiveInv({neighbour}, {}) /\ [Playground({neighbour}, {})!Next]_live
        => LiveInv({neighbour}, {})'
  BY LiveNext, FS_EmptySet, FS_Singleton
<1>7. /\ OnSqlite!MaterialInv /\ [OnSqlite!Next]_material => OnSqlite!MaterialInv'
      /\ OnPostgres!MaterialInv /\ [OnPostgres!Next]_material => OnPostgres!MaterialInv'
  BY OnSqlite!MaterialNext, OnPostgres!MaterialNext, MCSyncAssumption
     DEF material, OnSqlite!vars, OnPostgres!vars
<1> QED BY <1>2, <1>3, <1>4, <1>5, <1>6, <1>7, EditsNext, StepOfPart DEF PartsInv

(* The invariants of the parts hold in every reachable state. *)
THEOREM PartsInvariance == Spec => []PartsInv
BY PartsInit, PartsNext, PTL DEF Spec, all_vars

(* onOpsBatch and reprocessPendingOps: what the run checks of two instances follows from the *)
(* theorem about every instance.                                                             *)
THEOREM RunAppliedIsAuthorized == Spec => []AppliedIsAuthorized
<1>1. PartsInv => AppliedIsAuthorized
  BY DEF PartsInv, AppliedIsAuthorized, PendingInv
<1> QED BY <1>1, PartsInvariance, PTL

(* pushSubscription: what it records as sent is delivered, once and in scope. *)
THEOREM RunSentIsDelivered == Spec => []SentIsDelivered
<1>1. Pushing!Assumptions
  BY MCSyncAssumption
<1>2. PartsInv => SentIsDelivered
  BY <1>1, Pushing!InvariantSuffices DEF PartsInv, SentIsDelivered
<1> QED BY <1>2, PartsInvariance, PTL

(* runPushLoop and notifyLocalUpdate: nothing is forgotten. *)
THEOREM RunNothingForgotten == Spec => []NothingForgotten
<1>1. Pushing!Assumptions
  BY MCSyncAssumption
<1>2. PartsInv => NothingForgotten
  BY <1>1, Pushing!InvariantSuffices DEF PartsInv, NothingForgotten
<1> QED BY <1>2, PartsInvariance, PTL

(* What listOpRefs has reported stays held, unless its scope check denies it. *)
THEOREM RunHeldIsKept == Spec => HeldIsKept
<1> DEFINE Kept == IF part = "serving" THEN Holding(Serving)!HeldStep
                   ELSE Holding(Waiting)!HeldStep
<1>1. ASSUME PartsInv, [Next]_all_vars
      PROVE  [Kept]_waiting
  <2>1. CASE part = "waiting"
    BY <1>1, <2>1, StepOfPart, StepKeepsHeld DEF PartsInv
  <2>2. CASE part = "serving"
    BY <1>1, <2>2, StepOfPart, StepKeepsHeld DEF PartsInv
  <2>3. CASE part \notin {"waiting", "serving"}
    BY <1>1, <2>3 DEF Next, all_vars
  <2> QED BY <2>1, <2>2, <2>3
<1>2. PartsInv /\ [Next]_all_vars => [Kept]_waiting
  BY <1>1
<1> QED BY <1>2, PartsInvariance, PTL DEF Spec, all_vars, HeldIsKept

(* What a handler of the playground leaves unstopped is on a present connection, wanted and *)
(* registered, so that the next disconnection or toggle finds it.                           *)
LEMMA LiveSuffices ==
  ASSUME NEW mesh, NEW parents, LiveInv(mesh, parents)
  PROVE  Playground(mesh, parents)!NoOrphanSubscription
<1>1. Playground(mesh, parents)!Live.attempts = attempts /\ Playground(mesh, parents)!Live.subs = liveSubs
  BY DEF Playground!Live
<1>2. \A n \in DOMAIN attempts :
         ~attempts[n].stopped => /\ attempts[n].current /\ liveSubs[n[1]] = n[2]
                                 /\ n[1] \in conn \X wanted
  BY <1>1 DEF LiveInv, Registered, Served
<1> QED BY <1>2 DEF Playground!NoOrphanSubscription

(* usePlaygroundSync: no live subscription outlives its connection, scope or entry. *)
THEOREM RunNoOrphanSubscription == Spec => []NoOrphanSubscription
<1>1. PartsInv => NoOrphanSubscription
  BY LiveSuffices DEF PartsInv, NoOrphanSubscription
<1> QED BY <1>1, PartsInvariance, PTL

(* notifyLocalUpdate of the playground: a local edit stays queued until a loop pushes it. *)
THEOREM RunHintsAreNotLost == Spec => []HintsAreNotLost
<1>1. PartsInv => HintsAreNotLost
  BY DEF PartsInv, HintsAreNotLost, EditsInv
<1> QED BY <1>1, PartsInvariance, PTL

(* createOpAuthStore and its neighbours: no transaction of the shared connection is left     *)
(* open, and a peer that forwards what it stored finds the signature of every operation.     *)
THEOREM RunMaterialIsSound == Spec => []MaterialIsSound
<1>1. PartsInv => MaterialIsSound
  BY OnSqlite!MaterialSuffices, OnPostgres!MaterialSuffices DEF PartsInv, MaterialIsSound
<1> QED BY <1>1, PartsInvariance, PTL

(* storePendingOps, deletePendingOps, storeOpAuth, storeCapabilities: a call that returns has *)
(* the last value of every key on disk, one that throws has changed nothing.                  *)
THEOREM RunCallsAreAtomic == Spec => CallsAreAtomic
<1>1. ASSUME PartsInv, [Next]_all_vars
      PROVE  [IF part = "postgres" THEN OnPostgres!AtomicStep ELSE OnSqlite!AtomicStep]_material
  <2>1. CASE part = "sqlite"
    BY <1>1, <2>1, StepOfPart, OnSqlite!AtomicNext, MCSyncAssumption
       DEF PartsInv, OnSqlite!MaterialInv, material, OnSqlite!vars
  <2>2. CASE part = "postgres"
    BY <1>1, <2>2, StepOfPart, OnPostgres!AtomicNext, MCSyncAssumption
       DEF PartsInv, OnPostgres!MaterialInv, material, OnPostgres!vars
  <2>3. CASE part \notin {"sqlite", "postgres"}
    BY <1>1, <2>3, StepOfPart
  <2> QED BY <2>1, <2>2, <2>3
<1>2. PartsInv /\ [Next]_all_vars =>
        [IF part = "postgres" THEN OnPostgres!AtomicStep ELSE OnSqlite!AtomicStep]_material
  BY <1>1
<1> QED BY <1>2, PartsInvariance, PTL DEF Spec, all_vars, CallsAreAtomic

-----------------------------------------------------------------------------
(* The exchanges.  Every part but that of a responder which hides operations *)
(* keeps the invariant of the sessions, or makes no call at all.             *)

ExchangeInv ==
    /\ part # "hiding"
    /\ part = "exchange" => Exchange!SessionInv
    /\ part = "refusal" => Refusal!SessionInv
    /\ part \notin {"exchange", "refusal"} => call.at = "none"

(* Every peer of the two exchanges may be sent everything. *)
LEMMA NothingIsHidden == Exchange!NothingHidden /\ Refusal!NothingHidden
BY DEF Exchange!NothingHidden, Refusal!NothingHidden, Both

(* The exchanges start in states of the invariant. *)
LEMMA ExchangeInit ==
  ASSUME "hiding" \notin Parts, Init
  PROVE  ExchangeInv
<1>1. part # "hiding"
  BY DEF Init
<1>2. Exchange!Assumptions /\ Refusal!Assumptions
  BY MCSyncAssumption
<1>3. Exchange!Init => Exchange!SessionInv
  BY <1>2, Exchange!InitIsInv
<1>4. Refusal!Init => Refusal!SessionInv
  BY <1>2, Refusal!InitIsInv
<1>5. Exchange!Init => call.at = "none"
  BY DEF Exchange!Init, Exchange!NewCall
<1>6. /\ part = "exchange" => Exchange!Init
      /\ part = "refusal" => Refusal!Init
      /\ part \notin {"exchange", "refusal"} => Exchange!Init
  BY <1>1 DEF Init
<1> QED BY <1>1, <1>3, <1>4, <1>5, <1>6 DEF ExchangeInv

(* Every step keeps the invariant. *)
LEMMA ExchangeNext ==
  ASSUME ExchangeInv, [Next]_all_vars
  PROVE  ExchangeInv'
<1>1. /\ part' = part
      /\ part = "exchange" => [Exchange!Next]_exchange
      /\ part = "refusal" => [Refusal!Next]_exchange
      /\ part \notin {"exchange", "refusal", "hiding"} => UNCHANGED exchange
  BY DEF Next, all_vars
<1>2. Exchange!Assumptions /\ Refusal!Assumptions
  BY MCSyncAssumption
<1>3. CASE part = "exchange"
  <2>1. Exchange!SessionInv /\ [Exchange!Next]_exchange
    BY <1>1, <1>3 DEF ExchangeInv
  <2>2. Exchange!SessionInv'
    BY <1>2, <2>1, NothingIsHidden, Exchange!NextKeeps DEF exchange, Exchange!vars
  <2> QED BY <1>1, <1>3, <2>2 DEF ExchangeInv
<1>4. CASE part = "refusal"
  <2>1. Refusal!SessionInv /\ [Refusal!Next]_exchange
    BY <1>1, <1>4 DEF ExchangeInv
  <2>2. Refusal!SessionInv'
    BY <1>2, <2>1, NothingIsHidden, Refusal!NextKeeps DEF exchange, Refusal!vars
  <2> QED BY <1>1, <1>4, <2>2 DEF ExchangeInv
<1>5. CASE part \notin {"exchange", "refusal"}
  <2>1. UNCHANGED exchange
    BY <1>1, <1>5 DEF ExchangeInv
  <2>2. call' = call
    BY <2>1 DEF exchange
  <2> QED BY <1>1, <1>5, <2>2 DEF ExchangeInv
<1> QED BY <1>3, <1>4, <1>5

(* syncOnce and onOpsBatch: a call that returned has its upload stored by the responder, also  *)
(* when batches are refused; once its messages are handled, both sides hold what was to be     *)
(* exchanged and the responder keeps no session of it.                                         *)
THEOREM RunSuccessIsComplete == "hiding" \notin Parts => (Spec => []SuccessIsComplete)
<1> SUFFICES ASSUME "hiding" \notin Parts PROVE Spec => []SuccessIsComplete
  OBVIOUS
<1>1. Init => ExchangeInv
  BY ExchangeInit
<1>2. ExchangeInv /\ [Next]_all_vars => ExchangeInv'
  BY ExchangeNext
<1>3. ExchangeInv => SuccessIsComplete
  <2> SUFFICES ASSUME ExchangeInv PROVE SuccessIsComplete
    OBVIOUS
  <2>1. CASE part = "exchange"
    <3>1. Exchange!SessionInv
      BY <2>1 DEF ExchangeInv
    <3>2. Exchange!UploadIsDurable
      BY <3>1, Exchange!InvIsDurable
    <3>3. Exchange!NothingLeftBehind
      BY <3>1, Exchange!InvLeavesNothing
    <3>4. Exchange!BothSidesComplete
      <4>1. Both({}, {})["i"] = {}
        BY DEF Both
      <4> QED BY <3>1, <4>1, Exchange!InvIsComplete
    <3> QED BY <3>2, <3>3, <3>4 DEF SuccessIsComplete
  <2>2. CASE part = "refusal"
    <3>1. Refusal!SessionInv
      BY <2>2 DEF ExchangeInv
    <3>2. Refusal!UploadIsDurable
      BY <3>1, Refusal!InvIsDurable
    <3>3. Exchange!UploadIsDurable
      BY <3>2 DEF Exchange!UploadIsDurable, Refusal!UploadIsDurable
    <3> QED BY <2>2, <3>3 DEF SuccessIsComplete
  <2>3. CASE part \notin {"exchange", "refusal"}
    <3>1. Exchange!UploadIsDurable
      BY <2>3 DEF ExchangeInv, Exchange!UploadIsDurable
    <3> QED BY <2>3, <3>1 DEF SuccessIsComplete
  <2> QED BY <2>1, <2>2, <2>3
<1> QED BY <1>1, <1>2, <1>3, PTL DEF Spec, all_vars
=============================================================================
