---------------------------- MODULE CoseCwtAuth ----------------------------
(***************************************************************************)
(* createTreecrdtCoseCwtAuth: what a peer knows of tokens and revocations, *)
(* how handshakes spread it, and how operations are filtered, signed,      *)
(* verified, held back and retried.  Peers keep grants, revocations and    *)
(* signatures in memory and on disk, and lose the memory when they         *)
(* restart, possibly with new revocation records in their options.         *)
(*                                                                         *)
(* A handler is one step.  When one throws in the middle of a list, an     *)
(* arbitrary part of the acceptable entries has been recorded: the order   *)
(* of the list is not modelled.  The optional hook and the list of revoked *)
(* ids in the options are left out; they add tokens to the revoked ones.   *)
(***************************************************************************)
EXTENDS CapabilityRules, SequencesExt

CONSTANTS
  Peers,           \* the peers; a peer's key is the peer itself
  Issuers,         \* the trusted issuer keys
  Links,           \* pairs <<initiator, responder>> that may run a session
  Tokens,          \* all tokens, each a sequence that starts at the issuer's
  LocalTokens,     \* peer -> its localCapabilityTokens
  Records,         \* revocation records
  LocalRecords,    \* peer -> the records in its options at first
  Ops,             \* operations [author, counter, type, node, parent, payload]
  LocalOps,        \* peer -> own operations in its log at first
  Chains,          \* peer -> its localIdentityChain, as a set of at most one
  Filters,         \* link -> filters its sessions may ask for: "all" or a parent node
  RequireProofRef, \* the option requireProofRef
  MaxTime, MaxRestarts, MaxSessions  \* bounds: clock, restarts, sessions at once

(* The certificates issueDeviceCertV1 and issueReplicaCertV1 make. *)
DeviceCerts(chains) == {c.device : c \in chains}
ReplicaCerts(chains) == {c.replica : c \in chains}

(* What issueTreecrdtRevocationRecordV1 and the parser insist on. *)
WellFormedRecord(r) ==
  /\ r.mode \in {"hard", "write_cutover"} /\ r.revSeq \in Nat /\ r.bytes \in Nat
  /\ r.mode = "write_cutover" => r.effectiveFromCounter # {}

(* What the constants must satisfy. *)
Assumptions ==
  /\ IsFiniteSet(Records) /\ \A r \in Records : WellFormedRecord(r)
  /\ \A p \in Peers : /\ \A c \in DeviceCerts(Chains[p]) : DOMAIN c = {"signer", "key", "exp"}
                      /\ \A c \in ReplicaCerts(Chains[p]) : c.key = p
  /\ LocalTokens \in [Peers -> SUBSET Tokens] /\ LocalRecords \in [Peers -> SUBSET Records]
  /\ Links \subseteq Peers \X Peers
  /\ \A p \in Peers : \A o \in LocalOps[p] : o \in Ops /\ o.author = p
  /\ \A a, b \in Records : a.bytes = b.bytes => a = b

VARIABLES
  mem,      \* peer -> its maps and flags in memory
  disk,     \* peer -> capability store, op auth store, operations, pending operations
  options,  \* peer -> localRevocationRecords
  session,  \* link -> the session on it
  now, restarts
vars == <<mem, disk, options, session, now, restarts>>

TokenId(t) == Last(t).id
Subject(t) == Last(t).subject
IsLocalToken(p, t) == t \in LocalTokens[p]

NewMemory == [grants |-> {}, replay |-> {}, rev |-> {}, auth |-> {}, identities |-> {},
              storeLoaded |-> FALSE, revsLoaded |-> FALSE, tokensRecorded |-> FALSE]
NoSession == [stage |-> "none", filter |-> "all", caps |-> {}, toldI |-> {}, toldR |-> {}]

Init ==
  /\ mem = [p \in Peers |-> NewMemory]
  /\ disk = [p \in Peers |-> [caps |-> {}, auth |-> {}, ops |-> LocalOps[p], pending |-> {}]]
  /\ options = LocalRecords
  /\ session = [l \in Links |-> NoSession]
  /\ now = 0
  /\ restarts = 0

-----------------------------------------------------------------------------
(* The materialized tree of a set of operations: where each node is.      *)
TreeOf(ops) ==
  [n \in Nodes |->
     LET placed == {o \in ops : o.node = n /\ o.type \in {"insert", "move"}}
     IN IF placed = {} THEN Missing
        ELSE (CHOOSE o \in placed : \A q \in placed : q.counter <= o.counter).parent]

RequiredActionsForOp(o) ==
  CASE o.type = "insert" ->
         {"write_structure"} \cup (IF o.payload THEN {"write_payload"} ELSE {})
    [] o.type = "move" -> {"write_structure"}
    [] o.type = "delete" -> {"delete"}
    [] o.type = "tombstone" -> {"tombstone"}
    [] o.type = "payload" -> {"write_payload"}

GetRequiredScopeChecks(o) ==
  CASE o.type = "insert" -> {o.parent}
    [] o.type = "move" -> {o.node, o.parent}
    [] OTHER -> {o.node}

CapsAllowsOp(tree, caps, o) ==
  TriAnd({CapsAllowsNodeAccess(tree, caps, n, RequiredActionsForOp(o)) :
            n \in GetRequiredScopeChecks(o)})

-----------------------------------------------------------------------------
(* Revocation.  A peer keeps one record per token.                        *)
VerifyRevocationRecord(r, time) == r.signer \in Issuers /\ \A i \in r.iat : i <= time

(* Fault variant: the record that arrives last wins. *)
SupersedesByArrival(r, e) == TRUE

Supersedes(r, e) == r.revSeq > e.revSeq \/ (r.revSeq = e.revSeq /\ r.bytes > e.bytes)

ApplyRevocationRecord(rev, r) ==
  LET existing == {e \in rev : e.tokenId = r.tokenId}
  IN IF \A e \in existing : Supersedes(r, e) THEN (rev \ existing) \cup {r} ELSE rev

(* Records are applied one by one, in any order. *)
AppliedInOrder(rev, order) ==
  LET after[i \in 0 .. Len(order)] ==
        IF i = 0 THEN rev ELSE ApplyRevocationRecord(after[i - 1], order[i])
  IN after[Len(order)]

AppliedAll(rev, new) == {AppliedInOrder(rev, order) : order \in SetToSeqs(new)}

Revokes(r, o) ==
  \/ r.mode = "hard"
  \/ /\ \A k \in r.effectiveFromReplica : k = o.author
     /\ \A c \in r.effectiveFromCounter : o.counter >= c

HardRevoked(rev) == {r.tokenId : r \in {x \in rev : x.mode = "hard"}}
IsGrantRevoked(rev, t, o) == \E r \in rev : r.tokenId = TokenId(t) /\ Revokes(r, o)

-----------------------------------------------------------------------------
(* Recording.  Each helper yields the set of its possible results         *)
(* [m, d, ok]: memory, disk, and whether it returned.                     *)
Parse(p, m, t) ==
  ParseAndVerify(t, Len(t), TreeOf(disk[p].ops), now, HardRevoked(m.rev), Issuers)

Result(m, d, ok) == [m |-> m, d |-> d, ok |-> ok]

(* Fault variant: the tokens of others are used but not passed on. *)
RememberUnadvertised(p, m, ts) == [m EXCEPT !.grants = @ \cup ts]

(* recordToken and rememberReplayAuthCapability. *)
Remember(p, m, ts) ==
  [m EXCEPT !.grants = @ \cup ts, !.replay = @ \cup {t \in ts : ~IsLocalToken(p, t)}]

EnsureCapabilityStoreRecorded(p, m, d) ==
  IF m.storeLoaded THEN {Result(m, d, TRUE)}
  ELSE LET good == {t \in d.caps : Parse(p, m, t) = "ok"}
       IN IF \E t \in d.caps : Parse(p, m, t) = "error"
          THEN {Result(Remember(p, m, ts), d, FALSE) : ts \in SUBSET good}
          ELSE {Result([Remember(p, m, good) EXCEPT !.storeLoaded = TRUE], d, TRUE)}

EnsureLocalRevocationsRecorded(p, m, d) ==
  IF m.revsLoaded THEN {Result(m, d, TRUE)}
  ELSE {Result([m EXCEPT !.rev = v, !.revsLoaded = TRUE], d, TRUE) :
          v \in AppliedAll(m.rev, options[p])}

(* Both, as every entry point does them first, in this order. *)
Prepare(p, m, d) ==
  UNION {IF a.ok THEN EnsureLocalRevocationsRecorded(p, a.m, a.d) ELSE {a} :
           a \in EnsureCapabilityStoreRecorded(p, m, d)}

EnsureLocalTokensRecorded(p, m, d) ==
  IF m.tokensRecorded THEN {Result(m, d, TRUE)}
  ELSE LET good == {t \in LocalTokens[p] : Parse(p, m, t) = "ok"}
           with(ts) == Result([m EXCEPT !.grants = @ \cup ts],
                              [d EXCEPT !.caps = @ \cup ts], FALSE)
       IN IF good # LocalTokens[p] THEN {with(ts) : ts \in SUBSET good}
          ELSE {[with(good) EXCEPT !.ok = TRUE, !.m.tokensRecorded = TRUE]}

(* helloCaps: the capabilities are read from the resulting memory. *)
HelloCaps(p, m, d) ==
  UNION {IF a.ok THEN EnsureLocalTokensRecorded(p, a.m, a.d) ELSE {a} : a \in Prepare(p, m, d)}

Advertised(p, m) ==
  [name: {"auth.capability"}, value: LocalTokens[p]]
    \cup [name: {"auth.capability.replay"}, value: m.replay]
    \cup [name: {"auth.revocation"}, value: m.rev]
    \cup [name: {"auth.identity_chain"}, value: Chains[p]]

Named(caps, name) == {c.value : c \in {x \in caps : x.name = name}}
LiveTokens(caps) == Named(caps, "auth.capability")

(* verifyTreecrdtIdentityChainCapabilityV1: the identity key signs the    *)
(* device key, the device key signs the replica key for this document.    *)
VerifyDeviceCert(cert, key) == cert.signer = key /\ \A e \in cert.exp : now <= e
VerifyReplicaCert(cert, key) ==
  cert.signer = key /\ cert.doc = "this" /\ \A e \in cert.exp : now <= e
VerifyReplicaChain(c) ==
  VerifyDeviceCert(c.device, c.identity) /\ VerifyReplicaCert(c.replica, c.device.key)

(* A token that is revoked is skipped if it is replayed material; a token *)
(* of an unknown issuer is always skipped; anything else throws.          *)
FailsHandshake(verdict, replay) ==
  verdict = "error" \/ (verdict = "revoked" /\ ~replay)

RecordCapabilities(p, m, d, caps) ==
  LET revs == Named(caps, "auth.revocation")
      seen(x) == {c.value : c \in {k \in caps : k.name \in {"auth.capability", "auth.capability.replay"}
                                                 /\ Parse(p, x, k.value) = "ok"}}
      fails(x) == \E c \in caps : /\ c.name \in {"auth.capability", "auth.capability.replay"}
                                  /\ FailsHandshake(Parse(p, x, c.value), c.name # "auth.capability")
      take(x, y, ts, ok) == Result(Remember(p, x, ts), [y EXCEPT !.caps = @ \cup ts], ok)
      chains == {c \in Named(caps, "auth.identity_chain") : VerifyReplicaChain(c)}
      tokens(x, y) ==
        IF fails(x) THEN {take(x, y, ts, FALSE) : ts \in SUBSET seen(x)}
        ELSE {take([x EXCEPT !.identities = @ \cup chains], y, seen(x), TRUE)}
  IN UNION {IF ~a.ok THEN {a}
            ELSE IF \E r \in revs : ~VerifyRevocationRecord(r, now)
              THEN {Result([a.m EXCEPT !.rev = v], a.d, FALSE) :
                      v \in UNION {AppliedAll(a.m.rev, rs) :
                                     rs \in SUBSET {r \in revs : VerifyRevocationRecord(r, now)}}}
            ELSE UNION {tokens([a.m EXCEPT !.rev = v], a.d) : v \in AppliedAll(a.m.rev, revs)} :
              a \in Prepare(p, m, d)}

-----------------------------------------------------------------------------
(* Reads.                                                                 *)
(* parsePeerCapabilityGrants: throws, or yields the trusted live tokens. *)
PeerGrantsFail(p, m, live) == \E t \in live : Parse(p, m, t) \notin {"ok", "unknown_issuer"}
PeerGrants(p, m, live) == {t \in live : Parse(p, m, t) = "ok"}

ReadsAll(grants) ==
  \E t \in grants : \E i \in DOMAIN Last(t).caps :
    /\ IsDocWideScope(Last(t).caps[i].scope)
    /\ "read_structure" \in ExpandCapabilityActions(Last(t).caps[i].actions)

ReadsNode(tree, grants, n) ==
  TriOr({CapsAllowsNodeAccess(tree, Last(t).caps, n, {"read_structure"}) : t \in grants})

AuthorizeFilter(p, m, live, filter) ==
  /\ live # {}
  /\ ~PeerGrantsFail(p, m, live)
  /\ IF filter = "all" THEN ReadsAll(PeerGrants(p, m, live))
     ELSE ReadsNode(TreeOf(disk[p].ops), PeerGrants(p, m, live), filter) = "allow"

(* Fault variant: an operation in an unknown place is sent. *)
RevealsUnlessDenied(tri) == tri # "deny"

Reveals(tri) == tri = "allow"

(* filterOutgoingOps for one operation; a peer that presents no live token *)
(* at all is not filtered.                                                 *)
FilterOutgoingOp(p, live, o) ==
  \/ live = {}
  \/ /\ ~PeerGrantsFail(p, mem[p], live)
     /\ \/ ReadsAll(PeerGrants(p, mem[p], live))
        \/ Reveals(ReadsNode(TreeOf(disk[p].ops), PeerGrants(p, mem[p], live), o.node))

-----------------------------------------------------------------------------
(* Writes.  selectGrantForOp: the first candidate that allows, or the     *)
(* first of which it is unknown; which of several allows is left open.    *)
Usable(m, t, o) == ~IsGrantRevoked(m.rev, t, o) /\ InWindow(Last(t), now)
Answers(p, t, o, answer) == CapsAllowsOp(TreeOf(disk[p].ops), Last(t).caps, o) = answer

Selectable(p, m, o, candidates) ==
  LET usable == {t \in candidates : Usable(m, t, o)}
      allow == {t \in usable : Answers(p, t, o, "allow")}
  IN IF allow # {} THEN allow ELSE {t \in usable : Answers(p, t, o, "unknown")}

SignTreecrdtOp(o, key) == [key |-> key, over |-> o]
VerifyTreecrdtOp(a) == a.sig = SignTreecrdtOp(a.op, a.op.author)
OpAuth(o, ref) == [op |-> o, sig |-> SignTreecrdtOp(o, o.author), proofRef |-> ref]

(* signOps: an own operation is signed under a local grant, another's is  *)
(* forwarded with the signature and proof reference it came with.         *)
SignatureFor(p, m, o) ==
  IF o.author = p /\ LocalTokens[p] = {} THEN {OpAuth(o, {})}
  ELSE IF o.author = p
  THEN {OpAuth(o, {TokenId(t)}) :
          t \in Selectable(p, m, o, {t \in m.grants : Subject(t) = p /\ IsLocalToken(p, t)})}
  ELSE {a \in m.auth \cup disk[p].auth : a.op = o}

(* verifyOps: "allow", "unknown" (pending context) or "deny" (throws). *)
VerifyOp(p, m, a) ==
  LET known == {t \in m.grants : Subject(t) = a.op.author}
      named == {t \in known : TokenId(t) \in a.proofRef}
      chosen == Selectable(p, m, a.op, IF RequireProofRef THEN named ELSE known)
  IN IF chosen = {} \/ ~VerifyTreecrdtOp(a) THEN "deny"
     ELSE IF \E t \in chosen : Answers(p, t, a.op, "allow") THEN "allow" ELSE "unknown"

(* Fault variant: the retry only asks whether the scope is known by now. *)
VerifyAgainScope(p, m, a) ==
  IF \E t \in m.grants : Subject(t) = a.op.author /\ Answers(p, t, a.op, "allow")
  THEN "allow" ELSE "unknown"

VerifyAgain(p, m, a) == VerifyOp(p, m, a)

-----------------------------------------------------------------------------
Keep(p, a) == mem' = [mem EXCEPT ![p] = a.m] /\ disk' = [disk EXCEPT ![p] = a.d]

(* The initiator opens a session: helloCapabilities. *)
SendHello(l, filter) ==
  /\ session[l].stage = "none"
  /\ Cardinality({k \in Links : session[k].stage # "none"}) < MaxSessions
  /\ \E a \in HelloCaps(l[1], mem[l[1]], disk[l[1]]) :
       /\ Keep(l[1], a)
       /\ session' = IF a.ok
                     THEN [session EXCEPT ![l] =
                             [stage |-> "hello", filter |-> filter,
                              caps |-> Advertised(l[1], a.m),
                              toldI |-> disk[l[1]].ops, toldR |-> {}]]
                     ELSE session
  /\ UNCHANGED <<options, now, restarts>>

(* onHello and authorizeFilter at the responder. *)
OnHello(l) ==
  LET r == l[2]
      s == session[l]
  IN /\ s.stage = "hello"
     /\ \E a \in UNION {IF x.ok THEN HelloCaps(r, x.m, x.d) ELSE {x} :
                          x \in RecordCapabilities(r, mem[r], disk[r], s.caps)} :
          /\ Keep(r, a)
          /\ session' = [session EXCEPT ![l] =
               IF a.ok /\ AuthorizeFilter(r, a.m, LiveTokens(s.caps), s.filter)
               THEN [s EXCEPT !.stage = "ack", !.caps = Advertised(r, a.m), !.toldR = disk[r].ops]
               ELSE NoSession]
     /\ UNCHANGED <<options, now, restarts>>

(* onHelloAck at the initiator. *)
OnHelloAck(l) ==
  LET i == l[1]
      s == session[l]
  IN /\ s.stage = "ack"
     /\ \E a \in RecordCapabilities(i, mem[i], disk[i], s.caps) :
          /\ Keep(i, a)
          /\ session' = [session EXCEPT ![l] =
               IF a.ok THEN [s EXCEPT !.stage = "open", !.caps = {}]
               ELSE NoSession]
     /\ UNCHANGED <<options, now, restarts>>

CloseSession(l) ==
  /\ session[l].stage = "open"
  /\ session' = [session EXCEPT ![l] = NoSession]
  /\ UNCHANGED <<mem, disk, options, now, restarts>>

(* The engine stores a local operation; nothing is checked until it is sent. *)
LocalWrite(p, o) ==
  /\ o.author = p /\ o \notin disk[p].ops
  /\ \A q \in Ops : q.author = p /\ q.counter < o.counter => q \in disk[p].ops
  /\ disk' = [disk EXCEPT ![p].ops = @ \cup {o}]
  /\ UNCHANGED <<mem, options, session, now, restarts>>

InFilter(p, o, filter) ==
  filter = "all" \/ o.parent = filter \/ TreeOf(disk[p].ops)[o.node] = filter

Received(d, a, verdict) ==
  [d EXCEPT !.auth = IF verdict = "deny" THEN @ ELSE @ \cup {a},
            !.ops = IF verdict = "allow" THEN @ \cup {a.op} ELSE @,
            !.pending = IF verdict = "unknown" THEN @ \cup {a} ELSE @]

(* One operation goes from one end of an open session to the other:       *)
(* filterOutgoingOps and signOps here, verifyOps there.                   *)
Transfer(l, from, to, o) ==
  /\ session[l].stage = "open" /\ {from, to} = {l[1], l[2]} /\ from # to
  /\ o \in disk[from].ops \ disk[to].ops /\ InFilter(from, o, session[l].filter)
  /\ FilterOutgoingOp(from, LocalTokens[to], o)
  /\ \E a \in SignatureFor(from, mem[from], o) :
       /\ ~\E x \in disk[to].pending : x.op = o
       /\ LET verdict == VerifyOp(to, mem[to], a)
          IN /\ disk' = [disk EXCEPT ![to] = Received(@, a, verdict)]
             /\ mem' = [mem EXCEPT ![to].auth =
                          IF verdict = "deny" THEN @ ELSE @ \cup {a}]
  /\ UNCHANGED <<options, session, now, restarts>>

(* reprocessPendingOps: a held operation is verified again. *)
RetryPending(p, a) ==
  /\ a \in disk[p].pending
  /\ mem[p].storeLoaded
  /\ VerifyAgain(p, mem[p], a) = "allow"
  /\ disk' = [disk EXCEPT ![p].ops = @ \cup {a.op}, ![p].pending = @ \ {a}]
  /\ UNCHANGED <<mem, options, session, now, restarts>>

(* The process restarts, with further revocation records in its options. *)
Restart(p, records) ==
  /\ restarts < MaxRestarts
  /\ restarts' = restarts + 1
  /\ mem' = [mem EXCEPT ![p] = NewMemory]
  /\ options' = [options EXCEPT ![p] = @ \cup records]
  /\ session' = [l \in Links |-> IF p \in {l[1], l[2]} THEN NoSession ELSE session[l]]
  /\ UNCHANGED <<disk, now>>

Tick ==
  /\ now < MaxTime
  /\ now' = now + 1
  /\ UNCHANGED <<mem, disk, options, session, restarts>>

Next ==
  \/ \E l \in Links : (\E f \in Filters[l] : SendHello(l, f)) \/ OnHello(l) \/ OnHelloAck(l)
                      \/ CloseSession(l)
  \/ \E p \in Peers, o \in Ops : LocalWrite(p, o)
  \/ \E l \in Links, p, q \in Peers, o \in Ops : Transfer(l, p, q, o)
  \/ \E p \in Peers : \E a \in disk[p].pending : RetryPending(p, a)
  \/ \E p \in Peers : \E rs \in {{}} \cup {{r} : r \in Records} : Restart(p, rs)
  \/ Tick

-----------------------------------------------------------------------------
(* An operation of another peer enters the log of a peer only while one of *)
(* the author's tokens is in its window and not revoked for it, as far as  *)
(* the peer knows at that moment.  In particular a revocation that arrives *)
(* while the operation waits for context is obeyed when it is retried.     *)
NoRevokedWrites ==
  [][\A p \in Peers : \A o \in disk'[p].ops \ disk[p].ops :
       o.author # p =>
         \E t \in Tokens : Subject(t) = o.author /\ Usable(mem[p], t, o)]_vars

(* While a peer runs, the revocation record it holds for a token is only   *)
(* replaced by one with a higher sequence number, or by the greater of two *)
(* with the same number: records that arrive late or again, by whatever    *)
(* route, change nothing (applyRevocationRecord).                          *)
RevocationNeverWeakens ==
  [][\A p \in Peers : \A r \in mem[p].rev :
       \/ restarts' # restarts
       \/ \E e \in mem'[p].rev :
            /\ e.tokenId = r.tokenId
            /\ e.revSeq > r.revSeq \/ (e.revSeq = r.revSeq /\ e.bytes >= r.bytes)]_vars

(* What a peer holds, the next one can verify: once a handshake is over,   *)
(* each end knows a token of the author of every operation the other end   *)
(* held when it advertised its capabilities, unless such a token has been  *)
(* hard-revoked.  The author need not be present, and the peer in between  *)
(* may have restarted.                                                     *)
RelayedIsVerifiable ==
  \A l \in Links :
    LET knows(p, o) ==
          \/ \E t \in mem[p].grants : Subject(t) = o.author
          \/ \E t \in Tokens : /\ Subject(t) = o.author
                               /\ \E k \in DOMAIN t : t[k].id \in HardRevoked(mem[p].rev)
          \/ o.author = p \/ LocalTokens[o.author] = {}
    IN /\ session[l].stage \in {"ack", "open"} => \A o \in session[l].toldI : knows(l[2], o)
       /\ session[l].stage = "open" => \A o \in session[l].toldR : knows(l[1], o)

(* The peer's tokens let it read the operation in some tree that can arise. *)
Readable(p, o) ==
  \/ LocalTokens[p] = {}
  \/ ReadsAll(LocalTokens[p])
  \/ \E S \in SUBSET Ops : ReadsNode(TreeOf(S), LocalTokens[p], o.node) = "allow"

(* A peer with scoped tokens never gets an operation on a node outside its *)
(* scope, although the senders decide it in trees that lack operations     *)
(* (filterOutgoingOps fails closed).                                       *)
HiddenStaysHidden ==
  \A p \in Peers : \A o \in disk[p].ops \cup {a.op : a \in disk[p].pending} :
    o.author = p \/ Readable(p, o)

(* What the comments in recordCapabilities and in                          *)
(* ensureCapabilityStoreRecorded say of cached material: a handshake is    *)
(* not failed by it.  A peer whose own and whose partner's live tokens     *)
(* verify gets through its hello path.                                     *)
CachedMaterialIsBestEffort ==
  \A p \in Peers :
    (\A t \in LocalTokens[p] :
       Parse(p, [mem[p] EXCEPT !.rev = @ \cup options[p]], t) = "ok")
      => \A a \in HelloCaps(p, mem[p], disk[p]) : a.ok

=============================================================================
