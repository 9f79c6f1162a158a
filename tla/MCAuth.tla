------------------------------- MODULE MCAuth -------------------------------
(***************************************************************************)
(* An instance of the auth package: either three peers that exchange       *)
(* tokens, revocations and operations (CoseCwtAuth), or one verifier and a *)
(* chain of delegated tokens (Capability), or the tabs of a playground     *)
(* profile that share keys (PlaygroundKeys).  A behaviour is of one part,  *)
(* chosen at the start; the others stay in their initial states.           *)
(***************************************************************************)
EXTENDS KeyPrograms, Naturals, SequencesExt, TLC

CONSTANTS
  Parts,             \* the parts that are checked
  A, R, B, root,     \* the keys of the peers and of the issuer
  n1, n2, n3, ROOT, TRASH, Missing, Null,
  ExpA,              \* when the token of A expires, if it does
  T1, T2,            \* tabs
  m1, m2, i1, i2, v1, c1, b2,   \* threads of the tabs
  Nodes, Peers, Issuers, Links, Tokens, LocalTokens, Records, LocalRecords, Ops, LocalOps,
  Chains, Filters, RequireProofRef, MaxTime, MaxRestarts, MaxSessions,  \* of CoseCwtAuth
  ScopeNodes, RootCaps, Caps, Windows, MaxDelegationTime,               \* of Capability
  MaxChain                                                              \* of both

VARIABLES
  part,                                          \* which part this behaviour is about
  mem, disk, options, session, now, restarts,    \* of CoseCwtAuth
  dview, dchain, dnow,                           \* of Capability
  store, local, lock, th, payloads, misread      \* of PlaygroundKeys
pvars == <<mem, disk, options, session, now, restarts>>
dvars == <<dview, dchain, dnow>>
kvars == <<store, local, lock, th, payloads, misread>>
allvars == <<part, pvars, dvars, kvars>>

Scope(r, d, e) == [root |-> r, maxDepth |-> d, exclude |-> e]
Cap(s, a) == [scope |-> s, actions |-> a]
DocWide == Scope(ROOT, {}, {})
Granting == {"grant", "write_payload"}
Reading == {"read_structure"}

-----------------------------------------------------------------------------
(* A writes everywhere and has delegated to B the payloads outside n1, for *)
(* a limited time; R relays.                                               *)
Entry(id, signer, subject, cap, exp) ==
  [id |-> id, signer |-> signer, subject |-> subject, caps |-> <<cap>>, exp |-> exp, nbf |-> {}]
tA == Entry("tA", root, A, Cap(DocWide, {"grant", "write_structure", "write_payload"}), ExpA)
tR == Entry("tR", root, R, Cap(DocWide, Reading), {})
tB == Entry("tB", A, B, Cap(Scope(ROOT, {}, {n1}), {"write_payload"}), {0})
Issued == {<<tA>>, <<tR>>, <<tA, tB>>}
Held == [p \in {A, R, B} |-> {t \in Issued : Last(t).subject = p}]
Routes == {<<A, R>>, <<R, B>>, <<B, R>>}
Asked == [l \in Routes |-> IF l[1] = B THEN {ROOT} ELSE {"all"}]

Record(b, mode, seq, c) ==
  [bytes |-> b, tokenId |-> "tB", mode |-> mode, revSeq |-> seq, iat |-> {}, signer |-> root,
   effectiveFromCounter |-> c, effectiveFromReplica |-> {}]
Cutover == Record(2, "write_cutover", 1, {2})
Revocations == {Record(1, "hard", 2, {}), Cutover}
Configured == [p \in {A, R, B} |-> IF p = R THEN {Cutover} ELSE {}]

Op(a, c, ty, n, p) ==
  [author |-> a, counter |-> c, type |-> ty, node |-> n, parent |-> p, payload |-> FALSE]
Writes == {Op(A, 1, "insert", n2, n1), Op(A, 2, "payload", n2, n2),
           Op(A, 3, "insert", n3, ROOT), Op(B, 1, "payload", n3, n3)}
Written == [p \in {A, R, B} |-> IF p = A THEN {o \in Writes : o.author = A} ELSE {}]
Certified ==
  [p \in {A, R, B} |->
     IF p # A THEN {}
     ELSE {[identity |-> "user", device |-> [signer |-> "user", key |-> "laptop", exp |-> {}],
            replica |-> [signer |-> "laptop", key |-> A, doc |-> "this", exp |-> {0}]]}]

P == INSTANCE CoseCwtAuth

-----------------------------------------------------------------------------
(* Two nodes, and the capabilities that differ in root, depth, exclude     *)
(* list or actions.                                                        *)
Delegable ==
  {Cap(s, Granting) : s \in {DocWide, Scope(n1, {}, {}), Scope(n1, {1}, {}), Scope(n1, {}, {n2}),
                             Scope(n2, {}, {}), Scope(ROOT, {}, {n2})}}
    \cup {Cap(Scope(n1, {1}, {n2}), Reading)}
Grants ==
  {<<c>> : c \in Delegable}
    \cup {<<Cap(Scope(n1, {1}, {}), Granting), Cap(Scope(n2, {}, {}), Granting)>>,
          <<Cap(Scope(ROOT, {}, {n2}), Reading), Cap(Scope(n1, {}, {n2}), Granting)>>}
Terms == {[exp |-> {}, nbf |-> {}], [exp |-> {1}, nbf |-> {1}]}
D == INSTANCE Capability WITH
       Nodes <- ScopeNodes, MaxTime <- MaxDelegationTime,
       view <- dview, chain <- dchain, now <- dnow
ASSUME MCAuthAssumption == P!Assumptions /\ D!Assumptions

-----------------------------------------------------------------------------
(* Tabs that mount and make a device identity, that initialize at the same *)
(* time, that mount while another imports an invite, and that initialize   *)
(* while another builds an invite link.                                    *)
TabOf == m1 :> T1 @@ m2 :> T2 @@ c1 :> T1 @@ i1 :> T1 @@ i2 :> T2 @@ v1 :> T1
         @@ b2 :> T2
Prog == m1 :> "mount" @@ m2 :> "mount" @@ c1 :> "chain" @@ i1 :> "init" @@ i2 :> "init"
        @@ v1 :> "invite" @@ b2 :> "link"
Mounting == INSTANCE PlaygroundKeys WITH Thread <- {m1, m2, c1}
Starting == INSTANCE PlaygroundKeys WITH Thread <- {i1, i2}
Inviting == INSTANCE PlaygroundKeys WITH Thread <- {v1, m2}
Linking == INSTANCE PlaygroundKeys WITH Thread <- {i1, b2}
ASSUME /\ Mounting!Assumptions /\ Starting!Assumptions
       /\ Inviting!Assumptions /\ Linking!Assumptions

-----------------------------------------------------------------------------
Start ==
  /\ part \in Parts
  /\ P!Init /\ D!Init
  /\ CASE part = "starting" -> Starting!Init
       [] part = "inviting" -> Inviting!Init
       [] part = "linking" -> Linking!Init
       [] OTHER -> Mounting!Init

Move ==
  /\ UNCHANGED part
  /\ \/ part = "peers" /\ P!Next /\ UNCHANGED <<dvars, kvars>>
     \/ part = "delegation" /\ D!Next /\ UNCHANGED <<pvars, kvars>>
     \/ /\ \/ part = "mounting" /\ Mounting!Next
           \/ part = "starting" /\ Starting!Next
           \/ part = "inviting" /\ Inviting!Next
           \/ part = "linking" /\ Linking!Next
        /\ UNCHANGED <<pvars, dvars>>

Spec == Start /\ [][Move]_allvars

-----------------------------------------------------------------------------
(* The properties of the parts, stated in their modules.  A part at rest   *)
(* satisfies its own trivially.                                            *)

\* What a relay forwards (signOps, onHello) its receivers can verify, after restarts too.
RelayedIsVerifiable == part = "peers" => P!RelayedIsVerifiable

\* filterOutgoingOps sends no operation on a node the peer may not read.
HiddenStaysHidden == part = "peers" => P!HiddenStaysHidden

\* verifyOps admits no write that a known revocation forbids, when retried neither.
NoRevokedWrites == P!NoRevokedWrites

\* The records of revocations that meet in any order only become stricter.
RevocationNeverWeakens == P!RevocationNeverWeakens

\* The comment at ensureCapabilityStoreRecorded: stale cached tokens are ignored.
CachedMaterialIsBestEffort == P!CachedMaterialIsBestEffort

\* parseAndVerifyCapabilityToken: a delegated token permits nothing its proof does not.
DelegationAttenuates == part = "delegation" => D!DelegationAttenuates

\* triStateAnd and the scope checks: learning more of the tree settles an undecided
\* verdict and never turns a settled one.
LearningOnlyDecides == D!LearningOnlyDecides

\* usePlaygroundAuth, auth.ts: tabs that start together end up with the same keys.
TabsShareKeys ==
  CASE part = "mounting" -> Mounting!TabsShareKeys
    [] part = "starting" -> Starting!TabsShareKeys
    [] part = "inviting" -> Inviting!TabsShareKeys
    [] part = "linking" -> Linking!TabsShareKeys
    [] OTHER -> TRUE

\* The comment at saveIssuerKeys: issuer keys are not clobbered when tabs initialize
\* concurrently.
IssuerIsNotClobbered == Linking!IssuerIsNotClobbered
=============================================================================
