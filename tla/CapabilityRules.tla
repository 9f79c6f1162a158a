--------------------------- MODULE CapabilityRules ---------------------------
(***************************************************************************)
(* Capability tokens of the auth package: what a token allows on which     *)
(* node (internal/scope.ts), how a chain of delegated tokens is verified   *)
(* (internal/capability.ts), and the walk through the local tree that      *)
(* decides whether a node is inside a scope (sqlite.ts).                   *)
(*                                                                         *)
(* Optional fields are sets with at most one element.  A signature is      *)
(* modelled by the key that made it, and a token is given together with    *)
(* the proofs it carries, as a sequence that starts at the issuer's token. *)
(***************************************************************************)
EXTENDS Naturals, Sequences, FiniteSets, FiniteSetsExt

CONSTANTS
  Nodes,        \* ordinary nodes of the document
  ROOT, TRASH,  \* the reserved ids
  Missing,      \* no row in tree_nodes
  Null,         \* a row without parent
  MaxChain      \* MAX_DELEGATION_PROOF_CHAIN

AnyNode == Nodes \cup {ROOT, TRASH}
Tri == {"allow", "deny", "unknown"}
Actions == {"grant", "read_structure", "read_payload", "write_structure",
            "write_payload", "delete", "tombstone"}

ScopeType == [root : AnyNode, maxDepth : SUBSET Nat, exclude : SUBSET AnyNode]
CapType == [scope : ScopeType, actions : SUBSET Actions]

(* The ids of the document, of its reserved nodes and of no node differ.  *)
NodesAssumption ==
  /\ IsFiniteSet(Nodes) /\ {ROOT, TRASH} \cap Nodes = {}
  /\ Missing # Null /\ {Missing, Null} \cap AnyNode = {}

-----------------------------------------------------------------------------
(* The scope evaluator over tree_nodes: walk from the node to the root,   *)
(* until a hop gives the answer.  A walk of more hops than there are nodes *)
(* stands for the 100 000 hops after which the code gives up.              *)
MaxHops == Cardinality(Nodes) + 1

TooDeep(scope, d) == \E m \in scope.maxDepth : d > m

(* Fault variant: a missing row ends the chain like a NULL parent. *)
AtChainEndAlways(tree, n) == "deny"

AtChainEnd(tree, n) == IF tree[n] = Null THEN "deny" ELSE "unknown"

(* The answer at node n, d hops above the start, or "onward". *)
AtHop(tree, scope, n, d) ==
  IF n \in scope.exclude THEN "deny"
  ELSE IF n = scope.root THEN (IF TooDeep(scope, d) THEN "deny" ELSE "allow")
  ELSE IF n \in {ROOT, TRASH} \/ TooDeep(scope, d + 1) THEN "deny"
  ELSE IF tree[n] \in {Missing, Null} \/ d = MaxHops THEN AtChainEnd(tree, n)
  ELSE "onward"

ScopeEvaluator(tree, scope, node) ==
  LET walk[p \in AnyNode \X (0 .. MaxHops)] ==
        LET answer == AtHop(tree, scope, p[1], p[2])
        IN IF answer = "onward" THEN walk[<<tree[p[1]], p[2] + 1>>] ELSE answer
  IN walk[<<node, 0>>]

-----------------------------------------------------------------------------
TriOr(S) == CASE "allow" \in S -> "allow"
              [] "allow" \notin S /\ "unknown" \in S -> "unknown"
              [] OTHER -> "deny"

TriAnd(S) == CASE "deny" \in S -> "deny"
               [] "deny" \notin S /\ "unknown" \in S -> "unknown"
               [] OTHER -> "allow"

ExpandCapabilityActions(actions) ==
  actions
    \cup (IF actions \cap {"write_structure", "write_payload", "delete", "tombstone"} # {}
          THEN {"read_structure"} ELSE {})
    \cup (IF "write_payload" \in actions THEN {"read_payload"} ELSE {})

IsDocWideScope(scope) == scope.root = ROOT /\ scope.maxDepth = {} /\ scope.exclude = {}

(* A capability on the document at hand; the root of the scope is allowed *)
(* before the evaluator is asked.                                         *)
CapAllowsNode(tree, cap, node, required) ==
  IF ~(required \subseteq ExpandCapabilityActions(cap.actions)) THEN "deny"
  ELSE IF node = cap.scope.root \/ IsDocWideScope(cap.scope) THEN "allow"
  ELSE ScopeEvaluator(tree, cap.scope, node)

CapsAllowsNodeAccess(tree, caps, node, required) ==
  TriOr({CapAllowsNode(tree, caps[i], node, required) : i \in DOMAIN caps})

-----------------------------------------------------------------------------
(* Verification of a delegated token against its proof.                   *)
WithinTime(proof, delegated) ==
  /\ \A e \in proof.exp : delegated.exp # {} /\ \A f \in delegated.exp : f <= e
  /\ \A b \in proof.nbf : delegated.nbf # {} /\ \A c \in delegated.nbf : c >= b

(* Fault variant: the exclude list of the proof need not be kept. *)
WithinScopeLosesExclude(tree, proof, delegated) ==
  \/ IsDocWideScope(proof)
  \/ /\ \/ delegated.root = proof.root
        \/ /\ proof.maxDepth = {}
           /\ ScopeEvaluator(tree, proof, delegated.root) = "allow"
     /\ \A m \in proof.maxDepth :
          delegated.maxDepth # {} /\ \A k \in delegated.maxDepth : k <= m

WithinScope(tree, proof, delegated) ==
  \/ IsDocWideScope(proof)
  \/ /\ \/ delegated.root = proof.root
        \/ /\ proof.maxDepth = {}
           /\ ScopeEvaluator(tree, proof, delegated.root) = "allow"
     /\ \A m \in proof.maxDepth :
          delegated.maxDepth # {} /\ \A k \in delegated.maxDepth : k <= m
     /\ proof.exclude \subseteq delegated.exclude

(* The first capability of the proof that may grant the actions decides:  *)
(* when the delegated scope is outside it, the code throws and does not   *)
(* try the next one.                                                      *)
AssertDelegatedGrantWithinProof(tree, proof, delegated) ==
  /\ WithinTime(proof, delegated)
  /\ \A i \in DOMAIN delegated.caps :
       LET d == delegated.caps[i]
           fit == {j \in DOMAIN proof.caps :
                     /\ "grant" \in proof.caps[j].actions
                     /\ ExpandCapabilityActions(d.actions)
                          \subseteq ExpandCapabilityActions(proof.caps[j].actions)}
       IN fit # {} /\ WithinScope(tree, proof.caps[Min(fit)].scope, d.scope)

(* parseCapabilityGrantFromClaims: the window of the token. *)
InWindow(token, time) ==
  (\A e \in token.exp : time <= e) /\ (\A b \in token.nbf : time >= b)

(* coseVerifySign1Ed25519 *)
SignedBy(token, key) == token.signer = key

(* Verdict on the token at a place of a chain of proofs: "ok", or the     *)
(* class of the error, as far as callers tell errors apart.  The chain is *)
(* given root first; Revoked is the set of revoked tokens.                *)
Verdicts(tokens, at, tree, time, revoked, issuers) ==
  LET verdict[i \in 0 .. at] ==
        LET t == tokens[i]
        IN IF i = 0 THEN "unknown_issuer"
           ELSE IF at - i > MaxChain THEN "error"
           ELSE IF t.id \in revoked THEN "revoked"
           ELSE IF \E key \in issuers : SignedBy(t, key)
             THEN (IF InWindow(t, time) THEN "ok" ELSE "error")
           ELSE IF verdict[i - 1] # "ok" THEN verdict[i - 1]
           ELSE IF /\ SignedBy(t, tokens[i - 1].subject)
                   /\ InWindow(t, time)
                   /\ AssertDelegatedGrantWithinProof(tree, tokens[i - 1], t)
             THEN "ok" ELSE "error"
  IN verdict

ParseAndVerify(tokens, at, tree, time, revoked, issuers) ==
  Verdicts(tokens, at, tree, time, revoked, issuers)[at]

=============================================================================
