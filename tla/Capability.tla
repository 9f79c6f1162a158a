----------------------------- MODULE Capability -----------------------------
(***************************************************************************)
(* Delegation of capability tokens: the issuer makes a token, its holder   *)
(* delegates, the next holder delegates again, while the local tree of the *)
(* verifier learns rows and rows move and the clock runs.                  *)
(***************************************************************************)
EXTENDS CapabilityRules

CONSTANTS
  RootCaps,     \* the lists of capabilities [scope, actions] of issued tokens
  Caps,         \* the capabilities a delegated token may carry
  Windows,      \* the validity windows [exp, nbf] that tokens may carry
  MaxTime       \* bound on the clock

Assumptions ==
  /\ NodesAssumption /\ Caps \subseteq CapType /\ RootCaps \subseteq Seq(CapType)
  /\ MaxChain \in Nat

VARIABLES
  view,    \* Nodes -> parent according to the local tree_nodes table
  chain,   \* the tokens made so far, each delegated from the one before
  now      \* the verifier's clock
vars == <<view, chain, now>>

-----------------------------------------------------------------------------
(* The state machine.  Key i signs token i, whose subject is key i + 1;   *)
(* key 1 is the issuer.                                                   *)
Token(i, caps, w) ==
  [id |-> i, signer |-> i, subject |-> i + 1, caps |-> caps, exp |-> w.exp, nbf |-> w.nbf]

Verdict(i) == ParseAndVerify(chain, i, view, now, {}, {1})

Init ==
  /\ view = [n \in Nodes |-> Missing]
  /\ chain = <<>>
  /\ now = 0

(* issueTreecrdtCapabilityTokenV1 makes a token with one capability; the   *)
(* verifier accepts a list of them.                                        *)
IssueToken(caps, w) ==
  /\ chain = <<>>
  /\ chain' = <<Token(1, caps, w)>>
  /\ UNCHANGED <<view, now>>

(* issueTreecrdtDelegatedCapabilityTokenV1 by the holder of the last token. *)
DelegateToken(cap, w) ==
  /\ Len(chain) \in 1 .. MaxChain + 1
  /\ Verdict(Len(chain)) = "ok"
  /\ chain' = Append(chain, Token(Len(chain) + 1, <<cap>>, w))
  /\ UNCHANGED <<view, now>>

(* The local tree gets the row of a node it did not know. *)
LearnRow(n, p) ==
  /\ view[n] = Missing
  /\ view' = [view EXCEPT ![n] = p]
  /\ UNCHANGED <<chain, now>>

(* An operation moves a node whose row is known. *)
MoveRow(n, p) ==
  /\ view[n] # Missing /\ view[n] # p
  /\ view' = [view EXCEPT ![n] = p]
  /\ UNCHANGED <<chain, now>>

Tick ==
  /\ now < MaxTime
  /\ now' = now + 1
  /\ UNCHANGED <<view, chain>>

Next ==
  \/ \E cs \in RootCaps, w \in Windows : IssueToken(cs, w)
  \/ \E c \in Caps, w \in Windows : DelegateToken(c, w)
  \/ \E n \in Nodes, p \in AnyNode \cup {Null} :
       p # n /\ (LearnRow(n, p) \/ MoveRow(n, p))
  \/ Tick

-----------------------------------------------------------------------------
(* What a token allows in the present tree. *)
Rights(t) ==
  {r \in AnyNode \X Actions : CapsAllowsNodeAccess(view, t.caps, r[1], {r[2]}) = "allow"}

(* Attenuation: in whatever tree a chain of delegated tokens verifies, the *)
(* last token allows no action on any node that a token before it does     *)
(* not allow, and is accepted at no time at which one before it is not.    *)
(* This is what assertDelegatedGrantWithinProof compares root, depth,      *)
(* exclude list, actions and window for, without looking at the nodes.     *)
DelegationAttenuates ==
  \A i \in DOMAIN chain :
    Verdict(i) = "ok" =>
      \A j \in 1 .. i - 1 :
        Rights(chain[i]) \subseteq Rights(chain[j]) /\ InWindow(chain[j], now)

(* A row the tree did not have can only decide an open question: a scope   *)
(* check that answered allow or deny gives the same answer after the row   *)
(* is learned.  Operations are applied on "allow" and refused for good on  *)
(* "deny" although the tree may be incomplete (capsAllowsOp).              *)
LearningOnlyDecides ==
  [][\A c \in Caps, n \in AnyNode :
       (\A m \in Nodes : view[m] # Missing => view'[m] = view[m])
         => LET before == ScopeEvaluator(view, c.scope, n)
            IN before # "unknown" => ScopeEvaluator(view', c.scope, n) = before]_vars

=============================================================================
