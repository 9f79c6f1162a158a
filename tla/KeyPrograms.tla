---------------------------- MODULE KeyPrograms -----------------------------
(***************************************************************************)
(* What the tabs of PlaygroundKeys run: the asynchronous functions of      *)
(* examples/playground/src/auth.ts and of hooks/usePlaygroundAuth.ts as    *)
(* lists of instructions.  An instruction is executed if its conditions    *)
(* hold of what the thread holds, and skipped otherwise.                   *)
(***************************************************************************)
EXTENDS Sequences

I(do, on) == [do |-> do, on |-> on, when |-> {}]
When(c, is) == [i \in DOMAIN is |-> [is[i] EXCEPT !.when = @ \cup {c}]]

\* loadOrCreateDocPayloadKeyB64.
LoadPayloadKey ==
    <<I("lock", "payload"), I("wrap", ""), I("look", "payload")>>
    \o When("missing", <<I("create", "payload")>>)
    \o <<I("open", "payload"), I("unlock", "payload")>>
\* saveDocPayloadKeyB64.
SavePayloadKey == <<I("wrap", ""), I("put", "payload")>>
\* loadOrCreateGlobalIssuerLikeKeyPairBytes.
LoadIdentity ==
    <<I("wrap", ""), I("lock", "identity"), I("look", "identity")>>
    \o When("missing", <<I("create", "identity")>>)
    \o <<I("unlock", "identity"), I("look", "identity"), I("open", "identity")>>
\* loadAuthMaterial.
LoadAuthMaterial ==
    <<I("wrap", ""), I("read", "issuer")>> \o When("sealed", <<I("openIssuer", "")>>)
    \o When("hasLocal", <<I("openLocal", "")>>)
\* saveIssuerKeys: of a key the thread makes, of an invite (public only), of what is stored.
SaveIssuerKeys(src) ==
    <<I("check", src)>> \o When("sealing", <<I("wrap", ""), I("putIssuer", src)>>)
\* readLocalIdentityOrNull and writeLocalIdentity, for saveLocalKeys and saveLocalTokens.
SaveLocal(what) ==
    <<I("wrap", ""), I("read", "local")>> \o When("hasLocal", <<I("openLocal", "")>>)
    \o <<I("wrap", ""), I("putLocal", what)>>

\* The initialization effect of usePlaygroundAuth, with authorization on.
InitEffect ==
    LoadAuthMaterial \o <<I("lock", "issuer")>>
    \o LoadAuthMaterial \o When("noIssuer", SaveIssuerKeys("made"))
    \o LoadAuthMaterial \o When("hasSk", SaveIssuerKeys("stored"))
    \o LoadAuthMaterial \o <<I("unlock", "issuer")>>
    \o When("noLocal", SaveLocal("madeKey"))
    \o When("noTokens", SaveLocal("ownToken"))
    \o LoadAuthMaterial

Program ==
    [mount  |-> LoadPayloadKey \o <<I("encrypt", ""), I("decrypt", "")>>,
     init   |-> InitEffect,
     invite |-> SavePayloadKey \o LoadPayloadKey \o SaveIssuerKeys("invite")
                \o SaveLocal("invitedKey") \o SaveLocal("invitedToken") \o LoadAuthMaterial,
     link   |-> LoadAuthMaterial \o When("noIssuer", SaveIssuerKeys("made")) \o LoadAuthMaterial,
     chain  |-> LoadIdentity]
=============================================================================
