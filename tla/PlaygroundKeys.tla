--------------------------- MODULE PlaygroundKeys ---------------------------
(***************************************************************************)
(* The keys of one document in the tabs of one browser profile:            *)
(* examples/playground/src/auth.ts over the sealed blobs of                *)
(* packages/treecrdt-crypto, used by hooks/usePlaygroundAuth.ts and        *)
(* App.tsx.  localStorage is shared by the tabs, sessionStorage is not.    *)
(* What the tabs run are threads; a thread is a list of instructions, one  *)
(* for the code between two awaits.  Locks are Web Locks.  A key made by a *)
(* thread is named by the thread, the keys of an invite are "inv".         *)
(***************************************************************************)
EXTENDS Naturals, FiniteSets, Sequences, FiniteSetsExt

CONSTANTS
    Thread,
    TabOf,          \* thread -> tab
    Prog,           \* thread -> name of its program
    Program         \* name -> instructions, as in KeyPrograms

VARIABLES
    store,      \* localStorage: wrap key, public issuer key, and sealed blobs; {} if absent
    local,      \* sessionStorage: tab -> sealed local identity
    lock,       \* lock -> the thread that holds it
    th,         \* thread -> pc and what it holds
    payloads,   \* keys that encrypted a payload of the document
    misread     \* threads that found a payload they could not decrypt

vars == <<store, local, lock, th, payloads, misread>>

Tabs == {TabOf[t] : t \in Thread}
Assumptions == \A t \in Thread : Prog[t] \in {"mount", "init", "invite", "link", "chain"}

-----------------------------------------------------------------------------
(* Sealed blobs: AES-GCM under the wrap key, the kind and the document as  *)
(* additional data.  Opening gives the secret or fails.                    *)

Seal(w, kind, secret) == {[wrap |-> k, aad |-> kind, secret |-> secret] : k \in w}
Open(w, kind, blob) == {b.secret : b \in {x \in blob : x.wrap \in w /\ x.aad = kind}}

\* The public key of a secret key has its name.
Pk(sk) == sk

-----------------------------------------------------------------------------
(* Threads. *)

Material == [pk |-> {}, sk |-> {}, key |-> {}, tokens |-> {}]
Init ==
    /\ store = [wrap |-> {}, payload |-> {}, identity |-> {}, issuer |-> {}, pk |-> {}]
    /\ local = [b \in Tabs |-> {}]
    /\ lock = [s \in {"payload", "identity", "issuer"} |-> {}]
    /\ th = [t \in Thread |-> [pc |-> 1, w |-> {}, sk |-> {}, blob |-> {}, key |-> {}, sealing |-> FALSE,
                               mat |-> Material, first |-> Material]]
    /\ payloads = {} /\ misread = {}

Holds(r, c) ==
    CASE c = "missing"  -> r.blob = {}
      [] c = "sealed"   -> r.sk # {}
      [] c = "hasLocal" -> r.blob # {}
      [] c = "sealing"  -> r.sealing
      [] c = "noIssuer" -> r.mat.pk = {} /\ r.mat.sk = {}
      [] c = "hasSk"    -> r.mat.sk # {}
      [] c = "noLocal"  -> r.first.key = {}
      [] c = "noTokens" -> r.first.tokens = {} /\ r.first.sk # {}

-----------------------------------------------------------------------------
(* Steps. *)

\* The thread goes on after its instruction, holding r.
Goes(t, r) ==
    LET p == Program[Prog[t]]
        next == {i \in (r.pc + 1)..Len(p) : \A c \in p[i].when : Holds(r, c)}
    IN th' = [th EXCEPT ![t] = [r EXCEPT !.pc = IF next = {} THEN Len(p) + 1 ELSE Min(next)]]

\* An exception ends the thread and releases its locks.
Fails(t) ==
    /\ th' = [th EXCEPT ![t].pc = 0]
    /\ lock' = [s \in DOMAIN lock |-> lock[s] \ {t}]
    /\ UNCHANGED <<store, local, payloads, misread>>

Does(t, do) ==
    LET p == Program[Prog[t]] IN th[t].pc \in DOMAIN p /\ p[th[t].pc].do = do
On(t) == Program[Prog[t]][th[t].pc].on

\* Fault variant: the lock is not waited for.
LockAtOnce(t) ==
    /\ Does(t, "lock")
    /\ lock' = [lock EXCEPT ![On(t)] = {t}]
    /\ Goes(t, [th[t] EXCEPT !.first = IF On(t) = "issuer" THEN th[t].mat ELSE @])
    /\ UNCHANGED <<store, local, payloads, misread>>
\* withGlobalLock and locks.request; the effect keeps what it loaded before.
Lock(t) ==
    /\ Does(t, "lock") /\ lock[On(t)] = {}
    /\ lock' = [lock EXCEPT ![On(t)] = {t}]
    /\ Goes(t, [th[t] EXCEPT !.first = IF On(t) = "issuer" THEN th[t].mat ELSE @])
    /\ UNCHANGED <<store, local, payloads, misread>>

Unlock(t) ==
    /\ Does(t, "unlock")
    /\ lock' = [lock EXCEPT ![On(t)] = {}]
    /\ Goes(t, [th[t] EXCEPT !.first.sk = IF On(t) = "issuer" THEN th[t].mat.sk ELSE @])
    /\ UNCHANGED <<store, local, payloads, misread>>

\* requireDeviceWrapKeyBytes: the lock's callback awaits nothing.
RequireWrapKey(t) ==
    /\ Does(t, "wrap")
    /\ store' = [store EXCEPT !.wrap = IF @ = {} THEN {t} ELSE @]
    /\ Goes(t, [th[t] EXCEPT !.w = store'.wrap])
    /\ UNCHANGED <<local, lock, payloads, misread>>

Look(t) ==
    /\ Does(t, "look")
    /\ Goes(t, [th[t] EXCEPT !.blob = store[On(t)]])
    /\ UNCHANGED <<store, local, lock, payloads, misread>>

\* The key is generated, sealed and stored; the store is read again.
Create(t) ==
    /\ Does(t, "create")
    /\ store' = [store EXCEPT ![On(t)] = Seal(th[t].w, On(t), t)]
    /\ Goes(t, [th[t] EXCEPT !.blob = store'[On(t)]])
    /\ UNCHANGED <<local, lock, payloads, misread>>

\* The payload key of an invite.
Put(t) ==
    /\ Does(t, "put")
    /\ store' = [store EXCEPT ![On(t)] = Seal(th[t].w, On(t), "inv")]
    /\ Goes(t, th[t])
    /\ UNCHANGED <<local, lock, payloads, misread>>

OpenKey(t) ==
    /\ Does(t, "open")
    /\ LET k == Open(th[t].w, On(t), th[t].blob)
       IN IF k = {} THEN Fails(t)
          ELSE Goes(t, [th[t] EXCEPT !.key = k]) /\ UNCHANGED <<store, local, lock, payloads, misread>>

\* loadAuthMaterial reads the issuer; without a sealed key it goes on to the local identity.
\* readLocalIdentityOrNull reads only the latter.
Read(t) ==
    /\ Does(t, "read")
    /\ LET issuer == IF On(t) = "issuer" THEN store.issuer ELSE {}
           m == IF On(t) = "issuer" THEN [Material EXCEPT !.pk = store.pk]
                ELSE [th[t].mat EXCEPT !.key = {}, !.tokens = {}]
       IN Goes(t, [th[t] EXCEPT !.sk = issuer, !.mat = m,
                                !.blob = IF issuer = {} THEN local[TabOf[t]] ELSE {}])
    /\ UNCHANGED <<store, local, lock, payloads, misread>>

\* The public key is repaired from the secret key; then the local identity is read.
OpenIssuer(t) ==
    /\ Does(t, "openIssuer")
    /\ LET sk == Open(th[t].w, "issuer", th[t].sk)
           pk == {Pk(k) : k \in sk}
       IN IF sk = {} THEN Fails(t)
          ELSE /\ store' = [store EXCEPT !.pk = IF th[t].mat.pk = pk THEN @ ELSE pk]
               /\ Goes(t, [th[t] EXCEPT !.mat.sk = sk, !.mat.pk = pk, !.blob = local[TabOf[t]]])
               /\ UNCHANGED <<local, lock, payloads, misread>>

OpenLocal(t) ==
    /\ Does(t, "openLocal")
    /\ LET id == Open(th[t].w, "local", th[t].blob)
       IN IF id = {} THEN Fails(t)
          ELSE /\ Goes(t, [th[t] EXCEPT !.mat.key = {x.key : x \in id},
                                        !.mat.tokens = UNION {x.tokens : x \in id}])
               /\ UNCHANGED <<store, local, lock, payloads, misread>>

\* saveIssuerKeys: a secret key is only sealed if none is stored by now.
IssuerPk(t) == CASE On(t) = "made" -> {t} [] On(t) = "invite" -> {"inv"} [] On(t) = "stored" -> th[t].mat.sk
WithPk(t, s) == [s EXCEPT !.pk = IF On(t) = "stored" \/ @ = {} THEN IssuerPk(t) ELSE @]
Check(t) ==
    /\ Does(t, "check")
    /\ LET sealing == On(t) # "invite" /\ store.issuer = {}
       IN /\ store' = IF sealing THEN store ELSE WithPk(t, store)
          /\ Goes(t, [th[t] EXCEPT !.sealing = sealing])
    /\ UNCHANGED <<local, lock, payloads, misread>>

\* ... and stored after two awaits.
PutIssuer(t) ==
    /\ Does(t, "putIssuer")
    /\ LET sk == CHOOSE k \in IssuerPk(t) : TRUE
       IN store' = WithPk(t, [store EXCEPT !.issuer = Seal(th[t].w, "issuer", sk)])
    /\ Goes(t, [th[t] EXCEPT !.sealing = FALSE])
    /\ UNCHANGED <<local, lock, payloads, misread>>

\* writeLocalIdentity with the part that is saved and the other part as it was read.
PutLocal(t) ==
    /\ Does(t, "putLocal")
    /\ LET old == th[t].mat
           key == CASE On(t) = "madeKey" -> {t} [] On(t) = "invitedKey" -> {"inv"} [] OTHER -> old.key
           tokens == CASE On(t) = "invitedToken" -> {"inv"}
                       [] On(t) = "ownToken" -> IF th[t].first.key = {} THEN {t} ELSE th[t].first.key
                       [] OTHER -> old.tokens
       IN IF key = {} THEN Fails(t)
          ELSE /\ local' = [local EXCEPT ![TabOf[t]] =
                     Seal(th[t].w, "local", [key |-> CHOOSE k \in key : TRUE, tokens |-> tokens])]
               /\ Goes(t, th[t])
               /\ UNCHANGED <<store, lock, payloads, misread>>

\* encryptTreecrdtPayloadV1 and maybeDecryptTreecrdtPayloadV1 with the key the tab holds.
Encrypt(t) ==
    /\ Does(t, "encrypt")
    /\ payloads' = payloads \cup th[t].key
    /\ Goes(t, th[t])
    /\ UNCHANGED <<store, local, lock, misread>>
Decrypt(t) ==
    /\ Does(t, "decrypt")
    /\ misread' = IF payloads \subseteq th[t].key THEN misread ELSE misread \cup {t}
    /\ Goes(t, th[t])
    /\ UNCHANGED <<store, local, lock, payloads>>

Step(t) ==
    \/ Lock(t) \/ Unlock(t) \/ RequireWrapKey(t) \/ Look(t) \/ Create(t) \/ Put(t) \/ OpenKey(t)
    \/ Read(t) \/ OpenIssuer(t) \/ OpenLocal(t) \/ Check(t) \/ PutIssuer(t) \/ PutLocal(t)
    \/ Encrypt(t) \/ Decrypt(t)
Next == \E t \in Thread : Step(t)
Spec == Init /\ [][Next]_vars

-----------------------------------------------------------------------------
(* However the tabs of a profile start at the same time, they end up with  *)
(* one set of keys: no sealed blob fails to open, a payload one tab writes *)
(* can be read by the others, every tab holds the issuer that is stored,   *)
(* and its tokens are for its own key.  Importing an invite meanwhile may  *)
(* replace keys, so this is said of tabs that import none.                 *)
TabsShareKeys ==
    (\A t \in Thread : Prog[t] # "invite") =>
      /\ \A t \in Thread : th[t].pc # 0
      /\ misread = {}
      /\ \A t, u \in Thread : th[t].first.sk # {} /\ th[u].first.sk # {} => th[t].first.sk = th[u].first.sk
      /\ \A b \in Tabs : \A x \in local[b] : x.secret.tokens \subseteq {x.secret.key}

(* saveIssuerKeys says that it avoids clobbering issuer keys when several  *)
(* tabs initialize concurrently: a stored issuer key is never replaced.    *)
IssuerIsNotClobbered ==
    [][store.issuer # {} => store'.issuer = store.issuer]_vars
=============================================================================
