---------------------------- MODULE UpgradeGate -----------------------------
(***************************************************************************)
(* The way from an HTTP upgrade request to a websocket connection: the     *)
(* three hook stages of packages/sync/server/core/src/server.ts with the   *)
(* built-in hooks of packages/sync/server/postgres-node/src/server.ts (the *)
(* per-address rate limit, the token check, the known-document check), and *)
(* a hook of the embedder behind each of them.                             *)
(***************************************************************************)
EXTENDS Naturals, FiniteSets

CONSTANTS
    Addr,           \* remote addresses ("unknown" is one of them)
    Doc,            \* documents
    Request,        \* upgrade requests
    MaxUpgrades,    \* rateLimitMaxUpgrades
    Window,         \* rateLimitWindowMs, in ticks of the clock
    MaxTime         \* bound on the clock

Assumptions == MaxUpgrades \in Nat \ {0} /\ Window \in Nat \ {0} /\ MaxTime \in Nat

VARIABLES
    now,        \* Date.now()
    buckets,    \* per address the bucket: {} or {[startedAt, count]}
    pruned,     \* lastPrunedAt
    req,        \* per request: the stage it waits for, its address, document and token
    known,      \* documents with a row in treecrdt_meta
    admitted    \* history: <<address, time, request>> let through by the rate limit

vars == <<now, buckets, pruned, req, known, admitted>>

Init ==
    /\ now = 0 /\ pruned = 0
    /\ buckets = [a \in Addr |-> {}]
    /\ req = [r \in Request |-> [stage |-> "none"]]
    /\ known = {} /\ admitted = {}

\* A stage answers allow, or deny; a hook that throws denies.
Answers == {"allow", "deny", "throw"}
\* runUpgradeHook and normalizeHookDecision.
Allows(answer) == answer = "allow"
\* combineUpgradeHooks: the first denial counts, a throw of any hook is a denial.
Combined(first, second) == IF Allows(first) THEN second ELSE first

\* The upgrade event: the path and the document id are checked at once.
Arrive(r, a, d, token) ==
    /\ req[r].stage = "none"
    /\ req' = [req EXCEPT ![r] = [stage |-> "rate_limit", addr |-> a, doc |-> d, token |-> token]]
    /\ UNCHANGED <<now, buckets, pruned, known, admitted>>

\* Fault variant: pruning drops the buckets that still count.
PrunedEarly == [a \in Addr |-> {b \in buckets[a] : b.startedAt > now}]
\* Buckets older than the window are dropped, at most once per window.
Pruned ==
    IF (\E a \in Addr : buckets[a] # {}) /\ now - pruned >= Window
    THEN [a \in Addr |-> {b \in buckets[a] : b.startedAt + Window > now}]
    ELSE buckets
PrunedAt ==
    IF (\E a \in Addr : buckets[a] # {}) /\ now - pruned >= Window THEN now ELSE pruned

\* A bucket that counts at this moment.
Counting(bs) == {b \in bs : now - b.startedAt < Window}

\* createIpRateLimitHook, then the hook of the embedder.
RateLimit(r) ==
    /\ req[r].stage = "rate_limit"
    /\ LET a == req[r].addr
           cur == Counting(Pruned[a])
           b == IF cur = {} THEN [startedAt |-> now, count |-> 1]
                ELSE LET o == CHOOSE o \in cur : TRUE IN [o EXCEPT !.count = @ + 1]
           mine == IF cur = {} \/ b.count <= MaxUpgrades THEN "allow" ELSE "deny"
       IN /\ buckets' = [Pruned EXCEPT ![a] = {b}]
          /\ pruned' = PrunedAt
          /\ admitted' = IF mine = "allow" THEN admitted \cup {<<a, now, r>>} ELSE admitted
          /\ \E theirs \in Answers :
                req' = [req EXCEPT ![r].stage =
                          IF Allows(Combined(mine, theirs)) THEN "authenticate" ELSE "denied"]
    /\ UNCHANGED <<now, known>>

\* The token of the server, or a capability token of one of its issuers for the document.
Authenticate(r) ==
    /\ req[r].stage = "authenticate"
    /\ \E theirs \in Answers :
          req' = [req EXCEPT ![r].stage =
                    IF Allows(Combined(IF req[r].token THEN "allow" ELSE "deny", theirs))
                    THEN "authorize" ELSE "denied"]
    /\ UNCHANGED <<now, buckets, pruned, known, admitted>>

\* The pattern of document ids is part of Doc; an unknown document is refused.
Authorize(r) ==
    /\ req[r].stage = "authorize"
    /\ \E theirs \in Answers :
          req' = [req EXCEPT ![r].stage =
                    IF Allows(Combined(IF req[r].doc \in known THEN "allow" ELSE "deny", theirs))
                    THEN "open" ELSE "denied"]
    /\ UNCHANGED <<now, buckets, pruned, known, admitted>>

\* Another process creates the document.
Create(d) ==
    /\ known' = known \cup {d} /\ d \notin known
    /\ UNCHANGED <<now, buckets, pruned, req, admitted>>

Tick ==
    /\ now < MaxTime /\ now' = now + 1
    /\ UNCHANGED <<buckets, pruned, req, known, admitted>>

Next ==
    \/ \E r \in Request :
          \/ \E a \in Addr, d \in Doc, token \in BOOLEAN : Arrive(r, a, d, token)
          \/ RateLimit(r) \/ Authenticate(r) \/ Authorize(r)
    \/ \E d \in Doc : Create(d)
    \/ Tick

Spec == Init /\ [][Next]_vars

-----------------------------------------------------------------------------
(* Fixed windows and the pruning of their buckets let an address pass the  *)
(* rate limit at most twice the maximum in any interval as long as the     *)
(* window, and the maximum in the window a bucket counts.                  *)
RateIsBounded ==
    \A a \in Addr, t \in 0..MaxTime :
      /\ Cardinality({e \in admitted : e[1] = a /\ e[2] \in t..(t + Window - 1)}) <= 2 * MaxUpgrades
      /\ \A b \in buckets[a] :
            Cardinality({e \in admitted : e[1] = a /\ e[2] >= b.startedAt}) <= MaxUpgrades
=============================================================================
