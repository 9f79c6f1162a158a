----------------------------- MODULE Discovery ------------------------------
(***************************************************************************)
(* Finding the sync server of a document: resolveWebSocketAttachment and   *)
(* its route cache (packages/discovery/src/client.ts) against discovery    *)
(* servers (packages/discovery-server-node/src/server.ts).  Several calls  *)
(* share one store and interleave at every await; an answer takes at most  *)
(* MaxLatency ticks.                                                       *)
(***************************************************************************)
EXTENDS Naturals, FiniteSets, Sequences, SequencesExt

CONSTANTS
    Ask,            \* what calls ask for: <<endpoint, document id>>, the endpoint as the user
                    \* configured it, [scheme, host, path]; path = <<>> is "/"
    Blank,          \* a document id of blanks, which the server refuses
    Plan,           \* plans a resolve handler answers with: [attachments, ttl]
    Call,           \* concurrent calls
    MaxLatency,     \* bound on the time between an answer and its arrival
    MaxTime         \* bound on the clock

\* A URL the code can read; "ftp" stands for every other scheme.
IsEndpoint(e) ==
    /\ e = [scheme |-> e.scheme, host |-> e.host, path |-> e.path]
    /\ e.scheme \in {"", "ws", "wss", "http", "https", "ftp"}

Assumptions ==
    /\ \A a \in Ask : IsEndpoint(a[1])
    /\ \A m \in Plan :
          /\ m.ttl \subseteq Nat /\ \A t, u \in m.ttl : t = u
          /\ \A i \in DOMAIN m.attachments : i \in Nat /\ IsEndpoint(m.attachments[i].url)
    /\ MaxLatency \in Nat /\ MaxTime \in Nat

VARIABLES
    now,        \* Date.now()
    cache,      \* the route cache: key -> {[resolvedAt, response]}, {} if unreadable
    call,       \* per call: where it is, what it was asked and what it has
    result      \* what the last call to return gave, and when: a set of at most one record

vars == <<now, cache, call, result>>

Idle == [at |-> "idle"]
Init == now = 0 /\ cache = <<>> /\ call = [c \in Call |-> Idle] /\ result = {}

-----------------------------------------------------------------------------
(* Endpoints. *)

\* normalizeBaseUrl.
Based(e, scheme) == IF e.scheme = "" THEN [e EXCEPT !.scheme = scheme] ELSE e
IsSync(path) == path # <<>> /\ Last(path) = "sync"

\* normalizeDiscoveryBaseUrl; an endpoint it throws for is not a base.
IsDiscoveryBase(e) == Based(e, "https").scheme # "ftp"
DiscoveryBase(e) ==
    LET b == Based(e, "https") IN
    [scheme |-> CASE b.scheme = "ws" -> "http" [] b.scheme = "wss" -> "https" [] OTHER -> b.scheme,
     host |-> b.host,
     path |-> IF IsSync(b.path) THEN Front(b.path) ELSE b.path]

\* normalizeDirectSyncWebSocketUrl.
IsSyncUrl(e) == Based(e, "ws").scheme # "ftp"
DirectUrl(e, doc) ==
    LET b == Based(e, "ws") IN
    [scheme |-> CASE b.scheme = "http" -> "ws" [] b.scheme = "https" -> "wss" [] OTHER -> b.scheme,
     host |-> b.host, path |-> IF b.path = <<>> THEN <<"sync">> ELSE b.path, doc |-> doc]

\* isDiscoveryBootstrapUrl.
IsBootstrap(e) == Based(e, "ws").scheme \in {"http", "https"} /\ e.path # <<"sync">>

\* createDiscoveryCacheKey.
CacheKey(e, doc) == <<DiscoveryBase(e), doc>>

-----------------------------------------------------------------------------
(* Routes. *)

\* Fault variant: a route is used until the end of the tick it expires in, and longer.
FreshTooLong(entry) == entry.response.ttl = {} \/ \E t \in entry.response.ttl : entry.resolvedAt + t + 1 > now
\* isCachedResolvedDocFresh.
IsFresh(entry) == entry.response.ttl = {} \/ \E t \in entry.response.ttl : entry.resolvedAt + t > now

Cached(k) == IF k \in DOMAIN cache THEN cache[k] ELSE {}

\* pickWebSocketAttachment: the preferred websocket, else any websocket.
WebSockets(plan) == {i \in DOMAIN plan.attachments : plan.attachments[i].protocol = "websocket"}
Preferred(plan) == {i \in WebSockets(plan) : plan.attachments[i].role = "preferred"}
First(is) == {i \in is : \A j \in is : i <= j}
Picked(plan) ==
    {plan.attachments[i] : i \in First(IF Preferred(plan) # {} THEN Preferred(plan) ELSE WebSockets(plan))}

\* The end of a call: the websocket URL of the route, or an error.
Returned(c, response, source) ==
    /\ call' = [call EXCEPT ![c] = Idle]
    /\ result' =
         {[endpoint |-> call[c].endpoint, doc |-> call[c].doc, source |-> source, at |-> now,
           response |-> response, url |-> DirectUrl(a.url, call[c].doc)] :
             a \in {b \in Picked(response) : IsSyncUrl(b.url)}}

Start(c, e, d, force) ==
    /\ call[c] = Idle
    /\ IF ~IsBootstrap(e)
       THEN /\ result' = IF IsSyncUrl(e)
                         THEN {[endpoint |-> e, doc |-> d, source |-> "direct", at |-> now,
                                url |-> DirectUrl(e, d)]}
                         ELSE {}
            /\ UNCHANGED call
       ELSE /\ call' = [call EXCEPT ![c] =
                          [at |-> IF force THEN "ask" ELSE "lookup", endpoint |-> e, doc |-> d]]
            /\ UNCHANGED result
    /\ UNCHANGED <<now, cache>>

\* resolveDocWithCache: a fresh entry answers, an unreadable one is removed.
Lookup(c) ==
    LET k == CacheKey(call[c].endpoint, call[c].doc) IN
    /\ call[c].at = "lookup"
    /\ \/ /\ \E entry \in Cached(k) : IsFresh(entry) /\ Returned(c, entry.response, "cache")
          /\ UNCHANGED cache
       \/ /\ \A entry \in Cached(k) : ~IsFresh(entry)
          /\ cache' = IF k \in DOMAIN cache /\ Cached(k) = {}
                      THEN [j \in DOMAIN cache \ {k} |-> cache[j]] ELSE cache
          /\ call' = [call EXCEPT ![c].at = "ask"]
          /\ UNCHANGED result
    /\ UNCHANGED now

\* The request reaches the server of the base, which answers with one of its plans, or
\* fails (no connection, a handler that throws, a blank document id).
Answer(c) ==
    /\ call[c].at = "ask"
    /\ \/ /\ call[c].doc # Blank
          /\ \E m \in Plan :
                call' = [call EXCEPT ![c] =
                  [at |-> "answered", endpoint |-> @.endpoint, doc |-> @.doc,
                   response |-> [attachments |-> m.attachments, ttl |-> m.ttl, docId |-> @.doc,
                                 by |-> DiscoveryBase(@.endpoint), issued |-> now]]]
       \/ call' = [call EXCEPT ![c] = Idle]
    /\ UNCHANGED <<now, cache, result>>

\* The answer is stored under the time of its arrival and returned.
Arrive(c) ==
    LET k == CacheKey(call[c].endpoint, call[c].doc)
        entry == {[resolvedAt |-> now, response |-> call[c].response]}
    IN
    /\ call[c].at = "answered"
    /\ cache' = [j \in DOMAIN cache \cup {k} |-> IF j = k THEN entry ELSE cache[j]]
    /\ Returned(c, call[c].response, "network")
    /\ UNCHANGED now

\* Something else writes to the string store.
Garble(k) ==
    /\ cache[k] # {}
    /\ cache' = [cache EXCEPT ![k] = {}]
    /\ UNCHANGED <<now, call, result>>

\* The socket of a cached route fails before it opens: the caller deletes the route.
Forget(k) ==
    /\ cache' = [j \in DOMAIN cache \ {k} |-> cache[j]]
    /\ UNCHANGED <<now, call, result>>

Tick ==
    /\ now < MaxTime
    /\ \A c \in Call : call[c].at = "answered" => now < call[c].response.issued + MaxLatency
    /\ now' = now + 1
    /\ UNCHANGED <<cache, call, result>>

Next ==
    \/ \E c \in Call :
          \/ \E a \in Ask, force \in BOOLEAN : Start(c, a[1], a[2], force)
          \/ Lookup(c) \/ Answer(c) \/ Arrive(c)
    \/ \E k \in DOMAIN cache : Garble(k) \/ Forget(k)
    \/ Tick

Spec == Init /\ [][Next]_vars

-----------------------------------------------------------------------------
(* A route a client connects to was given for its document, by the server  *)
(* its endpoint names, less than its time to live and one answer ago: the  *)
(* cache, which several calls fill and read concurrently, never prolongs   *)
(* or mixes up routes.                                                     *)
RoutesAreCurrent ==
    \A r \in result :
      /\ r.url.doc = r.doc /\ r.url.scheme \in {"ws", "wss"} /\ r.url.path # <<>>
      /\ r.source # "direct" =>
            /\ r.response.docId = r.doc /\ r.response.by = DiscoveryBase(r.endpoint)
            /\ \A t \in r.response.ttl :
                  r.at - r.response.issued < (IF r.source = "cache" THEN t + MaxLatency ELSE MaxLatency + 1)
=============================================================================
