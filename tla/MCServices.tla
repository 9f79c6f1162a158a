----------------------------- MODULE MCServices -----------------------------
(***************************************************************************)
(* The services around the protocol, side by side: the sync server, the    *)
(* gate in front of it, discovery, the presence mesh and the client of the *)
(* SQLite worker.  They share no state; a behaviour belongs to one part,   *)
(* chosen at the start, and the variables of the others stay as they are.  *)
(* Their parameters stay constants of this module, so that                 *)
(* MCServicesProofs speaks of every instance of them.                      *)
(***************************************************************************)
EXTENDS Naturals, FiniteSets, Sequences

CONSTANTS Parts, None,
          Proc, Conn, At, Op, MaxCtx, IdleZero,                 \* of the server
          Addr, Doc, Request, MaxUpgrades, Window, GateTime,    \* of the gate
          Ask, Blank, Plan, Call, MaxLatency, RouteTime,        \* of discovery
          MaxCalls, MayFail,                                    \* of the worker client
          Peer, PruneEvery, Timeout, MaxDelay, MaxFaults,       \* of the mesh
          P1, P2, c1

VARIABLES part,
          docs, opening, ctx, conn, peers, phase, job, stored, bus, lost, told,
          now, buckets, pruned, req, known, admitted,
          clock, cache, call, result,
          up, online, seen, conns, ready, inbox, sent, prune, calm, faults,
          client, calls, requests, running, replies, db, opened, disk, memory, dropped

server == <<docs, opening, ctx, conn, peers, phase, job, stored, bus, lost, told>>
gate == <<now, buckets, pruned, req, known, admitted>>
routes == <<clock, cache, call, result>>
mesh == <<up, online, seen, conns, ready, inbox, sent, prune, calm, faults>>
wa == <<client, calls, requests, running, replies, db, opened, disk, memory, dropped>>

Server == INSTANCE SyncServer
Gate == INSTANCE UpgradeGate WITH MaxTime <- GateTime
Routes == INSTANCE Discovery WITH now <- clock, MaxTime <- RouteTime

Mesh == INSTANCE Presence
Wa == INSTANCE WaClient WITH stored <- opened

\* Two processes, the second with two connections.
Hosts == [c \in Conn |-> IF c = c1 THEN P1 ELSE P2]

Url(scheme, host, path) == [scheme |-> scheme, host |-> host, path |-> path]
Attach(protocol, role, url) == [protocol |-> protocol, role |-> role, url |-> url]

\* The same endpoint written in two ways, two documents, and a blank one.
Asks == {<<Url("https", "h", <<>>), "d1">>, <<Url("https", "h", <<>>), "d2">>,
         <<Url("", "h", <<>>), "d1">>, <<Url("https", "h", <<"x", "sync">>), "  ">>}
Plans == {[attachments |-> <<Attach("https", "bootstrap", Url("https", "b", <<>>)),
                             Attach("websocket", "", Url("wss", "one", <<>>)),
                             Attach("websocket", "preferred", Url("wss", "two", <<>>))>>,
           ttl |-> {1}],
          [attachments |-> <<Attach("websocket", "", Url("", "alt", <<>>))>>, ttl |-> {}]}

ASSUME MCServicesAssumption ==
    /\ Server!Assumptions /\ Gate!Assumptions /\ Routes!Assumptions
    /\ Mesh!Assumptions /\ Wa!Assumptions

Init ==
    /\ part \in Parts
    /\ Server!Init /\ Gate!Init /\ Routes!Init /\ Mesh!Init /\ Wa!Init

Next ==
    /\ UNCHANGED part
    /\ \/ part = "server" /\ Server!Next
          /\ UNCHANGED <<gate, routes, mesh, wa>>
       \/ part = "gate" /\ Gate!Next
          /\ UNCHANGED <<server, routes, mesh, wa>>
       \/ part = "routes" /\ Routes!Next
          /\ UNCHANGED <<server, gate, mesh, wa>>
       \/ part = "mesh" /\ Mesh!Next
          /\ UNCHANGED <<server, gate, routes, wa>>
       \/ part = "wa" /\ Wa!Next
          /\ UNCHANGED <<server, gate, routes, mesh>>

Spec == Init /\ [][Next]_<<part, server, gate, routes, mesh, wa>>

-----------------------------------------------------------------------------
(* The properties of the parts. *)

\* createDocumentStore: backends stay open exactly while connections use them.
BackendsFollowConnections == part = "server" => Server!BackendsFollowConnections

\* onOpsApplied and the Postgres bus: every connected peer hears of a stored operation.
StoredIsAnnounced == part = "server" => Server!StoredIsAnnounced

\* createRateLimiter: the windows and their pruning bound the upgrades of an address.
RateIsBounded == part = "gate" => Gate!RateIsBounded

\* resolveWebSocketAttachment: concurrent calls never use an expired or a foreign route.
RoutesAreCurrent == part = "routes" => Routes!RoutesAreCurrent

\* createBroadcastPresenceMesh: peers that stay online become and remain ready.
NeighboursAreReady == part = "mesh" => Mesh!NeighboursAreReady

\* The worker client: no promise of a call is left behind by a close or a crash, and an
\* acknowledged append is in the file.
CallsAreAnswered == part = "wa" => Wa!EveryCallSettles /\ Wa!AcknowledgedIsStored
=============================================================================
