--------------------------- MODULE PlaygroundLive ---------------------------
(***************************************************************************)
(* Connections and live subscriptions of one tab of the playground         *)
(* (examples/playground/src/playground/hooks/usePlaygroundSync.ts): the    *)
(* mesh peers, the socket of the sync server, the subscriptions on both,   *)
(* manual and automatic syncs.  Every await is a point where anything else *)
(* may run, and what runs after it may belong to a set-up of the hook that *)
(* has been torn down since.  The push queue is in PlaygroundPush; here a  *)
(* failing push is the loss of a connection.  Being online is a free input *)
(* of every guard that asks for it.                                        *)
(***************************************************************************)
EXTENDS Naturals, FiniteSets

CONSTANTS
    Mesh,           \* peers of the broadcast mesh
    Remote,         \* the peer id of the sync server
    Parents,        \* parents whose children can be live
    MaxAutoAttempts,\* 3 in the code
    MaxSetUps       \* bound on set-ups of the hook

Peer == Mesh \cup {Remote}
Scope == {"all"} \cup Parents

Assumptions ==
    /\ IsFiniteSet(Mesh) /\ Remote \notin Mesh
    /\ IsFiniteSet(Parents) /\ "all" \notin Parents
    /\ MaxSetUps \in Nat

VARIABLES
    setups,     \* number of set-ups
    alive,      \* the last one is not torn down: syncPeerRef is set
    socket,     \* the remote socket of this set-up: none, resolving, connecting, open, closed
    conn,       \* peers in syncConnRef
    ready,      \* mesh peers that are ready
    wanted,     \* liveAllEnabledRef and liveChildrenParentsRef: the live scopes
    subs,       \* liveAllSubsRef, liveChildSubsRef: <<peer, scope>> -> 0 or a number
    started,    \* liveAllStartingRef, liveChildrenStartingRef
    attempts,   \* subscriptions that are not over: <<key, number>> -> [phase, stopped, current]
    job,        \* the sync that keeps syncBusy: [kind, peer, todo, setup], peer = {} if none
    auto        \* autoSyncDoneRef and autoSyncAttemptRef

live == <<subs, started, attempts>>
vars == <<setups, alive, socket, conn, ready, wanted, subs, started, attempts, job, auto>>

Key == Peer \X Scope
NoJob == [kind |-> "none", peer |-> {}, todo |-> {}, setup |-> 0]

Init ==
    /\ setups = 0 /\ alive = FALSE /\ socket = "none"
    /\ conn = {} /\ ready = {} /\ wanted = {}
    /\ subs = [k \in Key |-> 0] /\ started = {} /\ attempts = <<>>
    /\ job = NoJob
    /\ auto = [done |-> FALSE, tries |-> 0]

-----------------------------------------------------------------------------
(* Live subscriptions, as a record of the three variables. *)

Live == [subs |-> subs, started |-> started, attempts |-> attempts]
SetLive(l) == subs' = l.subs /\ started' = l.started /\ attempts' = l.attempts

Unused(as, k) == CHOOSE n \in 1..(Cardinality(DOMAIN as) + 1) : <<k, n>> \notin DOMAIN as
Without(f, S) == [i \in DOMAIN f \ S |-> f[i]]

\* sub.stop(): an attempt that has started is over; one that still starts settles later.
Stopped(as, ids) ==
    LET over == {n \in ids \cap DOMAIN as : as[n].phase = "started"}
    IN [n \in DOMAIN as \ over |-> IF n \in ids THEN [as[n] EXCEPT !.stopped = TRUE] ELSE as[n]]

\* Fault variant: the entry is deleted, the subscription itself is not stopped.
StopLiveEntryOnly(l, keys) == [l EXCEPT !.subs = [k \in Key |-> IF k \in keys THEN 0 ELSE @[k]]]
\* stopLiveAllForPeer, stopLiveChildren, stopLiveChildrenForPeer, stopAllLive*.
StopLive(l, keys) ==
    [l EXCEPT !.attempts = Stopped(@, {<<k, l.subs[k]>> : k \in keys}),
              !.subs = [k \in Key |-> IF k \in keys THEN 0 ELSE @[k]]]

\* startLiveAll and startLiveChildren, for keys on present connections: none that is registered
\* or still starts.
StartAll(l, keys) ==
    LET new == {k \in keys : l.subs[k] = 0 /\ k \notin l.started}
        number == [k \in new |-> Unused(l.attempts, k)]
        ids == {<<k, number[k]>> : k \in new}
    IN [subs |-> [k \in Key |-> IF k \in new THEN number[k] ELSE l.subs[k]],
        started |-> l.started \cup new,
        attempts |-> [n \in DOMAIN l.attempts \cup ids |->
                        IF n \notin ids THEN l.attempts[n]
                        ELSE [phase |-> "starting", stopped |-> FALSE, current |-> TRUE]]]

\* maybeStartLiveForPeer, from the onPeerReady, onPeerTransport and open handlers.
StartForPeer(p) ==
    LET ks == IF p = Remote \/ p \in ready' THEN {<<p, s>> : s \in wanted} ELSE {}
    IN SetLive(StartAll(Live, ks))

\* What losing the connections of some peers does to the subscriptions: they are stopped, and
\* the attempts on these connections are on a dead transport from now on.
Lost(l, peers) ==
    LET m == StopLive(l, peers \X Scope)
    IN [m EXCEPT !.attempts = [n \in DOMAIN @ |->
            IF n[1][1] \in peers THEN [@[n] EXCEPT !.current = FALSE] ELSE @[n]]]

\* onPeerDisconnected and dropPeerConnection, for a peer that may be gone already.
Disconnect(p) ==
    /\ conn' = conn \ {p} /\ ready' = ready \ {p}
    /\ SetLive(IF p \in conn THEN Lost(Live, {p}) ELSE Live)
    /\ socket' = IF p = Remote /\ p \in conn THEN "closed" ELSE socket

-----------------------------------------------------------------------------
(* The effect that owns the transports. *)

\* A tab opens the channel, the sync peer and, with a server url, the socket.
SetUp(url) ==
    /\ ~alive /\ setups < MaxSetUps
    /\ alive' = TRUE /\ setups' = setups + 1
    /\ socket' = IF url THEN "resolving" ELSE "none"
    /\ UNCHANGED <<conn, ready, wanted, live, job, auto>>

\* The clean-up; the queue of operations is kept, loops and attempts in flight go on.
TearDown ==
    /\ alive
    /\ alive' = FALSE /\ socket' = "none" /\ conn' = {} /\ ready' = {}
    /\ SetLive([Lost(Live, Peer) EXCEPT !.started = {}])
    /\ UNCHANGED <<setups, wanted, job, auto>>

\* resolveWebSocketAttachment answers; a failure leaves the hook without a socket.
Resolved(ok) ==
    /\ alive /\ socket = "resolving"
    /\ socket' = IF ok THEN "connecting" ELSE "none"
    /\ UNCHANGED <<setups, alive, conn, ready, wanted, live, job, auto>>

\* The open event: the transport is attached, live scopes start.
SocketOpens ==
    /\ alive /\ socket = "connecting"
    /\ socket' = "open" /\ conn' = conn \cup {Remote} /\ ready' = ready
    /\ StartForPeer(Remote)
    /\ UNCHANGED <<setups, alive, wanted, job, auto>>

\* The close event, after an error or by the server; nothing reconnects.
SocketCloses ==
    /\ alive /\ socket \in {"connecting", "open"}
    /\ conn' = conn \ {Remote} /\ ready' = ready /\ socket' = "closed"
    /\ SetLive(IF Remote \in conn THEN Lost(Live, {Remote}) ELSE Live)
    /\ UNCHANGED <<setups, alive, wanted, job, auto>>

\* onPeerTransport.
PeerTransport(p) ==
    /\ alive /\ p \in Mesh \ conn
    /\ conn' = conn \cup {p} /\ ready' = ready
    /\ StartForPeer(p)
    /\ UNCHANGED <<setups, alive, socket, wanted, job, auto>>

\* onPeerReady.
PeerReady(p) ==
    /\ alive /\ p \in (Mesh \cap conn) \ ready
    /\ ready' = ready \cup {p}
    /\ StartForPeer(p)
    /\ UNCHANGED <<setups, alive, socket, conn, wanted, job, auto>>

\* onPeerDisconnected.
PeerDisconnected(p) ==
    /\ alive /\ p \in Mesh \cap conn
    /\ Disconnect(p)
    /\ UNCHANGED <<setups, alive, wanted, job, auto>>

\* dropPeerConnection after a failing push.
PushFails ==
    /\ Remote \in conn
    /\ Disconnect(Remote)
    /\ UNCHANGED <<setups, alive, wanted, job, auto>>

-----------------------------------------------------------------------------
(* Live scopes. *)

\* The effects of liveAllEnabled and of liveChildrenParents: the scopes of the kind that
\* changed start on every connection, the ones no longer wanted stop.
Toggle(s) ==
    /\ wanted' = IF s \in wanted THEN wanted \ {s} ELSE wanted \cup {s}
    /\ LET kind == IF s = "all" THEN {"all"} ELSE Parents
       IN SetLive(StopLive(StartAll(Live, conn \X (kind \cap wanted')), Peer \X (kind \ wanted')))
    /\ UNCHANGED <<setups, alive, socket, conn, ready, job, auto>>

\* await sub.ready ends: the attempt runs, or whatever is registered for its key is stopped.
ReadySettles(n, ok) ==
    /\ n \in DOMAIN attempts /\ attempts[n].phase = "starting"
    /\ LET as == [attempts EXCEPT ![n].phase = "started"]
           l == [Live EXCEPT !.started = @ \ {n[1]}, !.attempts = as]
           m == IF ok THEN l ELSE StopLive(l, {n[1]})
       IN SetLive([m EXCEPT !.attempts =
                     Without(@, {i \in DOMAIN @ : @[i].phase = "started" /\ @[i].stopped})])
    /\ UNCHANGED <<setups, alive, socket, conn, ready, wanted, job, auto>>

\* sub.done rejects later.
SubscriptionFails(n) ==
    /\ n \in DOMAIN attempts /\ attempts[n].phase = "started"
    /\ SetLive(StopLive(Live, {n[1]}))
    /\ UNCHANGED <<setups, alive, socket, conn, ready, wanted, job, auto>>

-----------------------------------------------------------------------------
(* Manual and automatic sync. *)

\* handleSync and handleScopedSync, with the recently seen peers or all connections as targets.
StartSync(targets) ==
    /\ job = NoJob /\ alive
    /\ targets # {} /\ targets \subseteq conn
    /\ \E p \in targets :
          job' = [kind |-> "manual", peer |-> {p}, todo |-> targets \ {p}, setup |-> setups]
    /\ UNCHANGED <<setups, alive, socket, conn, ready, wanted, live, auto>>

\* The effect that syncs a joining tab once, with one connected peer, at most
\* three times.
StartAutoSync(p) ==
    /\ job = NoJob /\ ~auto.done /\ alive
    /\ p \in conn
    /\ auto.tries < MaxAutoAttempts
    /\ auto' = [auto EXCEPT !.tries = @ + 1]
    /\ job' = [kind |-> "auto", peer |-> {p}, todo |-> {}, setup |-> setups]
    /\ UNCHANGED <<setups, alive, socket, conn, ready, wanted, live>>

\* The sync with one target ends: an error drops the connection its peer has by now, unless
\* the capability is revoked.  The next target is looked up in the connections of the set-up
\* the job started in, which are gone after a tear-down.
SyncEnds(outcome) ==
    /\ \E p \in job.peer :
          IF outcome = "error" /\ p \in conn THEN Disconnect(p) ELSE UNCHANGED <<conn, ready, socket, live>>
    /\ LET left == IF alive /\ job.setup = setups THEN job.todo \cap conn' ELSE {}
       IN IF left = {} THEN job' = NoJob
          ELSE \E q \in left : job' = [job EXCEPT !.peer = {q}, !.todo = left \ {q}]
    /\ auto' = IF job.kind = "auto" /\ outcome = "ok" THEN [auto EXCEPT !.done = TRUE] ELSE auto
    /\ UNCHANGED <<setups, alive, wanted>>

Next ==
    \/ \E b \in BOOLEAN : SetUp(b) \/ Resolved(b)
    \/ TearDown \/ SocketOpens \/ SocketCloses \/ PushFails
    \/ \E p \in Mesh : PeerTransport(p) \/ PeerReady(p) \/ PeerDisconnected(p)
    \/ \E s \in Scope : Toggle(s)
    \/ \E n \in DOMAIN attempts : SubscriptionFails(n) \/ \E ok \in BOOLEAN : ReadySettles(n, ok)
    \/ \E T \in SUBSET Peer : StartSync(T)
    \/ \E p \in Peer : StartAutoSync(p)
    \/ \E o \in {"ok", "error", "revoked"} : SyncEnds(o)

Spec == Init /\ [][Next]_vars

-----------------------------------------------------------------------------
(* A subscription that nobody has stopped runs on the present connection   *)
(* of its peer, for a scope that is still live, and is registered so that  *)
(* the next disconnection or toggle finds it.  Late results of attempts of *)
(* an earlier set-up, failing syncs and toggles must all keep this.        *)
NoOrphanSubscription ==
    \A n \in DOMAIN attempts :
      ~attempts[n].stopped => /\ attempts[n].current
                              /\ n[1][1] \in conn /\ n[1][2] \in wanted
                              /\ subs[n[1]] = n[2]
=============================================================================
