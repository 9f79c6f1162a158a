------------------------------ MODULE Presence ------------------------------
(***************************************************************************)
(* The presence mesh of packages/sync/protocol/src/presence.ts over a      *)
(* broadcast channel: tabs announce themselves, acknowledge each other,    *)
(* open a duplex transport to each other and prune the peers they no       *)
(* longer hear of.                                                         *)
(*                                                                         *)
(* Time is relative: a timestamp is kept as its age, in units of           *)
(* presenceIntervalMs (1 s); pruneIntervalMs is 2 and peerTimeoutMs 5 of   *)
(* them.  A message is delivered in the unit it was sent in or in the next *)
(* MaxDelay ones; every tab of a browser reads the same clock.             *)
(***************************************************************************)
EXTENDS Naturals, FiniteSets, Sequences, Functions

CONSTANTS
    Peer,
    PruneEvery,     \* pruneIntervalMs
    Timeout,        \* peerTimeoutMs
    MaxDelay,       \* bound on the delivery time of a broadcast
    MaxFaults       \* bound on the stops, disconnections and times offline

\* A broadcast is delivered before a peer that sent it can be taken for gone.
Assumptions ==
    /\ PruneEvery \in Nat \ {0} /\ MaxFaults \in Nat
    /\ Timeout \in Nat /\ MaxDelay \in Nat /\ MaxDelay < Timeout

VARIABLES
    up,         \* the peers whose mesh runs
    online,     \* isOnline() of each peer
    seen,       \* per peer lastSeen: peer -> age of the timestamp
    conns,      \* per peer the peers it has a transport to
    ready,      \* per peer peerReady
    inbox,      \* per peer the broadcasts not yet delivered, oldest first
    sent,       \* per peer: sendPresence ran in this unit
    prune,      \* per peer the units until pruneTimer runs
    calm,       \* history: units since the peer was started, went online or disconnected one
    faults      \* bound: stops, disconnections and times offline so far

vars == <<up, online, seen, conns, ready, inbox, sent, prune, calm, faults>>
mesh == <<up, online, prune, calm, faults>>

\* Long enough for an announcement, its delivery and the way back of the answer.
Handshake == 2 + 2 * MaxDelay
Capped(n, cap) == IF n < cap THEN n + 1 ELSE cap

Init ==
    /\ up = {} /\ online = [p \in Peer |-> TRUE]
    /\ seen = [p \in Peer |-> <<>>] /\ conns = [p \in Peer |-> {}]
    /\ ready = [p \in Peer |-> {}] /\ inbox = [p \in Peer |-> <<>>]
    /\ sent = [p \in Peer |-> FALSE] /\ prune = [p \in Peer |-> 0]
    /\ calm = [p \in Peer |-> 0] /\ faults = 0

-----------------------------------------------------------------------------
(* The channel delivers a message to every other mesh that listens.        *)

Posted(box, from, msg) == [p \in Peer |-> IF p \in up \ {from} THEN Append(box[p], msg) ELSE box[p]]
Announcement(p) == [t |-> "presence", from |-> p, to |-> p, age |-> 0]
Ack(p, q) == [t |-> "presence_ack", from |-> p, to |-> q, age |-> 0]

\* createBroadcastPresenceMesh: listen, announce, start the timers.
StartMesh(p) ==
    /\ p \notin up
    /\ up' = up \cup {p}
    /\ inbox' = IF online[p] THEN Posted(inbox, p, Announcement(p)) ELSE inbox
    /\ sent' = [sent EXCEPT ![p] = TRUE]
    /\ prune' = [prune EXCEPT ![p] = PruneEvery]
    /\ calm' = [calm EXCEPT ![p] = 0]
    /\ UNCHANGED <<online, seen, conns, ready, faults>>

\* The presence timer.
SendPresence(p) ==
    /\ p \in up /\ ~sent[p]
    /\ sent' = [sent EXCEPT ![p] = TRUE]
    /\ inbox' = IF online[p] THEN Posted(inbox, p, Announcement(p)) ELSE inbox
    /\ UNCHANGED <<mesh, seen, conns, ready>>

Heard(p, q, age) == seen' = [seen EXCEPT ![p] = [x \in DOMAIN @ \cup {q} |-> IF x = q THEN age ELSE @[x]]]
EnsureConnection(p, q) == conns' = [conns EXCEPT ![p] = @ \cup {q}]

\* Fault variant: a known peer is not acknowledged again.
AckOnce(p, m) == m.from \notin DOMAIN seen[p]
\* Every announcement is acknowledged: an earlier acknowledgement may have been missed.
Acks(p, m) == TRUE

\* onBroadcast.
OnPresence(p) ==
    /\ p \in up /\ inbox[p] # <<>> /\ Head(inbox[p]).t = "presence"
    /\ LET m == Head(inbox[p])
           rest == [inbox EXCEPT ![p] = Tail(@)]
       IN /\ Heard(p, m.from, m.age) /\ EnsureConnection(p, m.from)
          /\ inbox' = IF Acks(p, m) THEN Posted(rest, p, Ack(p, m.from)) ELSE rest
    /\ UNCHANGED <<mesh, ready, sent>>

OnPresenceAck(p) ==
    /\ p \in up /\ inbox[p] # <<>> /\ Head(inbox[p]).t = "presence_ack"
    /\ LET m == Head(inbox[p]) IN
          IF m.to = p
          THEN /\ Heard(p, m.from, m.age) /\ EnsureConnection(p, m.from)
               /\ ready' = [ready EXCEPT ![p] = @ \cup {m.from}]
          ELSE UNCHANGED <<seen, conns, ready>>
    /\ inbox' = [inbox EXCEPT ![p] = Tail(@)]
    /\ UNCHANGED <<mesh, sent>>

\* A message of the sync protocol over the duplex transports of both.
OnTransport(p, q) ==
    /\ {p, q} \subseteq up /\ q \in conns[p] /\ p \in conns[q] /\ online[p] /\ online[q]
    /\ Heard(p, q, 0)
    /\ UNCHANGED <<mesh, conns, ready, inbox, sent>>

-----------------------------------------------------------------------------
\* The peers dropped by p lose their transport and their readiness.
Dropped(p, gone) ==
    /\ seen' = [seen EXCEPT ![p] = Restrict(@, DOMAIN @ \ gone)]
    /\ conns' = [conns EXCEPT ![p] = @ \ gone]
    /\ ready' = [ready EXCEPT ![p] = @ \ gone]

\* The prune timer.
Prune(p) ==
    /\ p \in up /\ prune[p] = 0
    /\ prune' = [prune EXCEPT ![p] = PruneEvery]
    /\ Dropped(p, {q \in DOMAIN seen[p] : seen[p][q] > Timeout})
    /\ UNCHANGED <<up, online, inbox, sent, calm, faults>>

Disturbed(p) ==
    /\ faults < MaxFaults /\ faults' = faults + 1
    /\ calm' = [calm EXCEPT ![p] = 0]

DisconnectPeer(p, q) ==
    /\ p \in up /\ q \in DOMAIN seen[p]
    /\ Dropped(p, {q})
    /\ Disturbed(p)
    /\ UNCHANGED <<up, online, inbox, sent, prune>>

StopMesh(p) ==
    /\ p \in up
    /\ up' = up \ {p}
    /\ Dropped(p, Peer)
    /\ inbox' = [inbox EXCEPT ![p] = <<>>]
    /\ prune' = [prune EXCEPT ![p] = 0] /\ sent' = [sent EXCEPT ![p] = FALSE]
    /\ Disturbed(p)
    /\ UNCHANGED online

\* The user goes offline, and online again; the mesh only asks.
GoOffline(p) ==
    /\ online[p] /\ online' = [online EXCEPT ![p] = FALSE]
    /\ Disturbed(p)
    /\ UNCHANGED <<up, seen, conns, ready, inbox, sent, prune>>
GoOnline(p) ==
    /\ ~online[p] /\ online' = [online EXCEPT ![p] = TRUE]
    /\ calm' = [calm EXCEPT ![p] = 0]
    /\ UNCHANGED <<up, seen, conns, ready, inbox, sent, prune, faults>>

\* One unit passes once the timers due in it have run.
Tick ==
    /\ \A p \in up : sent[p] /\ prune[p] # 0
    /\ \A p \in Peer : \A i \in DOMAIN inbox[p] : inbox[p][i].age < MaxDelay
    /\ sent' = [p \in Peer |-> FALSE]
    /\ prune' = [p \in Peer |-> IF prune[p] = 0 THEN 0 ELSE prune[p] - 1]
    /\ seen' = [p \in Peer |-> [q \in DOMAIN seen[p] |-> Capped(seen[p][q], Timeout + 1)]]
    /\ inbox' = [p \in Peer |-> [i \in DOMAIN inbox[p] |-> [inbox[p][i] EXCEPT !.age = @ + 1]]]
    /\ calm' = [p \in Peer |-> IF p \in up /\ online[p] THEN Capped(calm[p], Handshake) ELSE 0]
    /\ UNCHANGED <<up, online, conns, ready, faults>>

Next ==
    \/ Tick
    \/ \E p \in Peer :
          \/ StartMesh(p) \/ SendPresence(p) \/ OnPresence(p) \/ OnPresenceAck(p)
          \/ Prune(p) \/ StopMesh(p) \/ GoOffline(p) \/ GoOnline(p)
          \/ \E q \in Peer \ {p} : OnTransport(p, q) \/ DisconnectPeer(p, q)

Spec == Init /\ [][Next]_vars

-----------------------------------------------------------------------------
(* Two peers that have run and been online for the time of one handshake   *)
(* are connected and ready for each other, whatever was lost, dropped or   *)
(* stopped before, and stay so: no timer prunes a peer that announces      *)
(* itself.  And a mesh is ready only for peers it has heard of and has a   *)
(* transport to.                                                           *)
NeighboursAreReady ==
    \A p, q \in Peer :
      /\ p # q /\ calm[p] = Handshake /\ calm[q] = Handshake =>
            q \in ready[p] /\ q \in conns[p]
      /\ conns[p] = DOMAIN seen[p] /\ ready[p] \subseteq conns[p]
=============================================================================
