----------------------------- MODULE SyncServer -----------------------------
(***************************************************************************)
(* Server processes that share one Postgres database, for one document:    *)
(* the connections of packages/sync/server/core/src/server.ts over the     *)
(* document store and the update bus of                                    *)
(* packages/sync/server/postgres-node/src/server.ts.                       *)
(*                                                                         *)
(* JavaScript runs to the next await: a step is what happens between two   *)
(* awaits, and a connection whose promise is settled ("resume") runs       *)
(* before the next socket event or timer.                                  *)
(***************************************************************************)
EXTENDS Naturals, FiniteSets, Sequences

CONSTANTS
    Proc,       \* server processes
    Conn,       \* websocket connections
    At,         \* the process a connection reaches
    Op,         \* operations the clients upload
    MaxCtx,     \* bound on the document contexts made
    None,
    IdleZero    \* processes with idleCloseMs = 0: an idle context is closed at once

Assumptions ==
    /\ At \in [Conn -> Proc] /\ IdleZero \subseteq Proc /\ MaxCtx \in Nat
    /\ None \notin Proc /\ None \notin Op /\ None \notin 1..MaxCtx

VARIABLES
    docs,       \* per process the open context of the document
    opening,    \* per process openInFlight: the context being opened and how far it is
    ctx,        \* contexts: state, connections, closeTimer, peers, applyQueue
    conn,       \* per connection where its handler is, its context, and `cleaned`
    peers,      \* per process peersByDocId
    phase,      \* per process: "up", "stopping", "closing" (closeAll runs), "closed"
    job,        \* per connection the applyOps call in flight
    stored,     \* operations in the database
    bus,        \* per process: a notification waits
    lost,       \* <<process, operation>> whose notification could not be published
    told        \* per connection the operations its peer was notified of or rescanned

vars == <<docs, opening, ctx, conn, peers, phase, job, stored, bus, lost, told>>
apart == <<job, stored, bus, lost>>

NoOpening == [x |-> None, step |-> "none"]
NoJob == [op |-> None, step |-> "none", x |-> None]
Ctx == 1..MaxCtx
Unused == [st |-> "unused", proc |-> None, connections |-> 0, timer |-> FALSE, peers |-> {}, queue |-> <<>>]

Init ==
    /\ docs = [p \in Proc |-> None]
    /\ opening = [p \in Proc |-> NoOpening]
    /\ ctx = [x \in Ctx |-> Unused]
    /\ conn = [c \in Conn |-> [at |-> "new", x |-> None, cleaned |-> FALSE]]
    /\ peers = [p \in Proc |-> {}]
    /\ phase = [p \in Proc |-> "up"]
    /\ job = [c \in Conn |-> NoJob]
    /\ stored = {} /\ lost = {}
    /\ bus = [p \in Proc |-> FALSE]
    /\ told = [c \in Conn |-> {}]

Here(p) == {c \in Conn : At[c] = p}
Closing(p) == phase[p] \in {"closing", "closed"}
\* No promise of this process waits to be resumed: an event or a timer may run.
Settled(p) == \A c \in Here(p) : conn[c].at # "resume"
Gone(c) == [at |-> "gone", x |-> None, cleaned |-> TRUE]
\* The connections that wait for the opening of the context fail with it.
WaitersFail(p) ==
    conn' = [c \in Conn |-> IF c \in Here(p) /\ conn[c].at = "opening" THEN Gone(c) ELSE conn[c]]

-----------------------------------------------------------------------------
(* A connection asks the document store for the document. *)

\* openContext: the open context, the opening in flight, or a new opening.
Connect(c) ==
    LET p == At[c] IN
    /\ conn[c].at = "new" /\ phase[p] = "up" /\ Settled(p)
    /\ \/ /\ docs[p] # None
          /\ conn' = [conn EXCEPT ![c] = [@ EXCEPT !.at = "resume", !.x = docs[p]]]
          /\ UNCHANGED <<opening, ctx>>
       \/ /\ docs[p] = None /\ opening[p] # NoOpening
          /\ conn' = [conn EXCEPT ![c].at = "opening"]
          /\ UNCHANGED <<opening, ctx>>
       \/ /\ docs[p] = None /\ opening[p] = NoOpening
          /\ \E x \in Ctx :
                /\ {y \in Ctx : ctx[y].st = "unused"} = x..MaxCtx
                /\ opening' = [opening EXCEPT ![p] = [x |-> x, step |-> "backend"]]
                /\ ctx' = [ctx EXCEPT ![x] = [@ EXCEPT !.st = "claimed", !.proc = p]]
          /\ conn' = [conn EXCEPT ![c].at = "opening"]
    /\ UNCHANGED <<docs, peers, phase, apart, told>>

\* backendFactory.open answers, or fails.
BackendOpens(p) ==
    LET x == opening[p].x IN
    /\ opening[p].step = "backend" /\ Settled(p)
    /\ opening' = [opening EXCEPT ![p].step = "options"]
    /\ ctx' = [ctx EXCEPT ![x].st = "raw"]
    /\ UNCHANGED <<docs, conn, peers, phase, apart, told>>

OpeningFails(p) ==
    LET x == opening[p].x IN
    /\ opening[p].step \in {"backend", "options"} /\ Settled(p)
    /\ opening' = [opening EXCEPT ![p] = NoOpening]
    /\ ctx' = [ctx EXCEPT ![x].st = "closed"]
    /\ WaitersFail(p)
    /\ UNCHANGED <<docs, peers, phase, apart, told>>

\* The new context is kept unless the store began to close.
Kept(p) == ~Closing(p)

\* peerOptionsFactory answers: the context is published and its waiters resume, or the
\* backend is closed and they fail.
OptionsReady(p) ==
    LET x == opening[p].x IN
    /\ opening[p].step = "options" /\ Settled(p)
    /\ opening' = [opening EXCEPT ![p] = NoOpening]
    /\ IF Kept(p)
       THEN /\ docs' = [docs EXCEPT ![p] = x]
            /\ ctx' = [ctx EXCEPT ![x].st = "live"]
            /\ conn' = [c \in Conn |-> IF c \in Here(p) /\ conn[c].at = "opening"
                                       THEN [conn[c] EXCEPT !.at = "resume", !.x = x]
                                       ELSE conn[c]]
       ELSE ctx' = [ctx EXCEPT ![x].st = "closed"] /\ WaitersFail(p) /\ UNCHANGED docs
    /\ UNCHANGED <<peers, phase, apart, told>>

-----------------------------------------------------------------------------
(* The connections of a context are counted; the last one leaving arms a   *)
(* timer, or closes the context.                                           *)

\* closeContext: the context leaves the store, and its backend is closed.
ClosedCtx(r) == [r EXCEPT !.st = "closed", !.timer = FALSE, !.peers = {}]

Acquired(r) == [r EXCEPT !.connections = @ + 1, !.timer = FALSE]

\* release and scheduleClose.
Released(r, p) ==
    LET n == IF r.connections > 0 THEN r.connections - 1 ELSE 0 IN
    IF r.st = "closed" THEN r
    ELSE IF n > 0 THEN [r EXCEPT !.connections = n]
    ELSE IF Closing(p) \/ p \in IdleZero THEN ClosedCtx([r EXCEPT !.connections = 0])
    ELSE [r EXCEPT !.connections = 0, !.timer = TRUE]

\* docs.delete when a step closed the context.
DocsAfter(p, x, r) ==
    docs' = IF r.st = "closed" /\ docs[p] = x THEN [docs EXCEPT ![p] = None] ELSE docs

\* Fault variant: a socket that closed while the document was opened keeps its handle.
LateHandleKept(r, p) == r
LateHandle(r, p) == Released(r, p)

\* A handle is a peer of the server and of its context from here on.
Joined(r, c) == [r EXCEPT !.peers = @ \cup {c}]

\* provider.open returns its handle; the connection becomes a peer, or releases the handle
\* when its socket has closed meanwhile.
Resume(c) ==
    LET p == At[c]
        x == conn[c].x
        held == Acquired(ctx[x])
    IN
    /\ conn[c].at = "resume"
    /\ IF Closing(p) \/ ctx[x].st = "closed"
       THEN conn' = [conn EXCEPT ![c] = Gone(c)] /\ UNCHANGED <<docs, ctx, peers, told>>
       ELSE IF conn[c].cleaned
       THEN LET r == LateHandle(held, p) IN
            /\ ctx' = [ctx EXCEPT ![x] = r] /\ DocsAfter(p, x, r)
            /\ conn' = [conn EXCEPT ![c] = Gone(c)]
            /\ UNCHANGED <<peers, told>>
       ELSE /\ ctx' = [ctx EXCEPT ![x] = Joined(held, c)]
            /\ conn' = [conn EXCEPT ![c].at = "attached"]
            /\ peers' = [peers EXCEPT ![p] = @ \cup {c}]
            /\ told' = [told EXCEPT ![c] = stored]
            /\ UNCHANGED docs
    /\ UNCHANGED <<opening, phase, apart>>

\* The socket closes or fails: cleanup, once.
Disconnect(c) ==
    LET p == At[c]
        x == conn[c].x
    IN
    /\ Settled(p) /\ ~conn[c].cleaned
    /\ \/ /\ conn[c].at = "opening"
          /\ conn' = [conn EXCEPT ![c].cleaned = TRUE]
          /\ UNCHANGED <<docs, ctx, peers>>
       \/ /\ conn[c].at = "attached"
          /\ LET r == Released([ctx[x] EXCEPT !.peers = @ \ {c}], p) IN
                ctx' = [ctx EXCEPT ![x] = r] /\ DocsAfter(p, x, r)
          /\ peers' = [peers EXCEPT ![p] = @ \ {c}]
          /\ conn' = [conn EXCEPT ![c] = Gone(c)]
    /\ UNCHANGED <<opening, phase, apart, told>>

\* The timer armed by scheduleClose.
IdleTimer(p) ==
    LET x == docs[p] IN
    /\ x # None /\ Settled(p) /\ ctx[x].timer
    /\ LET r == IF ctx[x].connections > 0 THEN [ctx[x] EXCEPT !.timer = FALSE]
                ELSE ClosedCtx(ctx[x])
       IN ctx' = [ctx EXCEPT ![x] = r] /\ DocsAfter(p, x, r)
    /\ UNCHANGED <<opening, conn, peers, phase, apart, told>>

\* close of the server: the sockets are closed first.
Stop(p) ==
    /\ phase[p] = "up" /\ Settled(p)
    /\ phase' = [phase EXCEPT ![p] = "stopping"]
    /\ UNCHANGED <<docs, opening, ctx, conn, peers, apart, told>>

\* Every socket has closed: closeAll sets `closing` and waits for what is in flight.
CloseAll(p) ==
    /\ phase[p] = "stopping" /\ Settled(p)
    /\ \A c \in Here(p) : conn[c].at = "new" \/ conn[c].cleaned
    /\ phase' = [phase EXCEPT ![p] = "closing"]
    /\ UNCHANGED <<docs, opening, ctx, conn, peers, apart, told>>

CloseDone(p) ==
    LET x == docs[p] IN
    /\ phase[p] = "closing" /\ Settled(p) /\ opening[p] = NoOpening
    /\ phase' = [phase EXCEPT ![p] = "closed"]
    /\ ctx' = IF x = None THEN ctx ELSE [ctx EXCEPT ![x] = ClosedCtx(@)]
    /\ docs' = [docs EXCEPT ![p] = None]
    /\ UNCHANGED <<opening, conn, peers, apart, told>>

-----------------------------------------------------------------------------
(* applyOps of a peer: through the queue of the context to the database,   *)
(* then to the other processes, then to the peers of this one.             *)

Upload(c, o) ==
    LET x == conn[c].x IN
    /\ conn[c].at = "attached" /\ Settled(At[c])
    /\ job[c] = NoJob /\ o \notin stored /\ \A d \in Conn : job[d].op # o
    /\ job' = [job EXCEPT ![c] = [op |-> o, step |-> "queued", x |-> x]]
    /\ ctx' = [ctx EXCEPT ![x].queue = Append(@, c)]
    /\ told' = [told EXCEPT ![c] = @ \cup {o}]
    /\ UNCHANGED <<docs, opening, conn, peers, phase, stored, bus, lost>>

FirstInQueue(c) == job[c].step = "queued" /\ Head(ctx[job[c].x].queue) = c

\* The backend applies the operation, or fails and the queue goes on.
Store(c) ==
    /\ FirstInQueue(c) /\ Settled(At[c])
    /\ ctx' = [ctx EXCEPT ![job[c].x].queue = Tail(@)]
    /\ stored' = stored \cup {job[c].op}
    /\ job' = [job EXCEPT ![c].step = "stored"]
    /\ UNCHANGED <<docs, opening, conn, peers, phase, bus, lost, told>>

StoreFails(c) ==
    /\ FirstInQueue(c) /\ Settled(At[c])
    /\ ctx' = [ctx EXCEPT ![job[c].x].queue = Tail(@)]
    /\ job' = [job EXCEPT ![c] = NoJob]
    /\ UNCHANGED <<docs, opening, conn, peers, phase, stored, bus, lost, told>>

\* publishDocUpdate: every other process gets a notification; a failure is ignored, and a
\* closed bus publishes nothing.
Broadcast(c) ==
    LET p == At[c] IN
    /\ job[c].step = "stored" /\ Settled(p)
    /\ job' = [job EXCEPT ![c].step = "announce"]
    /\ \/ /\ phase[p] # "closed"
          /\ bus' = [q \in Proc |-> bus[q] \/ (q # p /\ phase[q] # "closed")]
          /\ UNCHANGED lost
       \/ lost' = lost \cup {<<p, job[c].op>>} /\ UNCHANGED bus
    /\ UNCHANGED <<docs, opening, ctx, conn, peers, phase, stored, told>>

\* Fault variant: only the peers of the context the call came through.
OwnCtxPeers(c) == ctx[job[c].x].peers
\* notifyDocUpdate looks the context up again, notifyOtherDocPeers knows all connections.
LocalPeers(c) ==
    LET x == docs[At[c]] IN
    (IF x = None THEN {} ELSE ctx[x].peers) \cup (peers[At[c]] \ {c})

Announce(c) ==
    /\ job[c].step = "announce" /\ Settled(At[c])
    /\ told' = [d \in Conn |-> IF d \in LocalPeers(c) THEN told[d] \cup {job[c].op} ELSE told[d]]
    /\ job' = [job EXCEPT ![c] = NoJob]
    /\ UNCHANGED <<docs, opening, ctx, conn, peers, phase, stored, bus, lost>>

\* A notification of another process: the peers of the context scan the database.
Notification(p) ==
    LET x == docs[p] IN
    /\ bus[p] /\ Settled(p)
    /\ bus' = [bus EXCEPT ![p] = FALSE]
    /\ told' = [c \in Conn |-> IF x # None /\ c \in ctx[x].peers THEN stored ELSE told[c]]
    /\ UNCHANGED <<docs, opening, ctx, conn, peers, phase, job, stored, lost>>

Next ==
    \/ \E c \in Conn :
          \/ Connect(c) \/ Resume(c) \/ Disconnect(c)
          \/ Store(c) \/ StoreFails(c) \/ Broadcast(c) \/ Announce(c)
          \/ \E o \in Op : Upload(c, o)
    \/ \E p \in Proc :
          \/ BackendOpens(p) \/ OpeningFails(p) \/ OptionsReady(p)
          \/ IdleTimer(p) \/ Stop(p) \/ CloseAll(p) \/ CloseDone(p) \/ Notification(p)

Spec == Init /\ [][Next]_vars

-----------------------------------------------------------------------------
(* Properties. *)

Holders(x) == {c \in Conn : conn[c].at = "attached" /\ conn[c].x = x}
OpenIn(p) == {x \in Ctx : ctx[x].proc = p /\ ctx[x].st \in {"raw", "live"}}

(* The document store never closes the backend of a connection that is    *)
(* still served, counts exactly the connections of its context, has the    *)
(* timer armed for a context nobody uses, and is left without an open      *)
(* backend by closeAll, whatever sockets close while a document is opened. *)
BackendsFollowConnections ==
    \A p \in Proc :
      /\ \A c \in Here(p) : conn[c].at = "attached" => conn[c].x = docs[p] /\ ctx[docs[p]].st = "live"
      /\ docs[p] # None =>
            /\ ctx[docs[p]].connections = Cardinality(Holders(docs[p]))
            /\ Holders(docs[p]) = {} /\ Settled(p) => ctx[docs[p]].timer \/ Closing(p)
      /\ OpenIn(p) \subseteq {docs[p], opening[p].x}
      /\ phase[p] = "closed" => OpenIn(p) = {}

(* Every peer that is connected gets to know every stored operation: an    *)
(* operation it was not told of is still on its way through the call that  *)
(* stored it or through the bus, unless another process could not publish  *)
(* it (a failure the code ignores).                                        *)
StoredIsAnnounced ==
    \A c \in Conn : conn[c].at = "attached" =>
      \A o \in stored \ told[c] :
        \/ bus[At[c]]
        \/ \E d \in Conn : job[d].op = o /\ job[d].step \in
              (IF At[d] = At[c] THEN {"stored", "announce"} ELSE {"stored"})
        \/ \E q \in Proc : q # At[c] /\ <<q, o>> \in lost
=============================================================================
