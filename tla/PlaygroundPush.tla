--------------------------- MODULE PlaygroundPush ---------------------------
(***************************************************************************)
(* The queue of local operations of the playground that are pushed to the  *)
(* sync server (notifyLocalUpdate and its loop in                          *)
(* examples/playground/src/playground/hooks/usePlaygroundSync.ts).  The    *)
(* connection comes and goes as in PlaygroundLive; a loop that awaits a    *)
(* push survives the tear-down of the hook and resumes in a later set-up.  *)
(***************************************************************************)
EXTENDS Naturals, FiniteSets

CONSTANTS
    Op,             \* local operations
    MaxSetUps       \* bound on set-ups of the hook

VARIABLES
    setups,     \* number of set-ups
    alive,      \* syncPeerRef is set
    online,     \* onlineRef
    remote,     \* a remote peer is connected
    wantsLive,  \* a live scope is enabled
    queue,      \* remoteLivePush*Ref: scheduled, running, full (needsFullSync), ops (pendingOps)
    loops,      \* running loops: id -> [await, ops]
    fate        \* history per operation: new, hinted, waked, taken, pushed, failed

vars == <<setups, alive, online, remote, wantsLive, queue, loops, fate>>

Init ==
    /\ setups = 0 /\ alive = FALSE /\ online = TRUE /\ remote = FALSE /\ wantsLive = FALSE
    /\ queue = [scheduled |-> FALSE, running |-> FALSE, full |-> FALSE, ops |-> {}]
    /\ loops = <<>>
    /\ fate = [o \in Op |-> "new"]

-----------------------------------------------------------------------------
(* The environment of the queue. *)

SetUp ==
    /\ ~alive /\ setups < MaxSetUps
    /\ alive' = TRUE /\ setups' = setups + 1
    /\ UNCHANGED <<online, remote, wantsLive, queue, loops, fate>>

\* Operations that a loop was told of are mere hints again once the way to the server is gone.
Unwaked(f) == [o \in Op |-> IF f[o] = "waked" THEN "hinted" ELSE f[o]]

\* The clean-up resets the flags, not the operations; a loop in flight goes on.
TearDown ==
    /\ alive /\ alive' = FALSE /\ remote' = FALSE
    /\ queue' = [queue EXCEPT !.scheduled = FALSE, !.running = FALSE]
    /\ fate' = Unwaked(fate)
    /\ UNCHANGED <<setups, online, wantsLive, loops>>

\* A socket opens.  (The code opens one per set-up; here the server may come back.)
RemoteOpens ==
    /\ alive /\ ~remote /\ remote' = TRUE
    /\ UNCHANGED <<setups, alive, online, wantsLive, queue, loops, fate>>

RemoteLost ==
    /\ remote /\ remote' = FALSE
    /\ fate' = Unwaked(fate)
    /\ UNCHANGED <<setups, alive, online, wantsLive, queue, loops>>

SetOnline ==
    /\ online' = ~online
    /\ fate' = IF online THEN Unwaked(fate) ELSE fate
    /\ UNCHANGED <<setups, alive, remote, wantsLive, queue, loops>>

ToggleLive ==
    /\ wantsLive' = ~wantsLive
    /\ UNCHANGED <<setups, alive, online, remote, queue, loops, fate>>

-----------------------------------------------------------------------------
(* notifyLocalUpdate and its loop. *)

\* queueRemoteUploadHints.
Hinted(q, ops) == IF ops = {} THEN [q EXCEPT !.full = TRUE] ELSE [q EXCEPT !.ops = @ \cup ops]

Ends(q) == [q |-> [q EXCEPT !.running = FALSE], await |-> "end", ops |-> {}]

\* Fault variant: the queue is emptied before the way to the server is known to be there.
IterateEmptied(q, open) ==
    LET t == [q EXCEPT !.scheduled = FALSE, !.ops = {}, !.full = FALSE]
    IN IF ~q.scheduled THEN Ends(q)
       ELSE IF ~(online /\ alive /\ open) THEN Ends(t)
       ELSE IF q.ops # {} THEN [q |-> t, await |-> "push", ops |-> q.ops]
       ELSE IF q.full \/ wantsLive THEN [q |-> t, await |-> "sync", ops |-> {}]
       ELSE Ends(t)
\* From the test of the loop's condition to its next await or its end: the queue afterwards and
\* what is awaited.  With operations to push, a full sync that was asked for is forgotten.
Iterate(q, open) ==
    LET r == [q EXCEPT !.scheduled = FALSE]
        t == [r EXCEPT !.ops = {}, !.full = FALSE]
    IN IF ~q.scheduled \/ ~(online /\ alive /\ open) THEN Ends(r)
       ELSE IF q.ops # {} THEN [q |-> t, await |-> "push", ops |-> q.ops]
       ELSE IF q.full \/ wantsLive THEN [q |-> t, await |-> "sync", ops |-> {}]
       ELSE Ends(t)

\* The loop i goes on to r.
Goes(i, r, f) ==
    /\ queue' = r.q
    /\ loops' = [n \in IF r.await = "end" THEN DOMAIN loops \ {i} ELSE DOMAIN loops \cup {i} |->
                   IF n = i THEN [await |-> r.await, ops |-> r.ops] ELSE loops[n]]
    /\ fate' = [o \in Op |-> IF o \in r.ops THEN "taken" ELSE f[o]]

\* A running loop is told, or one starts and runs to its first await.
NotifyLocalUpdate(ops) ==
    /\ \A o \in ops : fate[o] = "new"
    /\ LET told == [Hinted(queue, ops) EXCEPT !.scheduled = TRUE]
           f == [o \in Op |-> IF o \notin ops THEN fate[o]
                              ELSE IF online /\ alive /\ remote THEN "waked" ELSE "hinted"]
           i == CHOOSE n \in 1..(Cardinality(DOMAIN loops) + 1) : n \notin DOMAIN loops
       IN \/ queue.running /\ queue' = told /\ fate' = f /\ UNCHANGED loops
          \/ ~queue.running /\ Goes(i, Iterate([told EXCEPT !.running = TRUE], remote), f)
    /\ UNCHANGED <<setups, alive, online, remote, wantsLive>>

\* What a loop awaits ends or times out; an error drops the connection of the remote peer,
\* also one that was opened since, unless the capability is revoked.
LoopResumes(i, outcome) ==
    /\ remote' = (remote /\ outcome # "error")
    /\ LET end == IF outcome = "ok" THEN "pushed" ELSE "failed"
           f == [o \in Op |-> IF o \in loops[i].ops THEN end ELSE fate[o]]
       IN Goes(i, Iterate(queue, remote'), IF outcome = "error" THEN Unwaked(f) ELSE f)
    /\ UNCHANGED <<setups, alive, online, wantsLive>>

Next ==
    \/ SetUp \/ TearDown \/ RemoteOpens \/ RemoteLost \/ SetOnline \/ ToggleLive
    \/ \E ops \in SUBSET Op : NotifyLocalUpdate(ops)
    \/ \E i \in DOMAIN loops, o \in {"ok", "error", "revoked"} : LoopResumes(i, o)

Spec == Init /\ [][Next]_vars

-----------------------------------------------------------------------------
(* A local operation handed to notifyLocalUpdate stays queued until a loop *)
(* takes it to push it; one that came while the server was connected has a *)
(* loop told to take it, whatever tear-downs, failed pushes and loops of   *)
(* an earlier set-up come between.                                         *)
HintsAreNotLost ==
    \A o \in Op :
      /\ fate[o] \in {"hinted", "waked"} => o \in queue.ops
      /\ fate[o] = "waked" => queue.scheduled /\ DOMAIN loops # {}
      /\ fate[o] = "taken" => \E i \in DOMAIN loops : o \in loops[i].ops
=============================================================================
