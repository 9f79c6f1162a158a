-------------------------- MODULE OperationCodecs --------------------------
(***************************************************************************)
(* The representations an operation takes on its way between engines: a    *)
(* row of the SQLite log, a record of the native Postgres module, the      *)
(* Operation object of the TypeScript interface, protobuf bytes on the     *)
(* wire or in the table of pending operations.  Every conversion is        *)
(* written by what it does to a field: numbers become doubles, empty and   *)
(* missing byte fields are mixed up or kept apart, node ids are            *)
(* normalised, and a conversion that throws yields no result.              *)
(*                                                                         *)
(* The keys and byte contents of operations are opaque values; a field     *)
(* that is undefined or null is None and empty bytes are Empty.            *)
(***************************************************************************)
EXTENDS Integers, FiniteSets

CONSTANTS Peer,       \* engines that exchange operations
          Backing,    \* Backing[p] is "sqlite" or "postgres"
          Local,      \* Local[p] is the set of log entries p's engine mints
          Control,    \* messages other than operation batches
          MaxSafe,    \* Number.MAX_SAFE_INTEGER: an odd number
          MaxBatch,   \* bound: operations in a batch
          Empty, None

VARIABLES minted,     \* log entries minted so far
          log,        \* log[p]: the operation log of p's engine
          parked,     \* parked[p]: bytes in p's table of pending operations
          wire,       \* messages in flight
          refused,    \* the last batch that could not be converted
          said, heard \* control messages encoded and decoded so far

vars == <<minted, log, parked, wire, refused, said, heard>>

Field == {"replica", "counter", "lamport", "kind", "node", "place", "orderKey", "payload",
          "knownState"}
Form == {"hex", "decimal", "short"}

\* An entry an engine mints: no byte field is empty, an insert or a move has a
\* parent and a key, and a delete, and nothing else, has a known state.
IsEntry(o) ==
    /\ o = [field \in Field |-> o[field]]
    /\ o.counter \in Nat /\ o.lamport \in Nat
    /\ Empty \notin {o.orderKey, o.payload, o.knownState}
    /\ o.kind \in {"insert", "move"} => None \notin {o.place, o.orderKey}
    /\ o.kind = "delete" <=> o.knownState # None
    /\ \A form \in Form : [form |-> form, value |-> o.place] # None

Assumptions == /\ MaxSafe \in Nat /\ MaxSafe % 2 = 1
               /\ Backing \in [Peer -> {"sqlite", "postgres"}]
               /\ \A p \in Peer : \A o \in Local[p] : IsEntry(o)
               /\ \A m \in Control :
                    /\ m = [field \in {"case", "filter", "text"} |-> m[field]]
                    /\ m.text # Empty

-----------------------------------------------------------------------------
(* Numbers and ids *)

\* What JSON.parse and Number make of an integer: beyond 2^53 only every
\* second integer is a double, and ties go to the multiple of four.
AsNumber(n) ==
    IF n <= MaxSafe + 1 \/ n % 2 = 0 THEN n
    ELSE IF n % 4 = 1 THEN n - 1 ELSE n + 1

IsSafe(n) == n <= MaxSafe

\* Numbers the conversions to and from protobuf accept.
U64FromNumber(n) == IsSafe(n)
U64ToNumber(n) == IsSafe(n)

\* Numbers the conversions to and from the native module accept.
AssertSafeNonNegativeInteger(n) == IsSafe(n)
ParseSafeInteger(n) == IsSafe(n)

\* A node id is 16 bytes to the engines and a string to the interface, which
\* takes canonical, decimal and unpadded strings and returns canonical ones.
NodeIdToBytes16(s) == s.value
NodeIdFromBytes16(b) == [form |-> "hex", value |-> b]

OnIds(F(_), op) ==
    [op EXCEPT !.node = F(@), !.place = IF @ = None THEN None ELSE F(@)]

OrElse(b, otherwise) == IF b = None THEN otherwise ELSE b
UnlessEmpty(b) == IF b = Empty THEN None ELSE b

\* The reference by which peers name an operation.
OpRef(op) == <<op.replica, op.counter>>

\* All results of a conversion of several operations, or none if one throws.
All(F(_), ops) == IF \E o \in ops : F(o) = {} THEN {} ELSE {UNION {F(o) : o \in ops}}

-----------------------------------------------------------------------------
(* SQLite: reading and writing rows *)

\* A blob column of length zero has no address, so read_row takes it for NULL.
ReadRow(row) ==
    [row EXCEPT !.orderKey = UnlessEmpty(@), !.knownState = UnlessEmpty(@),
                !.payload = UnlessEmpty(@)]

DecodeSqliteOp(row) ==
    IF row.kind \in {"insert", "move"} /\ row.orderKey = None
    THEN {}
    ELSE {OnIds(NodeIdFromBytes16,
                [row EXCEPT !.counter = AsNumber(@), !.lamport = AsNumber(@)])}

NeedsKnownState(op) == op.kind = "delete" /\ UnlessEmpty(op.knownState) = None

\* The bulk entry point takes a JSON array of all fields.
BuildAppendOpsPayload(op) ==
    IF NeedsKnownState(op)
    THEN {}
    ELSE {OnIds(NodeIdToBytes16, [op EXCEPT !.knownState = UnlessEmpty(@)])}

\* Fault variant: the slot is used for the known state of deletes only.
AppendOpWithoutPayload(op) ==
    IF NeedsKnownState(op)
    THEN {}
    ELSE {OnIds(NodeIdToBytes16, [op EXCEPT !.payload = None, !.knownState = UnlessEmpty(@)])}

\* The entry point for one operation has a single slot for the payload or the
\* known state, and takes an empty blob for NULL.
BuildAppendOp(op) ==
    LET row == OnIds(NodeIdToBytes16,
                     [op EXCEPT !.knownState =
                          IF op.kind \in {"insert", "move", "payload"} THEN None
                          ELSE UnlessEmpty(@),
                                !.payload = UnlessEmpty(@),
                                !.orderKey = UnlessEmpty(@)])
    IN IF NeedsKnownState(op) \/ (op.kind \in {"insert", "move"} /\ row.orderKey = None)
       THEN {}
       ELSE {row}

-----------------------------------------------------------------------------
(* Postgres: the native module *)

OperationToNative(op) ==
    IF /\ AssertSafeNonNegativeInteger(op.counter)
       /\ AssertSafeNonNegativeInteger(op.lamport)
    THEN {OnIds(NodeIdToBytes16, op)}
    ELSE {}

NativeToOperation(row) ==
    IF /\ ParseSafeInteger(row.counter) /\ ParseSafeInteger(row.lamport)
       /\ row.kind \in {"insert", "move"} => row.place # None /\ row.orderKey # None
    THEN {OnIds(NodeIdFromBytes16, row)}
    ELSE {}

-----------------------------------------------------------------------------
(* Protobuf *)

\* A bytes field that is not set reads as empty; only the payload of an
\* insert is optional, and the payload of a payload operation is a choice
\* between a value and "clear".
ToProtoOperation(op) ==
    IF NeedsKnownState(op) \/ ~U64FromNumber(op.counter) \/ ~U64FromNumber(op.lamport)
    THEN {}
    ELSE {OnIds(NodeIdToBytes16, [op EXCEPT !.knownState = OrElse(@, Empty)])}

FromProtoOperation(b) ==
    IF NeedsKnownState(b) \/ ~U64ToNumber(b.counter) \/ ~U64ToNumber(b.lamport)
    THEN {}
    ELSE {OnIds(NodeIdFromBytes16, [b EXCEPT !.knownState = UnlessEmpty(@)])}

\* Control messages copy their fields; an optional text is the empty text on
\* the wire and is left out again on the other side.
EncodeControl(m) == [m EXCEPT !.text = OrElse(@, Empty)]
DecodeControl(b) == [b EXCEPT !.text = UnlessEmpty(@)]

-----------------------------------------------------------------------------
(* The engines behind the interface *)

\* ops.get: read log entries by their references.
Get(p, refs) ==
    LET rows == {o \in log[p] : OpRef(o) \in refs}
        One(o) == IF Backing[p] = "sqlite" THEN DecodeSqliteOp(ReadRow(o))
                  ELSE NativeToOperation(o)
    IN All(One, rows)

\* ops.appendMany: one JSON array or one native call; all or nothing.
AppendMany(p, ops) ==
    LET One(o) == IF Backing[p] = "sqlite" THEN BuildAppendOpsPayload(o)
                  ELSE OperationToNative(o)
    IN All(One, ops)

\* ops.append: one operation.
Append(p, op) ==
    IF Backing[p] = "sqlite" THEN BuildAppendOp(op) ELSE OperationToNative(op)

\* The engine keeps the entry it has under a reference.
Stored(p, rows) == log[p] \cup {r \in rows : \A o \in log[p] : OpRef(o) # OpRef(r)}

Init ==
    /\ minted = {} /\ wire = {} /\ refused = {} /\ said = {} /\ heard = {}
    /\ log = [p \in Peer |-> {}]
    /\ parked = [p \in Peer |-> {}]

\* The call that makes the engine mint o, naming the nodes in some form.
Named(o, form) == OnIds(LAMBDA b : [form |-> form, value |-> b], o)

\* local.insert, move, delete, payload: the engine mints an entry; the string
\* forms in which the caller names the nodes leave no trace in it.
Mint(p) ==
    \E o \in Local[p] \ log[p], form \in Form :
        LET entry == OnIds(NodeIdToBytes16, Named(o, form))
        IN /\ minted' = minted \cup {entry}
           /\ log' = [log EXCEPT ![p] = Stored(p, {entry})]
           /\ UNCHANGED <<parked, wire, refused, said, heard>>

\* A batch is read by references and encoded; one operation that cannot be
\* converted fails all of it.
SendBatch(p, q) ==
    \E refs \in SUBSET {OpRef(o) : o \in log[p]} :
        LET read == Get(p, refs)
            bytes == UNION {All(ToProtoOperation, ops) : ops \in read}
        IN /\ Cardinality(refs) \in 1..MaxBatch
           /\ IF bytes = {}
              THEN /\ refused' = {o \in log[p] : OpRef(o) \in refs}
                   /\ UNCHANGED wire
              ELSE /\ wire' = wire \cup {[to |-> q, case |-> "opsBatch", ops |-> b] : b \in bytes}
                   /\ UNCHANGED refused
           /\ UNCHANGED <<minted, log, parked, said, heard>>

\* A batch arrives and is applied as a whole, applied one by one by an
\* application, or set aside until its proofs arrive.
ReceiveBatch(p) ==
    \E m \in {x \in wire : x.to = p /\ x.case = "opsBatch"} :
        LET decoded == All(FromProtoOperation, m.ops)
            One(o) == Append(p, o)
        IN /\ wire' = wire \ {m}
           /\ \/ /\ \E ops \in decoded : \E rows \in AppendMany(p, ops) :
                        log' = [log EXCEPT ![p] = Stored(p, rows)]
                 /\ UNCHANGED parked
              \/ /\ \E ops \in decoded : \E rows \in All(One, ops) :
                        log' = [log EXCEPT ![p] = Stored(p, rows)]
                 /\ UNCHANGED parked
              \/ /\ \E ops \in decoded : \E b \in All(ToProtoOperation, ops) :
                        parked' = [parked EXCEPT ![p] = @ \cup b]
                 /\ UNCHANGED log
           /\ UNCHANGED <<minted, refused, said, heard>>

\* Pending operations are decoded again, applied and deleted.
Unpark(p) ==
    /\ parked[p] # {}
    /\ \E ops \in All(FromProtoOperation, parked[p]) : \E rows \in AppendMany(p, ops) :
           log' = [log EXCEPT ![p] = Stored(p, rows)]
    /\ parked' = [parked EXCEPT ![p] = {}]
    /\ UNCHANGED <<minted, wire, refused, said, heard>>

SendControl(p, q) ==
    \E m \in Control \ said :
        /\ wire' = wire \cup {[to |-> q, case |-> "control", msg |-> EncodeControl(m)]}
        /\ said' = said \cup {m}
        /\ UNCHANGED <<minted, log, parked, refused, heard>>

ReceiveControl(p) ==
    \E m \in {x \in wire : x.to = p /\ x.case = "control"} :
        /\ wire' = wire \ {m}
        /\ heard' = heard \cup {DecodeControl(m.msg)}
        /\ UNCHANGED <<minted, log, parked, refused, said>>

Next ==
    \/ \E p \in Peer : Mint(p) \/ ReceiveBatch(p) \/ Unpark(p) \/ ReceiveControl(p)
    \/ /\ wire = {}
       /\ \E p, q \in Peer : p # q /\ (SendBatch(p, q) \/ SendControl(p, q))

Spec == Init /\ [][Next]_vars

-----------------------------------------------------------------------------
(***************************************************************************)
(* Whatever chain of engines, wires and tables an operation goes through   *)
(* (decodeSqliteOps, nativeToOperation, toProtoOperation and their         *)
(* counterparts), every log entry is one that was minted, field by field;  *)
(* an operation is refused on the way only when its counter or lamport, or *)
(* that of one in the same batch, does not fit a JavaScript number; and    *)
(* control messages are heard as they were said.                           *)
(***************************************************************************)
CarriedUnaltered ==
    /\ \A p \in Peer : log[p] \subseteq minted
    /\ refused # {} => \E o \in refused : ~IsSafe(o.counter) \/ ~IsSafe(o.lamport)
    /\ heard \subseteq said
=============================================================================
