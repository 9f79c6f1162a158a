------------------------------ MODULE MCValues ------------------------------
(***************************************************************************)
(* The values operations are made of, each in an instance for TLC: the     *)
(* keys of siblings, version vectors, and the representations of an        *)
(* operation between engines.  They share no state; a behaviour belongs to *)
(* one part, chosen at the start.                                          *)
(***************************************************************************)
EXTENDS SiblingOrder, TLC

CONSTANTS
  Parts,      \* the parts that are checked
  Payloads,   \* contents of the payload of an insert
  Empty, x, y, A, B, C,
  Vector, Replica, MaxSeen,                           \* of VersionVector
  Peer, Backing, Local, Control, MaxSafe, MaxBatch    \* of OperationCodecs

VARIABLES part,
          entries,                                          \* version vectors
          minted, log, parked, wire, refused, said, heard   \* codecs

codecs == <<minted, log, parked, wire, refused, said, heard>>

Vectors == INSTANCE VersionVector

\* One replica with room for three ranges, and a second one.
Counters == <<6, 1>>

Entry(r, l, k, n, p, ok, pay, known) ==
  [replica |-> r, counter |-> 1, lamport |-> l, kind |-> k, node |-> n, place |-> p,
   orderKey |-> ok, payload |-> pay, knownState |-> known]

\* Two SQLite engines and a Postgres engine.  The lamport of the move does not
\* fit a JavaScript number and is not a double either.
Entries ==
  A :> {Entry(A, 2, "delete", "n", None, None, None, "seen")}
  @@ B :> {Entry(B, 1, "insert", "n", "r", "k", v, None) : v \in Payloads}
  @@ C :> {Entry(C, 5, "move", "n", "r", "k", None, None)}

Stores == A :> "sqlite" @@ B :> "postgres" @@ C :> "sqlite"
Messages == {[case |-> "ribltStatus", filter |-> "all", text |-> None]}

Codecs == INSTANCE OperationCodecs

ASSUME MCValuesAssumption == Vectors!Assumptions /\ Codecs!Assumptions

ValuesInit == part \in Parts /\ Init /\ Vectors!Init /\ Codecs!Init

ValuesNext ==
  /\ UNCHANGED part
  /\ \/ part = "siblings" /\ Next /\ UNCHANGED <<entries, codecs>>
     \/ part = "vectors" /\ Vectors!Next /\ UNCHANGED <<vars, codecs>>
     \/ part = "codecs" /\ Codecs!Next /\ UNCHANGED <<vars, entries>>

ValuesSpec == ValuesInit /\ [][ValuesNext]_<<part, vars, entries, codecs>>

-----------------------------------------------------------------------------
(* VersionVector::observe and merge keep frontier and ranges equal to the  *)
(* set of ids they were given.                                             *)
ImplementsSets == Vectors!ImplementsSets

(* VersionVector::is_aware_of compares two vectors as it would compare the *)
(* sets of ids, which is what a defensive delete relies on; get and        *)
(* frontier answer for the set, and frontier and ranges stay normalized.   *)
VectorsAnswerForSets ==
  part = "vectors" =>
    Vectors!AwarenessIsInclusion /\ Vectors!GetAndFrontier /\ Vectors!Normalized

(* MemoryNodeStore::attach: the children stay sorted by key and id under   *)
(* local and remote placements, and their keys well formed.                *)
SiblingsAreSorted == part = "siblings" => KeysAreWellFormed /\ ChildrenAreSorted

(* Operations cross SQLite, Postgres, protobuf and the table of pending    *)
(* operations without a change of a field, or are refused.                 *)
CarriedUnaltered == part = "codecs" => Codecs!CarriedUnaltered
=============================================================================
