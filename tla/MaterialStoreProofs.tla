------------------------ MODULE MaterialStoreProofs ------------------------
(***************************************************************************)
(* The stores of proof material are sound, for every set of jobs, programs *)
(* and bulk size: what a call has written is what its rows say up to the   *)
(* statement it has reached; a transaction of the shared connection        *)
(* belongs to the call inside it; and the signatures of calls that have    *)
(* returned are on disk, and in every later view of it.                    *)
(***************************************************************************)
EXTENDS MaterialStore, FiniteSetTheorems, TLAPS

(* The last element of a set of numbers. *)
LEMMA LastIs ==
  ASSUME NEW S \in SUBSET Nat, NEW m \in S, \A j \in S : j <= m
  PROVE  LastOf(S) = m
<1>1. \A i \in S : (\A j \in S : j <= i) => i = m
  OBVIOUS
<1> QED BY <1>1 DEF LastOf

\* What the proofs use of a call: one table, rows among the given entries, and which one of
\* them is the last of its key.
Shape(call, t) ==
    /\ t \in Table
    /\ call.given \in Seq({call.given[i] : i \in DOMAIN call.given})
    /\ DOMAIN call.rows \subseteq DOMAIN call.given
    /\ \A i \in DOMAIN call.rows : call.rows[i] = call.given[i]
    /\ \A i \in DOMAIN call.given : call.given[i].row = <<t, call.given[i].key>>
    /\ t = "auth" => \A i \in DOMAIN call.rows : call.rows[i].value # None
    /\ \/ call.rows = call.given /\ (call.kind = "statement" => t # "auth")
       \/ /\ call.kind = "statement"
          /\ \A i \in DOMAIN call.rows : \A j \in DOMAIN call.given :
                call.given[j].key = call.given[i].key => j <= i
    /\ call.kind = "transaction" => t # "op"
    /\ call.kind = "pooled" => t = "pending"
    /\ call.kind \in {"append", "local"} => t = "op"

SqliteKinds == {"transaction", "append", "local"}
PgKinds == {"statement", "pooled"}

(* Entries of one table, in order. *)
LEMMA GivenEntries ==
  ASSUME NEW call, call.given \in Seq({call.given[i] : i \in DOMAIN call.given}), NEW t,
         call.given = Entries(t, Passed(call))
  PROVE  \A i \in DOMAIN call.given : call.given[i].row = <<t, call.given[i].key>>
<1>1. DOMAIN Passed(call) = DOMAIN call.given
  BY DEF Passed
<1>2. \A i \in DOMAIN call.given : call.given[i].row = Row(t, Passed(call)[i].key)
                                  /\ call.given[i].key = Passed(call)[i].key
  BY <1>1 DEF Entries
<1> QED BY <1>2 DEF Row

LEMMA SqliteShape ==
  ASSUME NEW call, call.given \in Seq({call.given[i] : i \in DOMAIN call.given}),
         IsSqliteCall(call)
  PROVE  call.kind \in SqliteKinds /\ \E t : Shape(call, t)
<1> DEFINE es == Passed(call)
           keys == KeysPassed(call)
<1>1. CASE call = DeletePendingOps(keys)
  <2>1. call.kind = "transaction" /\ call.rows = call.given /\ call.given = Removals("pending", keys)
    BY <1>1 DEF DeletePendingOps
  <2>2. \A i \in DOMAIN call.given : call.given[i].row = <<"pending", call.given[i].key>>
    <3>1. DOMAIN keys = DOMAIN call.given
      BY DEF KeysPassed
    <3>2. \A i \in DOMAIN call.given : call.given[i].row = Row("pending", keys[i])
                                      /\ call.given[i].key = keys[i]
      BY <2>1, <3>1 DEF Removals
    <3> QED BY <3>2 DEF Row
  <2> QED BY <2>1, <2>2 DEF Shape, SqliteKinds, Table
<1>2. ASSUME Storing(call),
             call \in {StorePendingOps(es), StoreOpAuth(es), StoreCapabilities(es), AppendOps(es)}
      PROVE  call.kind \in SqliteKinds /\ \E t : Shape(call, t)
  <2>1. PICK t \in Table : /\ call.rows = call.given /\ call.given = Entries(t, es)
                           /\ call.kind = IF t = "op" THEN "append" ELSE "transaction"
    BY <1>2 DEF StorePendingOps, StoreOpAuth, StoreCapabilities, AppendOps, Table
  <2>2. \A i \in DOMAIN call.given : call.given[i].row = <<t, call.given[i].key>>
    BY <2>1, GivenEntries
  <2>3. \A i \in DOMAIN call.rows : call.rows[i].value # None
    BY <1>2, <2>1 DEF Storing
  <2> QED BY <2>1, <2>2, <2>3 DEF Shape, SqliteKinds
<1>3. ASSUME Storing(call), NEW k, call = LocalOp(k)
      PROVE  call.kind \in SqliteKinds /\ \E t : Shape(call, t)
  <2> DEFINE one == <<[key |-> k, value |-> 1]>>
             en == Entries("op", one)
  <2>1. AppendOps(one) = [kind |-> "append", rows |-> en, given |-> en]
    BY DEF AppendOps
  <2> HIDE DEF en
  <2>2. call = [AppendOps(one) EXCEPT !.kind = "local"]
    BY <1>3 DEF LocalOp
  <2>3. call.kind = "local" /\ call.rows = en /\ call.given = en
    BY <2>1, <2>2
  <2>4. \A i \in DOMAIN en : en[i].row = <<"op", en[i].key>>
    BY DEF en, Entries, Row
  <2>5. \A i \in DOMAIN call.rows : call.rows[i].value # None
    BY <1>3, <2>3 DEF Storing
  <2> QED BY <2>3, <2>4, <2>5 DEF Shape, SqliteKinds, Table
<1> QED BY <1>1, <1>2, <1>3 DEF IsSqliteCall

(* The rows of a call are numbered, those of a call of SQLite in sequence. *)
LEMMA RowIndices ==
  ASSUME NEW call, NEW t, Shape(call, t)
  PROVE  DOMAIN call.given \subseteq Nat /\ DOMAIN call.rows \subseteq Nat
<1>1. PICK S : call.given \in Seq(S)
  BY DEF Shape
<1>2. DOMAIN call.given \subseteq Nat
  BY <1>1
<1> QED BY <1>2 DEF Shape

LEMMA SqliteRows ==
  ASSUME NEW call, NEW t, Shape(call, t), call.kind \in SqliteKinds
  PROVE  Len(call.rows) \in Nat /\ DOMAIN call.rows = 1..Len(call.rows)
<1>1. PICK S : call.given \in Seq(S)
  BY DEF Shape
<1>2. call.rows = call.given
  BY DEF Shape, SqliteKinds
<1> QED BY <1>1, <1>2

(* dedupeLatestByKey keeps entries, of each key the last one. *)
LEMMA DedupeKeepsLatest ==
  ASSUME NEW call, NEW t, call.given = Entries(t, Passed(call)),
         call.rows = Entries(t, DedupeLatestByKey(Passed(call)))
  PROVE  /\ DOMAIN call.rows \subseteq DOMAIN call.given
         /\ \A i \in DOMAIN call.rows : call.rows[i] = call.given[i]
         /\ \A i \in DOMAIN call.rows : \A j \in DOMAIN call.given :
               call.given[j].key = call.given[i].key => j <= i
<1> DEFINE es == Passed(call)
           ds == DedupeLatestByKey(es)
<1>1. DOMAIN call.given = DOMAIN es /\ DOMAIN call.rows = DOMAIN ds
  BY DEF Entries
<1>2. /\ DOMAIN ds \subseteq DOMAIN es
      /\ \A i \in DOMAIN ds : /\ ds[i] = es[i]
                              /\ \A j \in DOMAIN es : es[j].key = es[i].key => j <= i
  BY DEF DedupeLatestByKey
<1>3. /\ \A i \in DOMAIN es : /\ call.given[i] = [row |-> Row(t, es[i].key), key |-> es[i].key,
                                                  value |-> es[i].value]
                              /\ call.given[i].key = es[i].key
      /\ \A i \in DOMAIN ds : call.rows[i] = [row |-> Row(t, ds[i].key), key |-> ds[i].key,
                                              value |-> ds[i].value]
  BY DEF Entries
<1> HIDE DEF es, ds
<1> QED BY <1>1, <1>2, <1>3

LEMMA PgShape ==
  ASSUME NEW call, call.given \in Seq({call.given[i] : i \in DOMAIN call.given}),
         IsPgCall(call)
  PROVE  call.kind \in PgKinds /\ \E t : Shape(call, t)
<1> DEFINE es == Passed(call)
           keys == KeysPassed(call)
<1>1. CASE call = PgDeletePendingOps(keys)
  <2>1. call.kind = "pooled" /\ call.rows = call.given /\ call.given = Removals("pending", keys)
    BY <1>1 DEF PgDeletePendingOps
  <2>2. \A i \in DOMAIN call.given : call.given[i].row = <<"pending", call.given[i].key>>
    <3>1. DOMAIN keys = DOMAIN call.given
      BY DEF KeysPassed
    <3>2. \A i \in DOMAIN call.given : call.given[i].row = Row("pending", keys[i])
                                      /\ call.given[i].key = keys[i]
      BY <2>1, <3>1 DEF Removals
    <3> QED BY <3>2 DEF Row
  <2> QED BY <2>1, <2>2 DEF Shape, PgKinds, Table
<1>2. ASSUME Storing(call), call = PgAppendOps(es)
      PROVE  call.kind \in PgKinds /\ \E t : Shape(call, t)
  <2>1. call.kind = "statement" /\ call.rows = call.given /\ call.given = Entries("op", es)
    BY <1>2 DEF PgAppendOps
  <2>2. \A i \in DOMAIN call.given : call.given[i].row = <<"op", call.given[i].key>>
    BY <2>1, GivenEntries
  <2> QED BY <2>1, <2>2 DEF Shape, PgKinds, Table
<1>3. ASSUME Storing(call),
             call \in {PgStorePendingOps(es), PgStoreOpAuth(es), PgStoreCapabilities(es)}
      PROVE  call.kind \in PgKinds /\ \E t : Shape(call, t)
  <2>1. PICK t \in Table : /\ call.given = Entries(t, es) /\ call.kind = "statement"
                           /\ call.rows = Entries(t, DedupeLatestByKey(es))
    BY <1>3 DEF PgStorePendingOps, PgStoreOpAuth, PgStoreCapabilities, Table
  <2>2. \A i \in DOMAIN call.given : call.given[i].row = <<t, call.given[i].key>>
    BY <2>1, GivenEntries
  <2>3. /\ DOMAIN call.rows \subseteq DOMAIN call.given
        /\ \A i \in DOMAIN call.rows : call.rows[i] = call.given[i]
        /\ \A i \in DOMAIN call.rows : \A j \in DOMAIN call.given :
              call.given[j].key = call.given[i].key => j <= i
    BY <2>1, DedupeKeepsLatest
  <2>4. \A i \in DOMAIN call.rows : call.rows[i].value # None
    BY <1>3, <2>3 DEF Storing
  <2> QED BY <2>1, <2>2, <2>3, <2>4 DEF Shape, PgKinds
<1> QED BY <1>1, <1>2, <1>3 DEF IsPgCall

LEMMA CallShape ==
  ASSUME Assumptions, NEW j \in Job, NEW c \in DOMAIN Program[j]
  PROVE  /\ Program[j] \in Seq({Program[j][d] : d \in DOMAIN Program[j]})
         /\ \E t : Shape(Program[j][c], t)
         /\ Program[j][c].kind \in SqliteKinds \cup PgKinds
BY SqliteShape, PgShape DEF Assumptions, IsSequence

\* Only one kind of store is used.
OneStore ==
    \/ \A j \in Job : \A c \in DOMAIN Program[j] : Program[j][c].kind \in SqliteKinds
    \/ \A j \in Job : \A c \in DOMAIN Program[j] : Program[j][c].kind \in PgKinds

LEMMA ProgramsUseOneStore == ASSUME Assumptions PROVE OneStore
BY SqliteShape, PgShape DEF Assumptions, IsSequence, OneStore

Inside(v) == v.out = "run" /\ v.at = "rows"
JobType == [call : Nat \ {0}, at : {"start", "fallback", "rows"}, i : Nat \ {0},
            out : {"run", "ok", "failed", "lost"}]
\* A place in the program of a job.
JobOK(j, v) ==
    /\ v \in JobType /\ v.call \in DOMAIN Program[j]
    /\ v.out = "run" =>
          LET call == Program[j][v.call]
          IN  /\ v.at = "rows" => call.kind \in {"transaction", "append"}
              /\ call.kind \in SqliteKinds => v.i <= Len(call.rows) + 1
              /\ call.kind = "transaction" /\ v.at = "start" => v.i = 1

MaterialTypeOK ==
    /\ disk = [r \in Rows |-> disk[r]]
    /\ tx = [open |-> tx.open, by |-> tx.by, view |-> tx.view]
    /\ tx.open \in BOOLEAN
    /\ tx.open => tx.view = [r \in Rows |-> tx.view[r]]
    /\ job = [j \in Job |-> job[j]]
    /\ \A j \in Job : JobOK(j, job[j])

\* The open transaction belongs to the one call inside it.
TxOwned ==
    /\ \A j \in Job : Inside(job[j]) => tx.open /\ tx.by = {j}
    /\ tx.open => \E j \in Job : tx.by = {j} /\ Inside(job[j])

\* Its view is the disk with the rows before i of the call, as far as its table is not op.
Before(call, r, i) == {k \in 1..(i - 1) : call.rows[k].row = r}
Wrote(call, i) ==
    \A r \in Rows : r[1] # "op" =>
        tx.view[r] = IF Before(call, r, i) = {} THEN disk[r]
                     ELSE call.rows[LastOf(Before(call, r, i))].value
ViewFollows == \A j \in Job : Inside(job[j]) => Wrote(Program[j][job[j].call], job[j].i)

\* Signatures: an operation that was not issued here has one, and no signature goes away.
Signed(db) ==
    \A k \in Keys \ LocalKeys :
        db[<<"op", k>>] # None => db[<<"auth", k>>] # None
KeepsAuth(db, to) ==
    \A k \in Keys :
        db[<<"auth", k>>] # None => to[<<"auth", k>>] # None
SignaturesStored ==
    \A j \in Job : \A d \in 1..(job[j].call - 1) : \A m \in DOMAIN Program[j][d].rows :
        Program[j][d].rows[m].row[1] = "auth" => disk[Program[j][d].rows[m].row] # None
AuthWritten ==
    \A j \in Job : Inside(job[j]) =>
        \A m \in 1..(job[j].i - 1) :
            LET row == Program[j][job[j].call].rows[m].row
            IN  row[1] = "auth" => tx.view[row] # None
AuthInv ==
    /\ Signed(disk)
    /\ tx.open => Signed(tx.view) /\ KeepsAuth(disk, tx.view)
    /\ SignaturesStored /\ AuthWritten
    /\ forwarded # "missing"

TxInv == MaterialTypeOK /\ TxOwned /\ ViewFollows
MaterialInv == TxInv /\ AuthInv

LEMMA MaterialInit ==
  ASSUME Assumptions, Init
  PROVE  MaterialInv
<1>1. /\ disk = [r \in Rows |-> None]
      /\ tx = [open |-> FALSE, by |-> {}, view |-> <<>>]
      /\ job = [j \in Job |-> [call |-> 1, at |-> "start", i |-> 1, out |-> "run"]]
      /\ forwarded = "none"
  BY DEF Init, NoTx, Start
<1>2. ~tx.open /\ tx = [open |-> tx.open, by |-> tx.by, view |-> tx.view]
  BY <1>1
<1>3. \A j \in Job : /\ job[j] = [call |-> 1, at |-> "start", i |-> 1, out |-> "run"]
                          /\ job[j].call = 1 /\ ~Inside(job[j])
  BY <1>1 DEF Inside
<1>4. \A j \in Job : 1 \in DOMAIN Program[j]
  <2>1. SUFFICES ASSUME NEW j \in Job PROVE 1 \in DOMAIN Program[j]
    OBVIOUS
  <2>2. PICK S : Program[j] \in Seq(S) /\ Len(Program[j]) > 0
    BY DEF Assumptions, IsSequence
  <2> QED BY <2>2
<1>5. MaterialTypeOK
  <2>1. ASSUME NEW j \in Job PROVE JobOK(j, job[j])
    <3>1. PICK t : Shape(Program[j][1], t)
      BY <1>4, CallShape
    <3>2. Program[j][1].kind \in SqliteKinds => Len(Program[j][1].rows) \in Nat
      BY <3>1 DEF Shape, SqliteKinds
    <3>3. job[j] \in JobType /\ job[j].call = 1 /\ job[j].i = 1 /\ job[j].at = "start"
      BY <1>3 DEF JobType
    <3> QED BY <1>4, <3>2, <3>3 DEF JobOK
  <2> QED BY <1>1, <1>2, <2>1 DEF MaterialTypeOK
<1>6. TxOwned /\ ViewFollows
  BY <1>2, <1>3 DEF TxOwned, ViewFollows
<1>7. AuthInv
  <2>1. \A k \in Keys : <<"op", k>> \in Rows
    BY DEF Rows, Table
  <2>2. Signed(disk)
    BY <1>1, <2>1 DEF Signed
  <2> QED BY <1>1, <1>2, <1>3, <2>2 DEF AuthInv, SignaturesStored, AuthWritten
<1> QED BY <1>5, <1>6, <1>7 DEF MaterialInv, TxInv

(* The rows of a call are rows of the stores. *)
LEMMA RowsOfCalls ==
  ASSUME NEW j \in Job, NEW c \in DOMAIN Program[j], NEW t, Shape(Program[j][c], t),
         NEW i \in DOMAIN Program[j][c].rows
  PROVE  /\ Program[j][c].rows[i].row = <<t, Program[j][c].rows[i].key>>
         /\ Program[j][c].rows[i].key \in Keys /\ Program[j][c].rows[i].row \in Rows
<1>1. Program[j][c].rows[i].row = <<t, Program[j][c].rows[i].key>> /\ t \in Table
  BY DEF Shape
<1>2. Program[j][c].rows[i].key \in KeysOf(Program[j][c])
  BY Zenon DEF KeysOf
<1>3. Program[j][c].rows[i].key \in UNION {KeysOf(Program[j][d]) : d \in DOMAIN Program[j]}
  BY <1>2
<1>4. Program[j][c].rows[i].key \in Keys
  BY <1>3 DEF Keys
<1> QED BY <1>1, <1>4 DEF Rows

(* What a job's call is. *)
LEMMA CallFacts ==
  ASSUME Assumptions, MaterialTypeOK, NEW j \in Job
  PROVE  /\ JobOK(j, job[j]) /\ job[j].call \in DOMAIN Program[j] /\ job[j].call \in Nat \ {0}
         /\ Call(j) = Program[j][job[j].call]
         /\ \E t : Shape(Program[j][job[j].call], t)
         /\ Program[j][job[j].call].kind \in SqliteKinds \cup PgKinds
         /\ job[j].call # Len(Program[j]) => job[j].call + 1 \in DOMAIN Program[j]
<1>1. JobOK(j, job[j]) /\ job[j].call \in DOMAIN Program[j] /\ job[j].call \in Nat \ {0}
  BY DEF MaterialTypeOK, JobOK, JobType
<1>2. /\ Program[j] \in Seq({Program[j][d] : d \in DOMAIN Program[j]})
      /\ \E t : Shape(Program[j][job[j].call], t)
      /\ Program[j][job[j].call].kind \in SqliteKinds \cup PgKinds
  BY <1>1, CallShape
<1>3. job[j].call # Len(Program[j]) => job[j].call + 1 \in DOMAIN Program[j]
  BY <1>1, <1>2
<1> QED BY <1>1, <1>2, <1>3 DEF Call

(* A job moves to another place: where it may be, and the other jobs stay. *)
LEMMA Moves ==
  ASSUME MaterialTypeOK, NEW j \in Job, NEW v, JobOK(j, v),
         job' = [job EXCEPT ![j] = v]
  PROVE  /\ job'[j] = v /\ \A q \in Job \ {j} : job'[q] = job[q]
         /\ job' = [q \in Job |-> job'[q]]
         /\ \A q \in Job : JobOK(q, job'[q])
<1>1. job = [q \in Job |-> job[q]] /\ \A q \in Job : JobOK(q, job[q])
  BY DEF MaterialTypeOK
<1>2. DOMAIN job = Job
  BY <1>1
<1>3. /\ job'[j] = v /\ \A q \in Job \ {j} : job'[q] = job[q]
      /\ DOMAIN job' = Job /\ job' = [q \in DOMAIN job' |-> job'[q]]
  BY <1>2
<1> QED BY <1>1, <1>3

(* Where a job is once its call returned, or threw. *)
LEMMA ReturnedTo ==
  ASSUME Assumptions, MaterialTypeOK, NEW j \in Job,
         job' = Returned(j)
  PROVE  \E v : /\ job' = [job EXCEPT ![j] = v] /\ JobOK(j, v) /\ ~Inside(v)
                /\ \/ v.call = job[j].call /\ v.out = "ok"
                   \/ v.call = job[j].call + 1 /\ v.out = "run"
<1>1. JobOK(j, job[j]) /\ (job[j].call # Len(Program[j]) => job[j].call + 1 \in DOMAIN Program[j])
  BY CallFacts
<1>2. job[j] \in JobType
  BY <1>1 DEF JobOK
<1>3. CASE job[j].call = Len(Program[j])
  <2> DEFINE v == [job[j] EXCEPT !.out = "ok"]
  <2>1. job' = [job EXCEPT ![j] = v]
    BY <1>3 DEF Returned
  <2>2. v \in JobType /\ v.call = job[j].call /\ v.out = "ok"
    BY <1>2 DEF JobType
  <2> HIDE DEF v
  <2> QED BY <1>1, <2>1, <2>2 DEF JobOK, Inside
<1>4. CASE job[j].call # Len(Program[j])
  <2> DEFINE v == [Start EXCEPT !.call = job[j].call + 1]
  <2>1. job' = [job EXCEPT ![j] = v]
    BY <1>4 DEF Returned
  <2>2. v = [call |-> job[j].call + 1, at |-> "start", i |-> 1, out |-> "run"]
    BY DEF Start
  <2> HIDE DEF v
  <2>3. v \in JobType /\ v.call = job[j].call + 1 /\ v.at = "start" /\ v.i = 1 /\ v.out = "run"
    BY <1>2, <2>2 DEF JobType
  <2>4. JobOK(j, v)
    <3>1. v.call \in DOMAIN Program[j]
      BY <1>1, <1>4, <2>3
    <3>2. PICK t : Shape(Program[j][v.call], t)
      BY <3>1, CallShape, Zenon
    <3>4. ASSUME Program[j][v.call].kind \in SqliteKinds
          PROVE  v.i <= Len(Program[j][v.call].rows) + 1
      <4>1. Len(Program[j][v.call].rows) \in Nat
        BY <3>2, <3>4, SqliteRows, Zenon
      <4>2. v.i = 1
        BY <2>3
      <4> QED BY <4>1, <4>2
    <3>5. v.at # "rows" /\ v.i = 1 /\ v \in JobType
      BY <2>3
    <3> QED BY <3>1, <3>4, <3>5, Zenon DEF JobOK
  <2> QED BY <2>1, <2>3, <2>4 DEF Inside
<1> QED BY <1>3, <1>4

LEMMA ThrewTo ==
  ASSUME MaterialTypeOK, NEW j \in Job, job' = Threw(j)
  PROVE  \E v : /\ job' = [job EXCEPT ![j] = v] /\ JobOK(j, v) /\ ~Inside(v)
                /\ v.call = job[j].call /\ v.out = "failed"
<1> DEFINE v == [job[j] EXCEPT !.out = "failed"]
<1>1. job' = [job EXCEPT ![j] = v]
  BY DEF Threw
<1>2. JobOK(j, job[j]) /\ job[j] \in JobType
  BY DEF MaterialTypeOK, JobOK
<1>3. v \in JobType /\ v.call = job[j].call /\ v.out = "failed"
  BY <1>2 DEF JobType
<1> HIDE DEF v
<1> QED BY <1>1, <1>2, <1>3 DEF JobOK, Inside

\* The places at which entries write a row.
At(es, r) == {i \in DOMAIN es : es[i].row = r}

(* What writing entries does to a row. *)
LEMMA WrittenRows ==
  ASSUME NEW db, db = [r \in Rows |-> db[r]], NEW es,
         NEW to, to = Written(db, es)
  PROVE  /\ to = [r \in Rows |-> to[r]]
         /\ \A r \in Rows :
              to[r] = IF At(es, r) = {} THEN db[r] ELSE es[LastOf(At(es, r))].value
<1>1. DOMAIN db = Rows
  OBVIOUS
<1>2. to = [r \in Rows |->
              IF At(es, r) = {} THEN db[r] ELSE es[LastOf(At(es, r))].value]
  BY <1>1 DEF Written, At
<1> QED BY <1>2

LEMMA WrittenOne ==
  ASSUME NEW db, db = [r \in Rows |-> db[r]], NEW e, NEW es, es = <<e>>,
         NEW to, to = Written(db, es)
  PROVE  /\ to = [r \in Rows |-> to[r]]
         /\ \A r \in Rows : to[r] = IF e.row = r THEN e.value ELSE db[r]
<1>1. DOMAIN es = {1} /\ es[1] = e
  OBVIOUS
<1>2. LastOf({1}) = 1
  BY LastIs
<1>4. /\ to = [r \in Rows |-> to[r]]
      /\ \A r \in Rows :
           to[r] = IF At(es, r) = {} THEN db[r] ELSE es[LastOf(At(es, r))].value
  BY WrittenRows
<1>5. ASSUME NEW r \in Rows
      PROVE  to[r] = IF e.row = r THEN e.value ELSE db[r]
  <2>1. At(es, r) = IF e.row = r THEN {1} ELSE {}
    BY <1>1 DEF At
  <2> QED BY <1>1, <1>2, <1>4, <2>1
<1> QED BY <1>4, <1>5

(* The elements of a part of a sequence are elements of the sequence. *)
LEMMA PartOf ==
  ASSUME NEW S, NEW s \in Seq(S), NEW a \in Nat \ {0}, NEW b \in 0..Len(s)
  PROVE  /\ DOMAIN SubSeq(s, a, b) \subseteq Nat
         /\ \A i \in DOMAIN SubSeq(s, a, b) : SubSeq(s, a, b)[i] = s[a + i - 1]
         /\ \A i \in DOMAIN SubSeq(s, a, b) : a + i - 1 \in DOMAIN s
<1>1. DOMAIN SubSeq(s, a, b) = 1..(b - a + 1)
  OBVIOUS
<1>2. ASSUME NEW i \in 1..(b - a + 1)
      PROVE  SubSeq(s, a, b)[i] = s[a + i - 1] /\ a + i - 1 \in DOMAIN s
  OBVIOUS
<1> QED BY <1>1, <1>2

(* With Postgres nobody is inside a transaction of the shared connection. *)
LEMMA PgIsOutside ==
  ASSUME Assumptions, MaterialTypeOK, TxOwned, NEW j \in Job,
         job[j].out = "run", Program[j][job[j].call].kind \in PgKinds
  PROVE  ~tx.open /\ ~Inside(job[j])
<1>1. \A q \in Job : \A c \in DOMAIN Program[q] : Program[q][c].kind \in PgKinds
  <2>1. job[j].call \in DOMAIN Program[j] /\ Program[j][job[j].call].kind \notin SqliteKinds
    BY CallFacts DEF PgKinds, SqliteKinds
  <2> QED BY <2>1, ProgramsUseOneStore DEF OneStore
<1>2. ASSUME NEW q \in Job, Inside(job[q]) PROVE FALSE
  <2>1. Program[q][job[q].call].kind \in {"transaction", "append"} /\ job[q].call \in DOMAIN Program[q]
    <3>1. JobOK(q, job[q])
      BY CallFacts
    <3> QED BY <1>2, <3>1 DEF JobOK, Inside
  <2> QED BY <1>1, <2>1 DEF PgKinds
<1> QED BY <1>2 DEF TxOwned


(* The rows before the next statement of a call, and the end of a chunk. *)
LEMMA BeforeNext ==
  ASSUME NEW call, NEW r, NEW i \in Nat \ {0}
  PROVE  Before(call, r, i + 1) = IF call.rows[i].row = r THEN Before(call, r, i) \cup {i}
                                  ELSE Before(call, r, i)
<1>1. 1..(i + 1 - 1) = 1..(i - 1) \cup {i}
  OBVIOUS
<1> QED BY <1>1 DEF Before

LEMMA ChunkEnds ==
  ASSUME NEW i \in Nat \ {0}, NEW n \in Nat, MaxBulk \in Nat \ {0},
         NEW last, last = IF i + MaxBulk - 1 < n THEN i + MaxBulk - 1 ELSE n
  PROVE  last \in Nat /\ last <= n
OBVIOUS

(* Every step keeps the transaction with its owner and its view in step. *)
LEMMA TxNext ==
  ASSUME Assumptions, TxInv, [Next]_vars
  PROVE  TxInv'
<1> DEFINE kind(j) == Program[j][job[j].call].kind
           rows(j) == Program[j][job[j].call].rows
<1>1. MaterialTypeOK /\ TxOwned /\ ViewFollows
  BY DEF TxInv
<1>2. ASSUME NEW j \in Job
      PROVE  /\ Call(j) = Program[j][job[j].call]
             /\ job[j] \in JobType /\ JobOK(j, job[j])
             /\ kind(j) \in SqliteKinds => Len(rows(j)) \in Nat /\ DOMAIN rows(j) = 1..Len(rows(j))
             /\ \E t : Shape(Program[j][job[j].call], t)
  <2>1. PICK t : Shape(Program[j][job[j].call], t)
    BY <1>1, CallFacts
  <2>2. kind(j) \in SqliteKinds => Len(rows(j)) \in Nat /\ DOMAIN rows(j) = 1..Len(rows(j))
    <3>1. PICK S : Program[j][job[j].call].given \in Seq(S)
      BY <2>1, Zenon DEF Shape
    <3>2. kind(j) \in SqliteKinds => rows(j) = Program[j][job[j].call].given
      BY <2>1, Zenon DEF Shape, SqliteKinds
    <3> QED BY <3>1, <3>2
  <2> QED BY <1>1, <2>1, <2>2, CallFacts DEF JobOK
<1>3. /\ disk = [r \in Rows |-> disk[r]] /\ tx.open \in BOOLEAN
      /\ tx = [open |-> tx.open, by |-> tx.by, view |-> tx.view]
      /\ tx.open => tx.view = [r \in Rows |-> tx.view[r]]
  BY <1>1 DEF MaterialTypeOK
(* A step outside the transaction, of a job that stays outside. *)
<1>4. ASSUME NEW j \in Job, NEW v, JobOK(j, v), ~Inside(v), ~Inside(job[j]),
             job' = [job EXCEPT ![j] = v], UNCHANGED <<disk, tx>>
      PROVE  TxInv'
  <2>1. /\ job'[j] = v /\ \A q \in Job \ {j} : job'[q] = job[q]
        /\ job' = [q \in Job |-> job'[q]] /\ \A q \in Job : JobOK(q, job'[q])
    BY <1>1, <1>4, Moves
  <2>2. MaterialTypeOK'
    BY <1>1, <1>4, <2>1 DEF MaterialTypeOK
  <2>3. TxOwned'
    BY <1>1, <1>4, <2>1 DEF TxOwned
  <2>4. ViewFollows'
    BY <1>1, <1>4, <2>1 DEF ViewFollows, Wrote
  <2> QED BY <2>2, <2>3, <2>4 DEF TxInv
(* The transaction ends with the call of its owner. *)
<1>5. ASSUME NEW j \in Job, NEW v, JobOK(j, v), ~Inside(v), Inside(job[j]),
             job' = [job EXCEPT ![j] = v], tx' = NoTx,
             disk' = [r \in Rows |-> disk'[r]]
      PROVE  TxInv'
  <2>1. /\ job'[j] = v /\ \A q \in Job \ {j} : job'[q] = job[q]
        /\ job' = [q \in Job |-> job'[q]] /\ \A q \in Job : JobOK(q, job'[q])
    BY <1>1, <1>5, Moves
  <2>2. ~tx'.open /\ tx' = [open |-> tx'.open, by |-> tx'.by, view |-> tx'.view]
    BY <1>5 DEF NoTx
  <2>3. \A q \in Job : ~Inside(job'[q])
    <3>1. tx.by = {j}
      BY <1>1, <1>5 DEF TxOwned
    <3>2. \A q \in Job \ {j} : ~Inside(job[q])
      BY <1>1, <3>1 DEF TxOwned
    <3> QED BY <1>5, <2>1, <3>2
  <2>4. MaterialTypeOK'
    <3>1. disk' = [r \in Rows |-> disk'[r]] /\ tx'.open \in BOOLEAN
      BY <1>5 DEF NoTx
    <3> QED BY <2>1, <2>2, <3>1 DEF MaterialTypeOK
  <2> QED BY <2>2, <2>3, <2>4 DEF TxInv, TxOwned, ViewFollows
(* A statement of a job outside the transaction, on rows of op if the transaction is open. *)
<1>6. ASSUME NEW j \in Job, NEW v, JobOK(j, v), ~Inside(v), ~Inside(job[j]),
             job' = [job EXCEPT ![j] = v], NEW es,
             \/ tx.open /\ tx' = [tx EXCEPT !.view = Written(@, es)] /\ UNCHANGED disk
             \/ ~tx.open /\ disk' = Written(disk, es) /\ UNCHANGED tx,
             tx.open => \A i \in DOMAIN es : es[i].row[1] = "op"
      PROVE  TxInv'
  <2>1. /\ job'[j] = v /\ \A q \in Job \ {j} : job'[q] = job[q]
        /\ job' = [q \in Job |-> job'[q]] /\ \A q \in Job : JobOK(q, job'[q])
    BY <1>1, <1>6, Moves
  <2>2. CASE tx.open
    <3> DEFINE view == Written(tx.view, es)
    <3>1. /\ view = [r \in Rows |-> view[r]]
          /\ \A r \in Rows : r[1] # "op" => view[r] = tx.view[r]
      <4>1. /\ view = [r \in Rows |-> view[r]]
            /\ \A r \in Rows : view[r] = IF At(es, r) = {} THEN tx.view[r]
                                              ELSE es[LastOf(At(es, r))].value
        <5> HIDE DEF view
        <5>1. view = Written(tx.view, es)
          BY DEF view
        <5> QED BY <1>3, <2>2, <5>1, WrittenRows
      <4> HIDE DEF view
      <4>2. ASSUME NEW r \in Rows, r[1] # "op" PROVE At(es, r) = {}
        BY <1>6, <2>2, <4>2 DEF At
      <4> QED BY <4>1, <4>2
    <3>2. /\ tx' = [open |-> tx.open, by |-> tx.by, view |-> view] /\ UNCHANGED disk
      BY <1>3, <1>6, <2>2
    <3> HIDE DEF view
    <3>3. tx'.open = tx.open /\ tx'.by = tx.by /\ tx'.view = view
      BY <3>2
    <3>4. MaterialTypeOK'
      BY <1>3, <2>1, <2>2, <3>1, <3>2, <3>3 DEF MaterialTypeOK
    <3>5. TxOwned'
      BY <1>1, <1>6, <2>1, <3>3 DEF TxOwned
    <3>6. ViewFollows'
      <4>1. ASSUME NEW q \in Job, Inside(job'[q])
            PROVE  Wrote(Program[q][job[q].call], job[q].i)'
        <5>1. job'[q] = job[q] /\ Wrote(Program[q][job[q].call], job[q].i)
          BY <1>1, <1>6, <2>1, <4>1 DEF ViewFollows
        <5>2. disk' = disk
          BY <3>2
        <5> QED BY <3>1, <3>3, <5>1, <5>2
               DEF Wrote
      <4> QED BY <4>1 DEF ViewFollows
    <3> QED BY <3>4, <3>5, <3>6 DEF TxInv
  <2>3. CASE ~tx.open
    <3>1. disk' = [r \in Rows |-> disk'[r]] /\ UNCHANGED tx
      BY <1>3, <1>6, <2>3, WrittenRows
    <3>2. \A q \in Job : ~Inside(job'[q])
      BY <1>1, <1>6, <2>1, <2>3 DEF TxOwned
    <3>3. MaterialTypeOK'
      BY <1>3, <2>1, <2>3, <3>1 DEF MaterialTypeOK
    <3> QED BY <2>3, <3>1, <3>2, <3>3 DEF TxInv, TxOwned, ViewFollows
  <2> QED BY <1>3, <2>2, <2>3
(* A job that is at rows is the owner of the transaction; no other job is inside. *)
<1>7. ASSUME NEW j \in Job, Inside(job[j])
      PROVE  tx.open /\ tx.by = {j} /\ \A q \in Job \ {j} : ~Inside(job[q])
  BY <1>1, <1>7 DEF TxOwned
<1>8. ASSUME NEW j \in Job, Begin(j) PROVE TxInv'
  <2>1. /\ job[j].out = "run" /\ kind(j) \in {"transaction", "append"} /\ UNCHANGED disk
        /\ kind(j) = "transaction" => job[j].at = "start"
        /\ job[j].at \in {"start", "fallback"}
    BY <1>2, <1>8 DEF Begin, AtCall
  <2>2. CASE tx.open
    <3>1. job' = Threw(j) /\ UNCHANGED tx
      BY <1>8, <2>2 DEF Begin
    <3>2. PICK v : /\ job' = [job EXCEPT ![j] = v] /\ JobOK(j, v) /\ ~Inside(v)
      BY <1>1, <3>1, ThrewTo
    <3>3. ~Inside(job[j])
      BY <2>1 DEF Inside
    <3> QED BY <1>4, <2>1, <3>1, <3>2, <3>3
  <2>3. CASE ~tx.open
    <3>1. /\ job' = [job EXCEPT ![j].at = "rows"]
          /\ tx' = [open |-> TRUE, by |-> {j}, view |-> disk]
      BY <1>8, <2>3 DEF Begin
    <3>2. PICK v : v = [job[j] EXCEPT !.at = "rows"]
      OBVIOUS
    <3>3. job' = [job EXCEPT ![j] = v]
      BY <3>1, <3>2
    <3>4. v \in JobType /\ v.call = job[j].call /\ v.i = job[j].i /\ v.at = "rows" /\ v.out = "run"
      BY <1>2, <2>1, <3>2 DEF JobType
    <3>5. JobOK(j, v) /\ Inside(v)
      BY <1>2, <2>1, <3>4 DEF JobOK, Inside
    <3>6. /\ job'[j] = v /\ \A q \in Job \ {j} : job'[q] = job[q]
          /\ job' = [q \in Job |-> job'[q]] /\ \A q \in Job : JobOK(q, job'[q])
      BY <1>1, <3>3, <3>5, Moves
    <3>7. tx'.open = TRUE /\ tx'.by = {j} /\ tx'.view = disk /\ tx'.open \in BOOLEAN
          /\ tx' = [open |-> tx'.open, by |-> tx'.by, view |-> tx'.view]
      BY <3>1
    <3>8. \A q \in Job \ {j} : ~Inside(job'[q])
      BY <1>1, <2>3, <3>6 DEF TxOwned
    <3>9. MaterialTypeOK'
      <4>1. disk' = disk /\ disk' = [r \in Rows |-> disk'[r]]
            /\ tx'.view = [r \in Rows |-> tx'.view[r]]
        BY <1>3, <2>1, <3>7
      <4> QED BY <3>6, <3>7, <4>1 DEF MaterialTypeOK
    <3>10. TxOwned'
      BY <3>5, <3>6, <3>7, <3>8 DEF TxOwned
    <3>11. Wrote(Program[j][job[j].call], job[j].i)'
      <4>1. ASSUME NEW r \in Rows, r[1] # "op" PROVE Before(Program[j][job[j].call], r, job[j].i) = {}
        <5>1. CASE kind(j) = "transaction"
          <6>1. job[j].i = 1
            BY <1>2, <2>1, <5>1 DEF JobOK
          <6> QED BY <6>1 DEF Before
        <5>2. CASE kind(j) = "append"
          <6>1. PICK t : Shape(Program[j][job[j].call], t)
            BY <1>2
          <6>2. \A k \in DOMAIN rows(j) : rows(j)[k].row[1] = "op"
            <7>1. t = "op"
              BY <5>2, <6>1, Zenon DEF Shape
            <7>2. \A k \in DOMAIN rows(j) : rows(j)[k].row = <<t, Program[j][job[j].call].given[k].key>>
              BY <6>1, Zenon DEF Shape
            <7> QED BY <7>1, <7>2
          <6>3. job[j].i <= Len(rows(j)) + 1 /\ job[j].i \in Nat /\ Len(rows(j)) \in Nat
                /\ DOMAIN rows(j) = 1..Len(rows(j))
            BY <1>2, <2>1, <5>2 DEF JobOK, SqliteKinds, JobType
          <6>4. \A k \in 1..(job[j].i - 1) : k \in DOMAIN rows(j)
            BY <6>3
          <6> QED BY <4>1, <6>2, <6>4 DEF Before
        <5> QED BY <2>1, <5>1, <5>2
      <4>2. disk' = disk /\ job'[j].call = job[j].call /\ job'[j].i = job[j].i
        BY <2>1, <3>4, <3>6
      <4> QED BY <3>7, <4>1, <4>2 DEF Wrote
    <3>12. ViewFollows'
      BY <3>8, <3>11 DEF ViewFollows
    <3> QED BY <3>9, <3>10, <3>12 DEF TxInv
  <2> QED BY <1>3, <2>2, <2>3
<1>9. ASSUME NEW j \in Job, Statement(j) PROVE TxInv'
  <2>1. /\ Inside(job[j]) /\ kind(j) \in {"transaction", "append"} /\ job[j].i <= Len(rows(j))
        /\ job' = [job EXCEPT ![j].i = @ + 1] /\ Execute(<<rows(j)[job[j].i]>>)
    BY <1>2, <1>9 DEF Statement, Inside
  <2>2. tx.open /\ tx.by = {j} /\ \A q \in Job \ {j} : ~Inside(job[q])
    BY <1>7, <2>1
  <2>3. PICK es : es = <<rows(j)[job[j].i]>>
    OBVIOUS
  <2>4. PICK view : view = Written(tx.view, es)
    OBVIOUS
  <2>5. tx' = [tx EXCEPT !.view = view] /\ UNCHANGED disk
    BY <2>1, <2>2, <2>3, <2>4 DEF Execute
  <2>6. /\ view = [r \in Rows |-> view[r]]
        /\ \A r \in Rows :
             view[r] = IF rows(j)[job[j].i].row = r THEN rows(j)[job[j].i].value ELSE tx.view[r]
    <3>1. PICK e : e = rows(j)[job[j].i]
      OBVIOUS
    <3>2. es = <<e>> /\ tx.view = [r \in Rows |-> tx.view[r]]
      BY <1>3, <2>2, <2>3, <3>1
    <3>3. /\ view = [r \in Rows |-> view[r]]
          /\ \A r \in Rows : view[r] = IF e.row = r THEN e.value ELSE tx.view[r]
      BY <2>4, <3>2, WrittenOne
    <3> QED BY <3>1, <3>3
  <2>7. /\ tx' = [open |-> tx.open, by |-> tx.by, view |-> view]
        /\ tx'.open = tx.open /\ tx'.by = tx.by /\ tx'.view = view
    BY <1>3, <2>5
  <2>8. PICK v : v = [job[j] EXCEPT !.i = @ + 1]
    OBVIOUS
  <2>9. job' = [job EXCEPT ![j] = v]
    BY <2>1, <2>8
  <2>10. /\ v \in JobType /\ v.call = job[j].call /\ v.i = job[j].i + 1 /\ v.at = "rows" /\ v.out = "run"
         /\ job[j].i \in Nat \ {0}
    <3>1. job[j] \in JobType /\ job[j].i \in Nat \ {0}
      BY <1>2 DEF JobType
    <3>2. job[j].at = "rows" /\ job[j].out = "run"
      BY <2>1 DEF Inside
    <3> QED BY <2>8, <3>1, <3>2 DEF JobType
  <2>11. JobOK(j, v) /\ Inside(v)
    <3>1. Len(rows(j)) \in Nat
      BY <1>2, <2>1 DEF SqliteKinds
    <3>2. job[j].i + 1 <= Len(rows(j)) + 1
      BY <2>1, <2>10, <3>1
    <3>3. job[j].call \in DOMAIN Program[j]
      BY <1>2, Zenon DEF JobOK
    <3> QED BY <2>1, <2>10, <3>2, <3>3, Zenon DEF JobOK, Inside
  <2>12. /\ job'[j] = v /\ \A q \in Job \ {j} : job'[q] = job[q]
         /\ job' = [q \in Job |-> job'[q]] /\ \A q \in Job : JobOK(q, job'[q])
    BY <1>1, <2>9, <2>11, Moves
  <2>13. MaterialTypeOK'
    <3>1. disk' = [r \in Rows |-> disk'[r]] /\ tx'.view = [r \in Rows |-> tx'.view[r]]
          /\ tx'.open \in BOOLEAN /\ tx' = [open |-> tx'.open, by |-> tx'.by, view |-> tx'.view]
      BY <1>3, <2>5, <2>6, <2>7
    <3> QED BY <2>12, <3>1 DEF MaterialTypeOK
  <2>14. TxOwned'
    BY <2>2, <2>7, <2>11, <2>12 DEF TxOwned
  <2>15. Wrote(Program[j][job[j].call], job[j].i)'
    <3> DEFINE call == Program[j][job[j].call]
               i == job[j].i
    <3>1. Wrote(call, i)
      BY <1>1, <2>1 DEF ViewFollows
    <3>2. ASSUME NEW r \in Rows, r[1] # "op"
          PROVE  view[r] = IF Before(call, r, i + 1) = {} THEN disk[r]
                           ELSE call.rows[LastOf(Before(call, r, i + 1))].value
      <4>1. Before(call, r, i + 1) = IF call.rows[i].row = r THEN Before(call, r, i) \cup {i}
                                     ELSE Before(call, r, i)
        <5>1. job[j].i \in Nat \ {0}
          BY <2>10
        <5> QED BY <5>1, BeforeNext, Zenon
      <4>2. CASE call.rows[i].row = r
        <5>1. i \in Before(call, r, i + 1) /\ \A k \in Before(call, r, i + 1) : k <= i
          BY <2>10, <4>2 DEF Before
        <5>2. Before(call, r, i + 1) \in SUBSET Nat
          BY <2>10 DEF Before
        <5>3. LastOf(Before(call, r, i + 1)) = i
          BY <5>1, <5>2, LastIs
        <5> QED BY <2>6, <4>2, <5>1, <5>3
      <4>3. CASE call.rows[i].row # r
        BY <2>6, <3>1, <3>2, <4>1, <4>3 DEF Wrote
      <4> QED BY <4>2, <4>3
    <3>3. disk' = disk /\ job'[j].call = job[j].call /\ job'[j].i = i + 1 /\ tx'.view = view
      BY <2>5, <2>7, <2>10, <2>12
    <3> QED BY <3>2, <3>3 DEF Wrote
  <2>16. ViewFollows'
    BY <2>2, <2>12, <2>15 DEF ViewFollows
  <2> QED BY <2>13, <2>14, <2>16 DEF TxInv
<1>10. ASSUME NEW j \in Job, Commit(j) \/ Rollback(j) PROVE TxInv'
  <2>1. /\ job[j].out = "run" /\ job[j].at = "rows" /\ tx' = NoTx
        /\ \/ job' = Returned(j) /\ disk' = tx.view
           \/ job' = Threw(j) /\ disk' = disk
    BY <1>10 DEF Commit, Rollback, Closed
  <2>2. Inside(job[j]) /\ tx.open
    <3>1. Inside(job[j])
      BY <2>1 DEF Inside
    <3> QED BY <1>7, <3>1
  <2>3. disk' = [r \in Rows |-> disk'[r]]
    BY <1>3, <2>1, <2>2
  <2>4. PICK v : job' = [job EXCEPT ![j] = v] /\ JobOK(j, v) /\ ~Inside(v)
    <3>1. CASE job' = Returned(j)
      BY <1>1, <3>1, ReturnedTo
    <3>2. CASE job' = Threw(j)
      BY <1>1, <3>2, ThrewTo
    <3> QED BY <2>1, <3>1, <3>2
  <2> QED BY <1>5, <2>1, <2>2, <2>3, <2>4
<1>11. ASSUME NEW j \in Job, Chunk(j) PROVE TxInv'
  <2>1. /\ job[j].out = "run" /\ job[j].at = "start" /\ kind(j) \in {"append", "local"}
    BY <1>2, <1>11 DEF Chunk, AtCall
  <2>2. PICK last : /\ last = IF job[j].i + MaxBulk - 1 < Len(rows(j)) THEN job[j].i + MaxBulk - 1 ELSE Len(rows(j))
                    /\ Execute(SubSeq(rows(j), job[j].i, last))
                    /\ job' = IF last = Len(rows(j)) THEN Returned(j)
                              ELSE [job EXCEPT ![j].i = last + 1]
    BY <1>2, <1>11 DEF Chunk
  <2>3. /\ job[j].i \in Nat \ {0} /\ Len(rows(j)) \in Nat /\ DOMAIN rows(j) = 1..Len(rows(j))
        /\ last \in Nat /\ last <= Len(rows(j))
    <3>1. job[j].i \in Nat \ {0}
      BY <1>2 DEF JobType
    <3>2. Len(rows(j)) \in Nat /\ DOMAIN rows(j) = 1..Len(rows(j))
      BY <1>2, <2>1 DEF SqliteKinds
    <3>3. MaxBulk \in Nat \ {0}
      BY Zenon DEF Assumptions
    <3> QED BY <2>2, <3>1, <3>2, <3>3, ChunkEnds
  <2>4. PICK es : es = SubSeq(rows(j), job[j].i, last)
    OBVIOUS
  <2>5. \A i \in DOMAIN es : es[i].row[1] = "op"
    <3>1. PICK t : Shape(Program[j][job[j].call], t)
      BY <1>2
    <3>2. \A k \in DOMAIN rows(j) : rows(j)[k].row[1] = "op"
      <4>1. t = "op"
        BY <2>1, <3>1, Zenon DEF Shape
      <4>2. \A k \in DOMAIN rows(j) : rows(j)[k].row = <<t, Program[j][job[j].call].given[k].key>>
        BY <3>1, Zenon DEF Shape
      <4> QED BY <4>1, <4>2
    <3>3. PICK S : rows(j) \in Seq(S)
      <4>1. PICK S : Program[j][job[j].call].given \in Seq(S)
        BY <3>1 DEF Shape
      <4>2. rows(j) = Program[j][job[j].call].given
        BY <2>1, <3>1, Zenon DEF Shape
      <4> QED BY <4>1, <4>2
    <3>4. last \in 0..Len(rows(j))
      BY <2>3
    <3>5. /\ \A i \in DOMAIN es : es[i] = rows(j)[job[j].i + i - 1]
          /\ \A i \in DOMAIN es : job[j].i + i - 1 \in DOMAIN rows(j)
      BY <2>3, <2>4, <3>3, <3>4, PartOf, Zenon
    <3> QED BY <3>2, <3>5
  <2>6. PICK v : job' = [job EXCEPT ![j] = v] /\ JobOK(j, v) /\ ~Inside(v)
    <3>1. CASE last = Len(rows(j))
      BY <1>1, <2>2, <3>1, ReturnedTo, Zenon
    <3>2. CASE last # Len(rows(j))
      <4>1. PICK v : v = [job[j] EXCEPT !.i = last + 1]
        OBVIOUS
      <4>2. job' = [job EXCEPT ![j] = v]
        BY <2>2, <3>2, <4>1
      <4>3. v \in JobType /\ v.call = job[j].call /\ v.i = last + 1 /\ v.at = "start" /\ v.out = "run"
        BY <1>2, <2>1, <2>3, <4>1 DEF JobType
      <4>4. JobOK(j, v) /\ ~Inside(v)
        BY <1>2, <2>1, <2>3, <4>3 DEF JobOK, Inside
      <4> QED BY <4>2, <4>4
    <3> QED BY <3>1, <3>2
  <2>7. ~Inside(job[j])
    BY <2>1 DEF Inside
  <2>8. \/ tx.open /\ tx' = [tx EXCEPT !.view = Written(@, es)] /\ UNCHANGED disk
        \/ ~tx.open /\ disk' = Written(disk, es) /\ UNCHANGED tx
    BY <1>3, <2>2, <2>4, Zenon DEF Execute
  <2> QED BY <1>6, <2>5, <2>6, <2>7, <2>8
<1>12. ASSUME NEW j \in Job, ChunkFails(j) PROVE TxInv'
  <2>1. /\ job[j].out = "run" /\ job[j].at = "start" /\ kind(j) \in {"append", "local"}
        /\ UNCHANGED <<disk, tx>>
        /\ job' = IF kind(j) = "append" THEN [job EXCEPT ![j].at = "fallback"] ELSE Threw(j)
    BY <1>2, <1>12 DEF ChunkFails, AtCall
  <2>2. PICK v : job' = [job EXCEPT ![j] = v] /\ JobOK(j, v) /\ ~Inside(v)
    <3>1. CASE kind(j) = "append"
      <4>1. PICK v : v = [job[j] EXCEPT !.at = "fallback"]
        OBVIOUS
      <4>2. job' = [job EXCEPT ![j] = v]
        BY <2>1, <3>1, <4>1
      <4>3. v \in JobType /\ v.call = job[j].call /\ v.i = job[j].i /\ v.at = "fallback" /\ v.out = "run"
        BY <1>2, <2>1, <4>1 DEF JobType
      <4>4. JobOK(j, v) /\ ~Inside(v)
        BY <1>2, <2>1, <4>3 DEF JobOK, Inside
      <4> QED BY <4>2, <4>4
    <3>2. CASE kind(j) # "append"
      BY <1>1, <2>1, <3>2, ThrewTo
    <3> QED BY <3>1, <3>2
  <2>3. ~Inside(job[j])
    BY <2>1 DEF Inside
  <2> QED BY <1>4, <2>1, <2>2, <2>3
(* With Postgres nobody is inside a transaction of the shared connection. *)
<1>13. ASSUME NEW j \in Job, job[j].out = "run", kind(j) \in PgKinds
       PROVE  ~tx.open /\ ~Inside(job[j])
  BY <1>1, <1>13, PgIsOutside
<1>14. ASSUME NEW j \in Job, PgStatement(j) \/ PgCommit(j) PROVE TxInv'
  <2>1. /\ job[j].out = "run" /\ kind(j) \in PgKinds /\ UNCHANGED tx
        /\ disk' = Written(disk, rows(j)) /\ job' = Returned(j)
    BY <1>2, <1>14 DEF PgStatement, PgCommit, AtCall, PgKinds
  <2>2. PICK v : job' = [job EXCEPT ![j] = v] /\ JobOK(j, v) /\ ~Inside(v)
    BY <1>1, <2>1, ReturnedTo
  <2>3. PICK es : es = rows(j)
    OBVIOUS
  <2>4. ~tx.open /\ ~Inside(job[j])
    BY <1>13, <2>1
  <2> QED BY <1>6, <2>1, <2>2, <2>3, <2>4
<1>15. ASSUME NEW j \in Job, PgDeleteRow(j) PROVE TxInv'
  <2>1. /\ job[j].out = "run" /\ kind(j) = "pooled" /\ UNCHANGED <<disk, tx>>
        /\ job' = [job EXCEPT ![j].i = @ + 1]
    BY <1>2, <1>15 DEF PgDeleteRow, AtCall
  <2>2. PICK v : v = [job[j] EXCEPT !.i = @ + 1]
    OBVIOUS
  <2>3. job' = [job EXCEPT ![j] = v]
    BY <2>1, <2>2
  <2>4. ~Inside(job[j])
    BY <1>13, <2>1 DEF PgKinds
  <2>5. v \in JobType /\ v.call = job[j].call /\ v.at = job[j].at /\ v.out = "run"
    BY <1>2, <2>1, <2>2 DEF JobType
  <2>6. JobOK(j, v) /\ ~Inside(v)
    <3>1. v.at # "rows"
      BY <2>1, <2>4, <2>5 DEF Inside
    <3> QED BY <1>2, <2>1, <2>5, <3>1 DEF JobOK, Inside, SqliteKinds
  <2> QED BY <1>4, <2>1, <2>3, <2>4, <2>6
<1>16. ASSUME NEW j \in Job, PgFails(j) PROVE TxInv'
  <2>1. /\ job[j].out = "run" /\ kind(j) \in PgKinds /\ UNCHANGED <<disk, tx>>
        /\ job' = Threw(j)
    BY <1>2, <1>16 DEF PgFails, PgKinds
  <2>2. PICK v : job' = [job EXCEPT ![j] = v] /\ JobOK(j, v) /\ ~Inside(v)
    BY <1>1, <2>1, ThrewTo
  <2>3. ~Inside(job[j])
    BY <1>13, <2>1
  <2> QED BY <1>4, <2>1, <2>2, <2>3
<1>17. ASSUME UNCHANGED <<disk, tx, job>> PROVE TxInv'
  <2>1. MaterialTypeOK' /\ TxOwned'
    BY <1>1, <1>17 DEF MaterialTypeOK, TxOwned
  <2>2. ViewFollows'
    BY <1>1, <1>17 DEF ViewFollows, Wrote
  <2> QED BY <2>1, <2>2 DEF TxInv
<1>18. ASSUME Crash PROVE TxInv'
  <2>1. /\ tx' = NoTx /\ disk' = disk
        /\ job' = [j \in Job |-> IF job[j].out = "run" THEN [job[j] EXCEPT !.out = "lost"] ELSE job[j]]
    BY <1>18 DEF Crash
  <2>2. tx'.open = FALSE /\ tx' = [open |-> tx'.open, by |-> tx'.by, view |-> tx'.view]
    BY <2>1 DEF NoTx
  <2>3. ASSUME NEW q \in Job PROVE ~Inside(job'[q]) /\ JobOK(q, job'[q])
    <3>1. job'[q] = IF job[q].out = "run" THEN [job[q] EXCEPT !.out = "lost"] ELSE job[q]
      BY <2>1
    <3>2. CASE job[q].out = "run"
      <4>1. job'[q] \in JobType /\ job'[q].call = job[q].call /\ job'[q].out = "lost"
        BY <1>2, <3>1, <3>2 DEF JobType
      <4> QED BY <1>2, <4>1 DEF JobOK, Inside
    <3>3. CASE job[q].out # "run"
      BY <1>2, <3>1, <3>3 DEF Inside
    <3> QED BY <3>2, <3>3
  <2>4. MaterialTypeOK'
    <3>1. job' = [q \in Job |-> job'[q]]
      BY <2>1
    <3>2. disk' = [r \in Rows |-> disk'[r]] /\ tx'.open \in BOOLEAN
      BY <1>3, <2>1, <2>2, Zenon
    <3> QED BY <2>2, <2>3, <3>1, <3>2 DEF MaterialTypeOK
  <2> QED BY <2>2, <2>3, <2>4 DEF TxInv, TxOwned, ViewFollows
<1>19. CASE Next
  <2>1. CASE Forward
    BY <1>17, <2>1 DEF Forward
  <2> QED BY <1>8, <1>9, <1>10, <1>11, <1>12, <1>14, <1>15, <1>16, <1>18, <1>19, <2>1
       DEF Next, Step
<1>20. CASE UNCHANGED vars
  BY <1>17, <1>20 DEF vars
<1> QED BY <1>19, <1>20

(* verifyOps stores the signature of a remote operation in an earlier call. *)
LEMMA SignedBefore ==
  ASSUME SignaturesFirst, NEW j \in Job, NEW c \in DOMAIN Program[j],
         NEW i \in DOMAIN Program[j][c].rows,
         Program[j][c].rows[i].row[1] = "op", Program[j][c].rows[i].key \notin LocalKeys
  PROVE  \E d \in 1..(c - 1) : \E m \in DOMAIN Program[j][d].rows :
            Program[j][d].rows[m].row = Row("auth", Program[j][c].rows[i].key)
BY DEF SignaturesFirst

(* A row a call writes: a signature is a value, and an operation that was not issued here *)
(* has its signature on disk, stored by an earlier call.                                  *)
LEMMA RowWrites ==
  ASSUME Assumptions, SignaturesFirst, MaterialTypeOK,
         SignaturesStored, NEW j \in Job, NEW i \in DOMAIN Program[j][job[j].call].rows
  PROVE  /\ Program[j][job[j].call].rows[i].row \in Rows
         /\ Program[j][job[j].call].rows[i].row[1] = "auth" =>
               Program[j][job[j].call].rows[i].value # None
         /\ \A k \in Keys \ LocalKeys :
               Program[j][job[j].call].rows[i].row = <<"op", k>> => disk[<<"auth", k>>] # None
<1>1. job[j].call \in DOMAIN Program[j]
  BY CallFacts
<1>2. PICK t : Shape(Program[j][job[j].call], t)
  BY CallFacts
<1>3. PICK e : e = Program[j][job[j].call].rows[i]
  OBVIOUS
<1>4. e.row = <<t, e.key>> /\ e.row \in Rows
  BY <1>1, <1>2, <1>3, RowsOfCalls
<1>5. e.row[1] = "auth" => e.value # None
  <2>1. t = "auth" => e.value # None
    BY <1>2, <1>3, Zenon DEF Shape
  <2> QED BY <1>4, <2>1
<1>6. ASSUME NEW k \in Keys \ LocalKeys, e.row = <<"op", k>>
      PROVE  disk[<<"auth", k>>] # None
  <2>1. e.row[1] = "op" /\ e.key = k
    BY <1>4, <1>6
  <2>2. PICK d \in 1..(job[j].call - 1) : \E m \in DOMAIN Program[j][d].rows :
           Program[j][d].rows[m].row = Row("auth", k)
    <3> DEFINE first == Program[j][job[j].call].rows[i]
    <3>1. first.row[1] = "op" /\ first.key = k
      BY <1>3, <2>1
    <3>2. first.key \notin LocalKeys
      BY <3>1
    <3>3. \E d \in 1..(job[j].call - 1) : \E m \in DOMAIN Program[j][d].rows :
             Program[j][d].rows[m].row = Row("auth", first.key)
      BY <1>1, <3>1, <3>2, SignedBefore, Zenon
    <3> HIDE DEF first
    <3> QED BY <3>1, <3>3
  <2>3. PICK m \in DOMAIN Program[j][d].rows : Program[j][d].rows[m].row = <<"auth", k>>
    BY <2>2 DEF Row
  <2> QED BY <2>3 DEF SignaturesStored
<1> QED BY <1>3, <1>4, <1>5, <1>6, Zenon

(* Rows of auth are written once by a statement. *)
LEMMA AuthRowsOnce ==
  ASSUME NEW call, NEW t, Shape(call, t), call.kind \in PgKinds,
         NEW i \in DOMAIN call.rows, NEW k \in DOMAIN call.rows,
         call.rows[i].row[1] = "auth", call.rows[k].row = call.rows[i].row
  PROVE  k = i
<1>1. /\ i \in DOMAIN call.given /\ k \in DOMAIN call.given
      /\ call.rows[i].row = <<t, call.given[i].key>> /\ call.rows[k].row = <<t, call.given[k].key>>
  BY DEF Shape
<1>2. t = "auth" /\ call.given[i].key = call.given[k].key
  BY <1>1
<1>3. call.kind = "statement"
  BY <1>2 DEF Shape, PgKinds
<1>4. k <= i /\ i <= k
  BY <1>1, <1>2, <1>3 DEF Shape
<1>5. i \in Nat /\ k \in Nat
  <2>1. PICK S : call.given \in Seq(S)
    BY DEF Shape
  <2> QED BY <1>1, <2>1
<1> QED BY <1>4, <1>5

(* Writing entries keeps every signature, and operations signed. *)
LEMMA WriteKeeps ==
  ASSUME NEW db, db = [r \in Rows |-> db[r]], Signed(db),
         NEW es, DOMAIN es \subseteq Nat, NEW to, to = Written(db, es),
         \A i \in DOMAIN es : es[i].row \in Rows,
         \A i \in DOMAIN es : es[i].row[1] = "auth" => es[i].value # None,
         \A i, k \in DOMAIN es : es[i].row[1] = "auth" /\ es[k].row = es[i].row => k = i,
         \A i \in DOMAIN es : \A k \in Keys \ LocalKeys :
            es[i].row = <<"op", k>> => db[<<"auth", k>>] # None
  PROVE  /\ to = [r \in Rows |-> to[r]]
         /\ Signed(to) /\ KeepsAuth(db, to)
         /\ \A i \in DOMAIN es : es[i].row[1] = "auth" => to[es[i].row] # None
<1>1. /\ to = [r \in Rows |-> to[r]]
      /\ \A r \in Rows :
           to[r] = IF At(es, r) = {} THEN db[r] ELSE es[LastOf(At(es, r))].value
  BY WrittenRows
<1>2. ASSUME NEW i \in DOMAIN es, es[i].row[1] = "auth" PROVE to[es[i].row] # None
  <2>1. At(es, es[i].row) = {i}
    BY <1>2 DEF At
  <2>2. LastOf({i}) = i
    <3>1. i \in Nat /\ i <= i
      OBVIOUS
    <3>2. \A k \in {i} : k <= i
      BY <3>1
    <3> QED BY <3>1, <3>2, LastIs
  <2>3. to[es[i].row] = es[i].value
    BY <1>1, <2>1, <2>2, ZenonT(40)
  <2> QED BY <1>2, <2>3
<1>3. \A k \in Keys : <<"auth", k>> \in Rows /\ <<"op", k>> \in Rows
  BY Zenon DEF Rows, Table
<1>4. ASSUME NEW k \in Keys, db[<<"auth", k>>] # None
      PROVE  to[<<"auth", k>>] # None
  <2>1. CASE At(es, <<"auth", k>>) = {}
    BY <1>1, <1>3, <1>4, <2>1
  <2>2. ASSUME NEW i \in At(es, <<"auth", k>>) PROVE to[<<"auth", k>>] # None
    <3>1. i \in DOMAIN es /\ es[i].row = <<"auth", k>> /\ es[i].row[1] = "auth"
      BY <2>2 DEF At
    <3>2. to[es[i].row] # None
      BY <1>2, <3>1
    <3> QED BY <3>1, <3>2
  <2> QED BY <2>1, <2>2
<1>5. ASSUME NEW k \in Keys \ LocalKeys, to[<<"op", k>>] # None
      PROVE  to[<<"auth", k>>] # None
  <2>1. CASE At(es, <<"op", k>>) = {}
    <3>1. db[<<"op", k>>] # None
      BY <1>1, <1>3, <1>5, <2>1
    <3> QED BY <1>4, <3>1 DEF Signed
  <2>2. ASSUME NEW i \in At(es, <<"op", k>>) PROVE db[<<"auth", k>>] # None
    BY <2>2 DEF At
  <2> QED BY <1>4, <2>1, <2>2
<1> QED BY <1>1, <1>2, <1>4, <1>5 DEF Signed, KeepsAuth

(* Every step keeps the signatures, and a peer that forwards finds them. *)
LEMMA AuthNext ==
  ASSUME Assumptions, SignaturesFirst, TxInv, AuthInv,
         [Next]_vars
  PROVE  AuthInv'
<1> DEFINE kind(j) == Program[j][job[j].call].kind
           rows(j) == Program[j][job[j].call].rows
<1>1. /\ MaterialTypeOK /\ TxOwned /\ ViewFollows
      /\ Signed(disk) /\ SignaturesStored /\ AuthWritten /\ forwarded # "missing"
      /\ tx.open => Signed(tx.view) /\ KeepsAuth(disk, tx.view)
  BY DEF TxInv, AuthInv
<1>2. ASSUME NEW j \in Job
      PROVE  /\ Call(j) = Program[j][job[j].call] /\ job[j].call \in DOMAIN Program[j]
             /\ job[j] \in JobType /\ JobOK(j, job[j])
             /\ kind(j) \in SqliteKinds => Len(rows(j)) \in Nat /\ DOMAIN rows(j) = 1..Len(rows(j))
             /\ \E t : Shape(Program[j][job[j].call], t)
  <2>1. PICK t : Shape(Program[j][job[j].call], t)
    BY <1>1, CallFacts
  <2>2. kind(j) \in SqliteKinds => Len(rows(j)) \in Nat /\ DOMAIN rows(j) = 1..Len(rows(j))
    <3>1. PICK S : Program[j][job[j].call].given \in Seq(S)
      BY <2>1, Zenon DEF Shape
    <3>2. kind(j) \in SqliteKinds => rows(j) = Program[j][job[j].call].given
      BY <2>1, Zenon DEF Shape, SqliteKinds
    <3> QED BY <3>1, <3>2
  <2> QED BY <1>1, <2>1, <2>2, CallFacts DEF JobOK
<1>3. /\ disk = [r \in Rows |-> disk[r]] /\ tx.open \in BOOLEAN
      /\ tx = [open |-> tx.open, by |-> tx.by, view |-> tx.view]
      /\ tx.open => tx.view = [r \in Rows |-> tx.view[r]]
  BY <1>1 DEF MaterialTypeOK
<1>4. ASSUME NEW j \in Job, NEW c \in DOMAIN Program[j], NEW m \in DOMAIN Program[j][c].rows,
             Program[j][c].rows[m].row[1] = "auth"
      PROVE  \E k \in Keys : Program[j][c].rows[m].row = <<"auth", k>>
  <2>1. PICK t : Shape(Program[j][c], t)
    BY CallShape
  <2>2. Program[j][c].rows[m].row = <<t, Program[j][c].rows[m].key>> /\ Program[j][c].rows[m].key \in Keys
    BY <2>1, RowsOfCalls
  <2> QED BY <1>4, <2>2
(* Signatures of the calls before the current one are on a disk that keeps them. *)
<1>5. ASSUME NEW to, KeepsAuth(disk, to), NEW j \in Job, NEW d \in 1..(job[j].call - 1),
             NEW m \in DOMAIN Program[j][d].rows, Program[j][d].rows[m].row[1] = "auth"
      PROVE  to[Program[j][d].rows[m].row] # None
  <2>1. d \in DOMAIN Program[j]
    <3>1. PICK S : Program[j] \in Seq(S)
      BY DEF Assumptions, IsSequence
    <3>2. job[j].call \in DOMAIN Program[j] /\ job[j].call \in Nat
      BY <1>2 DEF JobType
    <3> QED BY <3>1, <3>2
  <2>2. PICK k \in Keys : Program[j][d].rows[m].row = <<"auth", k>>
    BY <1>4, <1>5, <2>1
  <2>3. disk[<<"auth", k>>] # None
    BY <1>1, <1>5, <2>2 DEF SignaturesStored
  <2> QED BY <1>5, <2>2, <2>3 DEF KeepsAuth
<1>6. ASSUME NEW j \in Job, Inside(job[j])
      PROVE  tx.open /\ tx.by = {j} /\ \A q \in Job \ {j} : ~Inside(job[q])
  BY <1>1, <1>6 DEF TxOwned
(* A disk that keeps signatures, while one job moves and those inside stay where they are. *)
<1>7. ASSUME NEW j \in Job, NEW v, job'[j] = v,
             \A q \in Job \ {j} : job'[q] = job[q], KeepsAuth(disk, disk'),
             v.call = job[j].call \/
             (v.call = job[j].call + 1 /\ \A m \in DOMAIN rows(j) :
                rows(j)[m].row[1] = "auth" => disk'[rows(j)[m].row] # None)
      PROVE  SignaturesStored'
  <2>1. ASSUME NEW q \in Job, NEW d \in 1..(job'[q].call - 1), NEW m \in DOMAIN Program[q][d].rows,
               Program[q][d].rows[m].row[1] = "auth"
        PROVE  disk'[Program[q][d].rows[m].row] # None
    <3>1. CASE d \in 1..(job[q].call - 1)
      BY <1>5, <1>7, <2>1, <3>1, Zenon
    <3>2. CASE d \notin 1..(job[q].call - 1)
      <4>1. q = j /\ v.call = job[j].call + 1 /\ d = job[j].call
        <5>1. job[q].call \in Nat /\ job[j].call \in Nat
          BY <1>2 DEF JobType
        <5>2. q = j
          BY <1>7, <3>2, Zenon
        <5>3. v.call = job[j].call + 1
          BY <1>7, <3>2, <5>2, Zenon
        <5>4. job'[q].call = job[j].call + 1
          BY <1>7, <5>2, <5>3, Zenon
        <5>5. d \in 1..(job'[q].call - 1) /\ d \notin 1..(job[q].call - 1)
          BY <2>1, <3>2
        <5>6. d = job[j].call
          BY <5>1, <5>2, <5>4, <5>5
        <5> QED BY <5>2, <5>3, <5>6
      <4>2. v.call # job[j].call
        <5>1. job[j].call \in Nat
          BY <1>2 DEF JobType
        <5> QED BY <4>1, <5>1
      <4>3. \A k \in DOMAIN rows(j) : rows(j)[k].row[1] = "auth" => disk'[rows(j)[k].row] # None
        BY <1>7, <4>2, Zenon
      <4> QED BY <2>1, <4>1, <4>3
    <3> QED BY <3>1, <3>2
  <2> QED BY <2>1 DEF SignaturesStored
<1>8. KeepsAuth(disk, disk)
  BY DEF KeepsAuth
(* The disk and the transaction stay, and so does what a job inside has written. *)
<1>9. ASSUME UNCHANGED <<disk, tx>>, NEW j \in Job, NEW v, job' = [job EXCEPT ![j] = v],
             ~Inside(v), v.call = job[j].call, forwarded' # "missing"
      PROVE  AuthInv'
  <2>1. job'[j] = v /\ \A q \in Job \ {j} : job'[q] = job[q]
    <3>1. DOMAIN job = Job
      BY <1>1 DEF MaterialTypeOK
    <3> QED BY <1>9, <3>1
  <2>2. SignaturesStored'
    BY <1>7, <1>8, <1>9, <2>1
  <2>3. AuthWritten'
    <3>1. \A q \in Job : Inside(job'[q]) => job'[q] = job[q]
      BY <1>9, <2>1
    <3>2. tx' = tx
      BY <1>9
    <3>3. SUFFICES ASSUME NEW q \in Job, Inside(job'[q]), NEW m \in 1..(job'[q].i - 1),
                          Program[q][job'[q].call].rows[m].row[1] = "auth"
                   PROVE  tx'.view[Program[q][job'[q].call].rows[m].row] # None
      BY Zenon DEF AuthWritten
    <3>4. job'[q] = job[q]
      BY <3>1, <3>3, Zenon
    <3>5. Inside(job[q]) /\ m \in 1..(job[q].i - 1)
          /\ Program[q][job[q].call].rows[m].row[1] = "auth"
      BY <3>3, <3>4
    <3> QED BY <1>1, <3>2, <3>4, <3>5, Zenon DEF AuthWritten
  <2> QED BY <1>1, <1>9, <2>2, <2>3 DEF AuthInv, Signed, KeepsAuth
<1>10. ASSUME NEW j \in Job, Begin(j) PROVE AuthInv'
  <2>1. /\ job[j].out = "run" /\ kind(j) \in {"transaction", "append"} /\ UNCHANGED <<disk, forwarded>>
        /\ kind(j) = "transaction" => job[j].at = "start"
    BY <1>2, <1>10 DEF Begin, AtCall
  <2>2. CASE tx.open
    <3>1. job' = Threw(j) /\ UNCHANGED tx
      BY <1>10, <2>2 DEF Begin
    <3>2. PICK v : job' = [job EXCEPT ![j] = v] /\ ~Inside(v) /\ v.call = job[j].call
      BY <1>1, <3>1, ThrewTo
    <3> QED BY <1>1, <1>9, <2>1, <3>1, <3>2
  <2>3. CASE ~tx.open
    <3>1. /\ job' = [job EXCEPT ![j].at = "rows"]
          /\ tx' = [open |-> TRUE, by |-> {j}, view |-> disk]
      BY <1>10, <2>3 DEF Begin
    <3>2. PICK v : v = [job[j] EXCEPT !.at = "rows"]
      OBVIOUS
    <3>3. v.call = job[j].call /\ v.i = job[j].i /\ job[j].i \in Nat \ {0}
      BY <1>2, <3>2 DEF JobType
    <3>4. job'[j] = v /\ \A q \in Job \ {j} : job'[q] = job[q]
      <4>1. DOMAIN job = Job /\ job' = [job EXCEPT ![j] = v]
        BY <1>1, <3>1, <3>2 DEF MaterialTypeOK
      <4> QED BY <4>1
    <3>5. SignaturesStored'
      <4>1. KeepsAuth(disk, disk')
        BY <1>8, <2>1
      <4> QED BY <1>7, <3>3, <3>4, <4>1
    <3>6. AuthWritten'
      <4>1. \A q \in Job \ {j} : ~Inside(job'[q])
        BY <1>1, <2>3, <3>4 DEF TxOwned
      <4>2. ASSUME NEW m \in 1..(job[j].i - 1) PROVE rows(j)[m].row[1] # "auth"
        <5>1. kind(j) = "append"
          <6>1. kind(j) = "transaction" => job[j].i = 1
            BY <1>2, <2>1 DEF JobOK
          <6> QED BY <2>1, <4>2, <6>1
        <5>2. PICK t : Shape(Program[j][job[j].call], t)
          BY <1>2
        <5>3. t = "op"
          BY <5>1, <5>2, Zenon DEF Shape
        <5>4. m \in DOMAIN rows(j)
          <6>1. job[j].i <= Len(rows(j)) + 1 /\ Len(rows(j)) \in Nat /\ DOMAIN rows(j) = 1..Len(rows(j))
            BY <1>2, <2>1, <5>1 DEF JobOK, SqliteKinds
          <6> QED BY <3>3, <6>1
        <5>5. rows(j)[m].row = <<t, rows(j)[m].key>>
          BY <1>2, <5>2, <5>4, RowsOfCalls, Zenon
        <5>6. rows(j)[m].row[1] = t
          BY <5>5
        <5> QED BY <5>3, <5>6
      <4> QED BY <3>3, <3>4, <4>1, <4>2 DEF AuthWritten
    <3>7. tx'.open /\ tx'.view = disk /\ disk' = disk /\ forwarded' = forwarded
      BY <2>1, <3>1
    <3>8. Signed(disk)' /\ Signed(tx.view)' /\ KeepsAuth(disk, tx.view)'
      BY <1>1, <1>8, <3>7 DEF Signed, KeepsAuth
    <3> QED BY <1>1, <3>5, <3>6, <3>7, <3>8 DEF AuthInv
  <2> QED BY <1>3, <2>2, <2>3
(* A statement on the shared connection: its view keeps what the disk has. *)
<1>11. ASSUME NEW j \in Job, NEW es, DOMAIN es \subseteq Nat,
              \A i \in DOMAIN es : \E k \in DOMAIN rows(j) : es[i] = rows(j)[k],
              \A i, k \in DOMAIN es : es[i].row[1] = "auth" /\ es[k].row = es[i].row => k = i,
              NEW db, db = IF tx.open THEN tx.view ELSE disk,
              NEW to, to = Written(db, es)
       PROVE  /\ Signed(to) /\ KeepsAuth(db, to) /\ KeepsAuth(disk, to)
              /\ \A i \in DOMAIN es : es[i].row[1] = "auth" => to[es[i].row] # None
  <2>1. db = [r \in Rows |-> db[r]] /\ Signed(db) /\ KeepsAuth(disk, db)
    BY <1>1, <1>3, <1>8, <1>11
  <2>2. ASSUME NEW i \in DOMAIN es
        PROVE  /\ es[i].row \in Rows
               /\ es[i].row[1] = "auth" => es[i].value # None
               /\ \A k \in Keys \ LocalKeys :
                     es[i].row = <<"op", k>> => db[<<"auth", k>>] # None
    <3>1. PICK k \in DOMAIN rows(j) : es[i] = rows(j)[k]
      BY <1>11
    <3>2. /\ rows(j)[k].row \in Rows
          /\ rows(j)[k].row[1] = "auth" => rows(j)[k].value # None
          /\ \A q \in Keys \ LocalKeys :
                rows(j)[k].row = <<"op", q>> => disk[<<"auth", q>>] # None
      BY <1>1, RowWrites, Zenon
    <3> QED BY <2>1, <3>1, <3>2, Zenon DEF KeepsAuth
  <2>3. /\ Signed(to) /\ KeepsAuth(db, to)
        /\ \A i \in DOMAIN es : es[i].row[1] = "auth" => to[es[i].row] # None
    <3>1. \A i \in DOMAIN es : es[i].row \in Rows
      BY <2>2
    <3>2. \A i \in DOMAIN es : es[i].row[1] = "auth" => es[i].value # None
      BY <2>2
    <3>3. \A i \in DOMAIN es : \A k \in Keys \ LocalKeys :
             es[i].row = <<"op", k>> => db[<<"auth", k>>] # None
      BY <2>2
    <3>4. \A i, k \in DOMAIN es : es[i].row[1] = "auth" /\ es[k].row = es[i].row => k = i
      BY <1>11
    <3>5. DOMAIN es \subseteq Nat /\ to = Written(db, es)
      BY <1>11
    <3> HIDE <1>11
    <3> QED BY <2>1, <3>1, <3>2, <3>3, <3>4, <3>5, WriteKeeps
  <2> QED BY <2>1, <2>3 DEF KeepsAuth
<1>12. ASSUME NEW j \in Job, Statement(j) PROVE AuthInv'
  <2>1. /\ Inside(job[j]) /\ kind(j) \in {"transaction", "append"} /\ job[j].i <= Len(rows(j))
        /\ job' = [job EXCEPT ![j].i = @ + 1] /\ Execute(<<rows(j)[job[j].i]>>)
        /\ UNCHANGED forwarded
    BY <1>2, <1>12 DEF Statement, Inside
  <2>2. tx.open /\ \A q \in Job \ {j} : ~Inside(job[q])
    BY <1>6, <2>1
  <2>3. PICK es : es = <<rows(j)[job[j].i]>>
    OBVIOUS
  <2>4. PICK view : view = Written(tx.view, es)
    OBVIOUS
  <2>5. tx' = [tx EXCEPT !.view = view] /\ UNCHANGED disk
    BY <2>1, <2>2, <2>3, <2>4 DEF Execute
  <2>6. /\ job[j].i \in DOMAIN rows(j) /\ job[j].i \in Nat \ {0} /\ DOMAIN rows(j) = 1..Len(rows(j))
        /\ Len(rows(j)) \in Nat
    <3>1. job[j].i \in Nat \ {0}
      BY <1>2 DEF JobType
    <3>2. Len(rows(j)) \in Nat /\ DOMAIN rows(j) = 1..Len(rows(j))
      BY <1>2, <2>1 DEF SqliteKinds
    <3> QED BY <2>1, <3>1, <3>2
  <2>7. DOMAIN es = {1} /\ es[1] = rows(j)[job[j].i]
    BY <2>3
  <2>8. /\ Signed(view) /\ KeepsAuth(tx.view, view) /\ KeepsAuth(disk, view)
        /\ rows(j)[job[j].i].row[1] = "auth" => view[rows(j)[job[j].i].row] # None
    <3>1. PICK db : db = IF tx.open THEN tx.view ELSE disk
      OBVIOUS
    <3>2. db = tx.view /\ view = Written(db, es)
      BY <2>2, <2>4, <3>1
    <3>3. /\ DOMAIN es \subseteq Nat
          /\ \A i \in DOMAIN es : \E k \in DOMAIN rows(j) : es[i] = rows(j)[k]
          /\ \A i, k \in DOMAIN es : es[i].row[1] = "auth" /\ es[k].row = es[i].row => k = i
      <4>1. \A i \in DOMAIN es : es[i] = rows(j)[job[j].i] /\ job[j].i \in DOMAIN rows(j)
        BY <2>6, <2>7
      <4>2. DOMAIN es \subseteq Nat /\ \A i, k \in DOMAIN es : k = i
        BY <2>7
      <4> QED BY <4>1, <4>2
    <3>4. /\ Signed(view) /\ KeepsAuth(db, view) /\ KeepsAuth(disk, view)
          /\ \A i \in DOMAIN es : es[i].row[1] = "auth" => view[es[i].row] # None
      BY <1>11, <3>1, <3>2, <3>3
    <3>5. rows(j)[job[j].i].row[1] = "auth" => view[rows(j)[job[j].i].row] # None
      BY <2>7, <3>4, Zenon
    <3> QED BY <3>2, <3>4, <3>5, Zenon
  <2>9. PICK v : v = [job[j] EXCEPT !.i = @ + 1]
    OBVIOUS
  <2>10. v.call = job[j].call /\ v.i = job[j].i + 1
    BY <1>2, <2>9 DEF JobType
  <2>11. job'[j] = v /\ \A q \in Job \ {j} : job'[q] = job[q]
    <3>1. DOMAIN job = Job /\ job' = [job EXCEPT ![j] = v]
      BY <1>1, <2>1, <2>9 DEF MaterialTypeOK
    <3> QED BY <3>1
  <2>12. tx'.open /\ tx'.view = view /\ disk' = disk
    BY <1>3, <2>2, <2>5
  <2>13. SignaturesStored'
    <3>1. KeepsAuth(disk, disk')
      BY <1>8, <2>12
    <3> QED BY <1>7, <2>10, <2>11, <3>1
  <2>14. AuthWritten'
    <3>1. ASSUME NEW m \in 1..job[j].i, rows(j)[m].row[1] = "auth"
          PROVE  view[rows(j)[m].row] # None
      <4>1. CASE m = job[j].i
        BY <2>8, <3>1, <4>1
      <4>2. CASE m # job[j].i
        <5>1. m \in 1..(job[j].i - 1) /\ m \in DOMAIN rows(j)
          BY <2>6, <4>2
        <5>2. tx.view[rows(j)[m].row] # None
          BY <1>1, <2>1, <3>1, <5>1, Zenon DEF AuthWritten
        <5>3. PICK k \in Keys : rows(j)[m].row = <<"auth", k>>
          BY <1>2, <1>4, <3>1, <5>1
        <5> QED BY <2>8, <5>2, <5>3, Zenon DEF KeepsAuth
      <4> QED BY <4>1, <4>2
    <3>2. job'[j].i - 1 = job[j].i /\ job'[j].call = job[j].call
      BY <2>6, <2>10, <2>11
    <3> QED BY <2>2, <2>11, <2>12, <3>1, <3>2 DEF AuthWritten
  <2>15. Signed(disk)' /\ Signed(tx.view)' /\ KeepsAuth(disk, tx.view)'
    BY <1>1, <2>8, <2>12 DEF Signed, KeepsAuth
  <2> QED BY <1>1, <2>1, <2>13, <2>14, <2>15 DEF AuthInv
<1>13. ASSUME NEW j \in Job, Commit(j) \/ Rollback(j) PROVE AuthInv'
  <2>1. /\ job[j].out = "run" /\ job[j].at = "rows" /\ tx' = NoTx /\ UNCHANGED forwarded
        /\ \/ job' = Returned(j) /\ disk' = tx.view /\ job[j].i > Len(rows(j))
           \/ job' = Threw(j) /\ disk' = disk
    BY <1>2, <1>13 DEF Commit, Rollback, Closed
  <2>2. Inside(job[j])
    BY <2>1 DEF Inside
  <2>3. tx.open /\ \A q \in Job \ {j} : ~Inside(job[q])
    BY <1>6, <2>2
  <2>4. ~tx'.open
    BY <2>1 DEF NoTx
  <2>5. PICK v : /\ job' = [job EXCEPT ![j] = v] /\ ~Inside(v)
                 /\ \/ v.call = job[j].call
                    \/ v.call = job[j].call + 1 /\ disk' = tx.view /\ job[j].i > Len(rows(j))
                 /\ disk' = tx.view \/ disk' = disk
    <3>1. CASE job' = Returned(j) /\ disk' = tx.view /\ job[j].i > Len(rows(j))
      BY <1>1, <3>1, ReturnedTo
    <3>2. CASE job' = Threw(j) /\ disk' = disk
      BY <1>1, <3>2, ThrewTo
    <3> QED BY <2>1, <3>1, <3>2
  <2>6. job'[j] = v /\ \A q \in Job \ {j} : job'[q] = job[q]
    <3>1. DOMAIN job = Job
      BY <1>1 DEF MaterialTypeOK
    <3> QED BY <2>5, <3>1
  <2>7. KeepsAuth(disk, disk') /\ Signed(disk')
    BY <1>1, <1>8, <2>3, <2>5
  <2>8. SignaturesStored'
    <3>1. ASSUME v.call # job[j].call, NEW m \in DOMAIN rows(j), rows(j)[m].row[1] = "auth"
          PROVE  disk'[rows(j)[m].row] # None
      <4>1. disk' = tx.view /\ job[j].i > Len(rows(j))
        BY <2>5, <3>1
      <4>2. m \in 1..(job[j].i - 1)
        <5>1. kind(j) \in {"transaction", "append"}
          BY <1>2, <2>1 DEF JobOK
        <5>2. Len(rows(j)) \in Nat /\ DOMAIN rows(j) = 1..Len(rows(j)) /\ job[j].i \in Nat
          BY <1>2, <5>1 DEF SqliteKinds, JobType
        <5> QED BY <4>1, <5>2
      <4> QED BY <1>1, <2>2, <3>1, <4>1, <4>2, Zenon DEF AuthWritten
    <3> QED BY <1>7, <2>5, <2>6, <2>7, <3>1, Zenon
  <2>9. AuthWritten'
    BY <2>3, <2>5, <2>6 DEF AuthWritten
  <2> QED BY <1>1, <2>1, <2>4, <2>7, <2>8, <2>9 DEF AuthInv, Signed
<1>14. ASSUME NEW j \in Job, Chunk(j) PROVE AuthInv'
  <2>1. /\ job[j].out = "run" /\ job[j].at = "start" /\ kind(j) \in {"append", "local"}
        /\ UNCHANGED forwarded
    BY <1>2, <1>14 DEF Chunk, AtCall
  <2>2. PICK last : /\ last = IF job[j].i + MaxBulk - 1 < Len(rows(j)) THEN job[j].i + MaxBulk - 1 ELSE Len(rows(j))
                    /\ Execute(SubSeq(rows(j), job[j].i, last))
                    /\ job' = IF last = Len(rows(j)) THEN Returned(j)
                              ELSE [job EXCEPT ![j].i = last + 1]
    BY <1>2, <1>14 DEF Chunk
  <2>3. /\ job[j].i \in Nat \ {0} /\ Len(rows(j)) \in Nat /\ DOMAIN rows(j) = 1..Len(rows(j))
        /\ last \in Nat /\ last <= Len(rows(j))
    <3>1. job[j].i \in Nat \ {0}
      BY <1>2 DEF JobType
    <3>2. Len(rows(j)) \in Nat /\ DOMAIN rows(j) = 1..Len(rows(j))
      BY <1>2, <2>1 DEF SqliteKinds
    <3>3. MaxBulk \in Nat \ {0}
      BY Zenon DEF Assumptions
    <3> QED BY <2>2, <3>1, <3>2, <3>3, ChunkEnds
  <2>4. PICK es : es = SubSeq(rows(j), job[j].i, last)
    OBVIOUS
  <2>5. \A k \in DOMAIN rows(j) : rows(j)[k].row[1] = "op"
    <3>1. PICK t : Shape(Program[j][job[j].call], t)
      BY <1>2
    <3>2. t = "op"
      BY <2>1, <3>1, Zenon DEF Shape
    <3>3. \A k \in DOMAIN rows(j) : rows(j)[k].row = <<t, Program[j][job[j].call].given[k].key>>
      BY <3>1, Zenon DEF Shape
    <3> QED BY <3>2, <3>3
  <2>6. DOMAIN es \subseteq Nat /\ \A i \in DOMAIN es : \E k \in DOMAIN rows(j) : es[i] = rows(j)[k]
    <3>1. PICK t : Shape(Program[j][job[j].call], t)
      BY <1>2
    <3>2. PICK S : rows(j) \in Seq(S)
      <4>1. PICK S : Program[j][job[j].call].given \in Seq(S)
        BY <3>1 DEF Shape
      <4>2. rows(j) = Program[j][job[j].call].given
        BY <2>1, <3>1, Zenon DEF Shape
      <4> QED BY <4>1, <4>2
    <3>3. last \in 0..Len(rows(j))
      BY <2>3
    <3>4. /\ DOMAIN es \subseteq Nat
          /\ \A i \in DOMAIN es : es[i] = rows(j)[job[j].i + i - 1]
          /\ \A i \in DOMAIN es : job[j].i + i - 1 \in DOMAIN rows(j)
      BY <2>3, <2>4, <3>2, <3>3, PartOf
    <3> QED BY <3>4
  <2>7. \A i \in DOMAIN es : es[i].row[1] # "auth"
    BY <2>5, <2>6
  <2>8. PICK db : db = IF tx.open THEN tx.view ELSE disk
    OBVIOUS
  <2>9. PICK to : to = Written(db, es)
    OBVIOUS
  <2>10. Signed(to) /\ KeepsAuth(db, to) /\ KeepsAuth(disk, to)
    <3>1. \A i, k \in DOMAIN es : es[i].row[1] = "auth" /\ es[k].row = es[i].row => k = i
      BY <2>7
    <3> QED BY <1>11, <2>6, <2>8, <2>9, <3>1
  <2>11. PICK v : /\ job' = [job EXCEPT ![j] = v] /\ ~Inside(v)
                  /\ v.call = job[j].call \/ v.call = job[j].call + 1
    <3>1. CASE last = Len(rows(j))
      BY <1>1, <2>2, <3>1, ReturnedTo, Zenon
    <3>2. CASE last # Len(rows(j))
      <4>1. PICK v : v = [job[j] EXCEPT !.i = last + 1]
        OBVIOUS
      <4>2. job' = [job EXCEPT ![j] = v]
        BY <2>2, <3>2, <4>1
      <4>3. v.call = job[j].call /\ v.at = "start"
        BY <1>2, <2>1, <4>1 DEF JobType
      <4> QED BY <4>2, <4>3 DEF Inside
    <3> QED BY <3>1, <3>2
  <2>12. job'[j] = v /\ \A q \in Job \ {j} : job'[q] = job[q]
    <3>1. DOMAIN job = Job
      BY <1>1 DEF MaterialTypeOK
    <3> QED BY <2>11, <3>1
  <2>13. CASE tx.open
    <3>1. tx' = [tx EXCEPT !.view = to] /\ UNCHANGED disk
      BY <2>2, <2>4, <2>8, <2>9, <2>13, Zenon DEF Execute
    <3>2. tx'.open /\ tx'.view = to /\ disk' = disk
      BY <1>3, <2>13, <3>1
    <3>3. SignaturesStored'
      <4>1. KeepsAuth(disk, disk')
        BY <1>8, <3>2
      <4> QED BY <1>7, <2>5, <2>11, <2>12, <4>1
    <3>4. AuthWritten'
      <4>1. ASSUME NEW q \in Job, Inside(job'[q]), NEW m \in 1..(job'[q].i - 1),
                   Program[q][job'[q].call].rows[m].row[1] = "auth"
            PROVE  tx'.view[Program[q][job'[q].call].rows[m].row] # None
        <5>1. job'[q] = job[q]
          BY <2>11, <2>12, <4>1
        <5>2. tx.view[rows(q)[m].row] # None
          BY <1>1, <4>1, <5>1 DEF AuthWritten
        <5>3. m \in DOMAIN rows(q)
          <6>1. job[q].i <= Len(rows(q)) + 1 /\ Len(rows(q)) \in Nat /\ DOMAIN rows(q) = 1..Len(rows(q))
                /\ job[q].i \in Nat
            BY <1>2, <4>1, <5>1 DEF JobOK, Inside, SqliteKinds, JobType
          <6> QED BY <4>1, <5>1, <6>1
        <5>4. PICK k \in Keys : rows(q)[m].row = <<"auth", k>>
          BY <1>2, <1>4, <4>1, <5>1, <5>3
        <5> QED BY <2>8, <2>10, <2>13, <3>2, <5>1, <5>2, <5>4 DEF KeepsAuth
      <4> QED BY <4>1 DEF AuthWritten
    <3>5. Signed(disk)' /\ Signed(tx.view)' /\ KeepsAuth(disk, tx.view)'
      BY <1>1, <2>10, <3>2 DEF Signed, KeepsAuth
    <3> QED BY <1>1, <2>1, <3>3, <3>4, <3>5 DEF AuthInv
  <2>14. CASE ~tx.open
    <3>1. disk' = to /\ UNCHANGED tx
      BY <2>2, <2>4, <2>8, <2>9, <2>14, Zenon DEF Execute
    <3>2. SignaturesStored'
      BY <1>7, <2>5, <2>10, <2>11, <2>12, <3>1
    <3>3. AuthWritten'
      BY <1>1, <2>11, <2>12, <2>14, Zenon DEF AuthWritten, TxOwned
    <3>4. Signed(disk)' /\ ~tx'.open
      BY <2>10, <2>14, <3>1 DEF Signed
    <3> QED BY <1>1, <2>1, <3>2, <3>3, <3>4 DEF AuthInv
  <2> QED BY <1>3, <2>13, <2>14
(* With Postgres nobody is inside a transaction of the shared connection. *)
<1>15. ASSUME NEW j \in Job, job[j].out = "run", kind(j) \in PgKinds
       PROVE  ~tx.open /\ ~Inside(job[j])
  BY <1>1, <1>2, <1>15, PgIsOutside
<1>16. ASSUME NEW j \in Job, PgStatement(j) \/ PgCommit(j) PROVE AuthInv'
  <2>1. /\ job[j].out = "run" /\ kind(j) \in PgKinds /\ UNCHANGED <<tx, forwarded>>
        /\ disk' = Written(disk, rows(j)) /\ job' = Returned(j)
    BY <1>2, <1>16 DEF PgStatement, PgCommit, AtCall, PgKinds
  <2>2. ~tx.open
    BY <1>15, <2>1
  <2>3. PICK es : es = rows(j)
    OBVIOUS
  <2>4. PICK t : Shape(Program[j][job[j].call], t)
    BY <1>2
  <2>5. DOMAIN es \subseteq Nat
    BY <2>3, <2>4, RowIndices, Zenon
  <2>6. \A i, k \in DOMAIN es : es[i].row[1] = "auth" /\ es[k].row = es[i].row => k = i
    BY <2>1, <2>3, <2>4, AuthRowsOnce
  <2>7. PICK db : db = IF tx.open THEN tx.view ELSE disk
    OBVIOUS
  <2>8. /\ Signed(disk') /\ KeepsAuth(disk, disk')
        /\ \A i \in DOMAIN es : es[i].row[1] = "auth" => disk'[es[i].row] # None
    <3>1. PICK to : to = Written(db, es)
      OBVIOUS
    <3>2. /\ Signed(to) /\ KeepsAuth(disk, to)
          /\ \A i \in DOMAIN es : es[i].row[1] = "auth" => to[es[i].row] # None
      <4>1. \A i \in DOMAIN es : \E k \in DOMAIN rows(j) : es[i] = rows(j)[k]
        BY <2>3, Zenon
      <4> HIDE DEF rows
      <4> QED BY <1>11, <2>5, <2>6, <2>7, <3>1, <4>1
    <3>3. db = disk /\ disk' = to
      BY <2>1, <2>2, <2>3, <2>7, <3>1, Zenon
    <3> QED BY <3>2, <3>3
  <2>9. PICK v : /\ job' = [job EXCEPT ![j] = v] /\ ~Inside(v)
                 /\ v.call = job[j].call \/ v.call = job[j].call + 1
    BY <1>1, <2>1, ReturnedTo
  <2>10. job'[j] = v /\ \A q \in Job \ {j} : job'[q] = job[q]
    <3>1. DOMAIN job = Job
      BY <1>1 DEF MaterialTypeOK
    <3> QED BY <2>9, <3>1
  <2>11. SignaturesStored'
    BY <1>7, <2>3, <2>8, <2>9, <2>10
  <2>12. AuthWritten'
    BY <1>1, <2>2, <2>9, <2>10, Zenon DEF AuthWritten, TxOwned
  <2>13. Signed(disk)' /\ ~tx'.open
    BY <2>1, <2>2, <2>8 DEF Signed
  <2> QED BY <1>1, <2>1, <2>11, <2>12, <2>13 DEF AuthInv
<1>17. ASSUME NEW j \in Job,
              \/ ChunkFails(j) \/ PgDeleteRow(j) \/ PgFails(j)
       PROVE  AuthInv'
  <2>1. /\ UNCHANGED <<disk, tx, forwarded>>
        /\ job[j].out = "run"
        /\ \/ job' = Threw(j)
           \/ job' = [job EXCEPT ![j].at = "fallback"]
           \/ job' = [job EXCEPT ![j].i = @ + 1] /\ job[j].at # "rows"
    BY <1>17 DEF ChunkFails, PgDeleteRow, PgFails, AtCall
  <2>2. PICK v : job' = [job EXCEPT ![j] = v] /\ ~Inside(v) /\ v.call = job[j].call
    <3>1. CASE job' = Threw(j)
      BY <1>1, <3>1, ThrewTo
    <3>2. CASE job' = [job EXCEPT ![j].at = "fallback"]
      <4>1. PICK v : v = [job[j] EXCEPT !.at = "fallback"]
        OBVIOUS
      <4>2. job' = [job EXCEPT ![j] = v]
        BY <3>2, <4>1
      <4>3. v.call = job[j].call /\ v.at = "fallback"
        BY <1>2, <4>1 DEF JobType
      <4> QED BY <4>2, <4>3 DEF Inside
    <3>3. CASE job' = [job EXCEPT ![j].i = @ + 1] /\ job[j].at # "rows"
      <4>1. PICK v : v = [job[j] EXCEPT !.i = @ + 1]
        OBVIOUS
      <4>2. job' = [job EXCEPT ![j] = v]
        BY <3>3, <4>1
      <4>3. v.call = job[j].call /\ v.at # "rows"
        BY <1>2, <3>3, <4>1 DEF JobType
      <4> QED BY <4>2, <4>3, Zenon DEF Inside
    <3> QED BY <2>1, <3>1, <3>2, <3>3
  <2> QED BY <1>1, <1>9, <2>1, <2>2
<1>18. ASSUME UNCHANGED <<disk, tx, job>>, forwarded' # "missing" PROVE AuthInv'
  BY <1>1, <1>18, Zenon DEF AuthInv, Signed, KeepsAuth, SignaturesStored, AuthWritten
<1>19. ASSUME Forward PROVE AuthInv'
  <2> DEFINE ops == {k \in Keys \ LocalKeys :
                        View[Row("op", k)] # None}
  <2>1. /\ UNCHANGED <<disk, tx, job>>
        /\ forwarded' = IF \E k \in ops : GetOpAuthByOpRefs(ops)[k] = None
                        THEN "missing" ELSE "sent"
    BY <1>19 DEF Forward
  <2>2. Signed(View)
    BY <1>1, <1>3 DEF View
  <2>3. ASSUME NEW k \in ops PROVE GetOpAuthByOpRefs(ops)[k] # None
    <3>1. View[<<"auth", k>>] # None
      BY <2>2, <2>3 DEF Signed, Row
    <3> QED BY <3>1 DEF GetOpAuthByOpRefs, Row
  <2>4. forwarded' # "missing"
    BY <2>1, <2>3
  <2> QED BY <1>18, <2>1, <2>4
<1>20. ASSUME Crash PROVE AuthInv'
  <2>1. /\ tx' = NoTx /\ disk' = disk /\ UNCHANGED forwarded
        /\ job' = [j \in Job |-> IF job[j].out = "run" THEN [job[j] EXCEPT !.out = "lost"] ELSE job[j]]
    BY <1>20 DEF Crash
  <2>2. ~tx'.open
    BY <2>1 DEF NoTx
  <2>3. ASSUME NEW q \in Job PROVE job'[q].call = job[q].call /\ ~Inside(job'[q])
    <3>1. job'[q] = IF job[q].out = "run" THEN [job[q] EXCEPT !.out = "lost"] ELSE job[q]
      BY <2>1
    <3> QED BY <1>2, <3>1 DEF JobType, Inside
  <2>4. SignaturesStored'
    BY <1>1, <2>1, <2>3 DEF SignaturesStored
  <2>5. AuthWritten'
    BY <2>3 DEF AuthWritten
  <2> QED BY <1>1, <2>1, <2>2, <2>4, <2>5 DEF AuthInv, Signed
<1>21. CASE Next
  BY <1>10, <1>12, <1>13, <1>14, <1>16, <1>17, <1>19, <1>20, <1>21 DEF Next, Step
<1>22. CASE UNCHANGED vars
  BY <1>1, <1>18, <1>22 DEF vars
<1> QED BY <1>21, <1>22

(* What a call leaves in a row it writes is the last value given for the key. *)
LEMMA GivenIs ==
  ASSUME NEW call, NEW t, Shape(call, t), NEW r, NEW n \in DOMAIN call.rows,
         call.rows[n].row = r
  PROVE  call.rows[LastOf(At(call.rows, r))].value = Given(call, r[2])
<1> DEFINE G == {i \in DOMAIN call.given : call.given[i].key = r[2]}
<1>1. /\ DOMAIN call.rows \subseteq DOMAIN call.given
      /\ \A i \in DOMAIN call.rows : call.rows[i] = call.given[i]
      /\ \A i \in DOMAIN call.given : call.given[i].row = <<t, call.given[i].key>>
  BY DEF Shape
<1>2. r = <<t, call.given[n].key>> /\ r[2] = call.given[n].key /\ r[1] = t
  <2>1. call.given[n].row = <<t, call.given[n].key>> /\ call.rows[n] = call.given[n]
    BY <1>1
  <2>2. r = <<t, call.given[n].key>>
    BY <2>1
  <2> QED BY <2>2
<1>3. DOMAIN call.given \subseteq Nat
  <2>1. PICK S : call.given \in Seq(S)
    BY DEF Shape
  <2> QED BY <2>1
<1>4. CASE call.rows = call.given
  <2>1. At(call.rows, r) = G
    BY <1>1, <1>2, <1>4 DEF At
  <2> QED BY <1>4, <2>1 DEF Given
<1>5. CASE \A i \in DOMAIN call.rows : \A k \in DOMAIN call.given :
              call.given[k].key = call.given[i].key => k <= i
  <2>1. n \in G /\ \A k \in G : k <= n
    BY <1>1, <1>2, <1>5
  <2>2. LastOf(G) = n
    <3>1. G \in SUBSET Nat
      BY <1>3
    <3> HIDE DEF G
    <3> QED BY <2>1, <3>1, LastIs
  <2>3. At(call.rows, r) \subseteq G
    BY <1>1, <1>2 DEF At
  <2>4. n \in At(call.rows, r) /\ At(call.rows, r) \in SUBSET Nat
    BY <1>1, <1>3 DEF At
  <2>5. LastOf(At(call.rows, r)) = n
    BY <2>1, <2>3, <2>4, LastIs
  <2> QED BY <1>1, <2>2, <2>5 DEF Given
<1> QED BY <1>4, <1>5 DEF Shape

(* A call is done as a whole or not at all. *)
LEMMA AtomicNext ==
  ASSUME Assumptions, TxInv, [Next]_vars
  PROVE  AtomicStep
<1> DEFINE kind(j) == Program[j][job[j].call].kind
           rows(j) == Program[j][job[j].call].rows
           done(j) == job'[j].call > job[j].call \/ job'[j].out = "ok"
<1>1. MaterialTypeOK /\ TxOwned /\ ViewFollows
  BY DEF TxInv
<1>2. ASSUME NEW j \in Job
      PROVE  /\ Call(j) = Program[j][job[j].call] /\ job[j] \in JobType /\ JobOK(j, job[j])
             /\ \E t : Shape(Program[j][job[j].call], t)
  BY <1>1, CallFacts DEF JobOK
<1>3. /\ disk = [r \in Rows |-> disk[r]] /\ DOMAIN job = Job
      /\ tx.open => tx.view = [r \in Rows |-> tx.view[r]]
  BY <1>1 DEF MaterialTypeOK
(* Everything the property asks of a step of job q. *)
<1>4. ASSUME NEW q \in Job, \A j \in Job \ {q} : job'[j] = job[j],
             kind(q) \in {"transaction", "statement", "pooled"} =>
               IF done(q)
               THEN /\ disk' = [r \in Rows |->
                          IF \E i \in DOMAIN rows(q) : rows(q)[i].row = r
                          THEN Given(Program[q][job[q].call], r[2]) ELSE disk'[r]]
                    /\ \A r \in Rows : disk'[r] # disk[r] /\ r[1] # "op" =>
                          \E i \in DOMAIN rows(q) : rows(q)[i].row = r
               ELSE disk' = disk
      PROVE  AtomicStep
  <2> SUFFICES ASSUME NEW j \in Job, job'[j] # job[j],
                      Call(j).kind \in {"transaction", "statement", "pooled"}
               PROVE  IF done(j)
                      THEN /\ disk' = [r \in Rows |->
                                 IF \E i \in DOMAIN Call(j).rows : Call(j).rows[i].row = r
                                 THEN Given(Call(j), r[2]) ELSE disk'[r]]
                           /\ \A r \in Rows : disk'[r] # disk[r] /\ r[1] # "op" =>
                                 \E i \in DOMAIN Call(j).rows : Call(j).rows[i].row = r
                      ELSE disk' = disk
    BY DEF AtomicStep
  <2>1. j = q /\ Call(j) = Program[q][job[q].call]
    BY <1>2, <1>4
  <2> QED BY <1>4, <2>1
<1>5. ASSUME NEW q \in Job, \A j \in Job \ {q} : job'[j] = job[j], disk' = disk,
             job'[q].call = job[q].call, job'[q].out # "ok"
      PROVE  AtomicStep
  <2>1. ~done(q)
    BY <1>2, <1>5 DEF JobType
  <2> QED BY <1>4, <1>5, <2>1
<1>6. ASSUME NEW q \in Job, job' = Threw(q), disk' = disk
      PROVE  AtomicStep
  <2>1. PICK v : job' = [job EXCEPT ![q] = v] /\ v.call = job[q].call /\ v.out = "failed"
    BY <1>1, <1>6, ThrewTo
  <2> QED BY <1>3, <1>5, <1>6, <2>1
<1>7. ASSUME NEW q \in Job, NEW v, job' = [job EXCEPT ![q] = v], disk' = disk,
             v.call = job[q].call, v.out = "run"
      PROVE  AtomicStep
  BY <1>3, <1>5, <1>7
(* A call that returned: the rows it wrote have the values given, and no other changed. *)
<1>8. ASSUME NEW q \in Job, job' = Returned(q),
             disk' = [r \in Rows |-> disk'[r]],
             \A r \in Rows :
                IF At(rows(q), r) # {}
                THEN disk'[r] = rows(q)[LastOf(At(rows(q), r))].value
                ELSE r[1] = "op" \/ disk'[r] = disk[r]
      PROVE  AtomicStep
  <2>1. PICK v : /\ job' = [job EXCEPT ![q] = v]
                 /\ (v.call = job[q].call /\ v.out = "ok") \/ v.call = job[q].call + 1
    BY <1>1, <1>8, ReturnedTo
  <2>2. done(q)
    BY <1>2, <1>3, <2>1 DEF JobType
  <2>3. PICK t : Shape(Program[q][job[q].call], t)
    BY <1>2
  <2>4. ASSUME NEW r \in Rows
        PROVE  disk'[r] = IF \E i \in DOMAIN rows(q) : rows(q)[i].row = r
                          THEN Given(Program[q][job[q].call], r[2]) ELSE disk'[r]
    <3>1. ASSUME NEW i \in DOMAIN rows(q), rows(q)[i].row = r
          PROVE  disk'[r] = Given(Program[q][job[q].call], r[2])
      <4>1. i \in At(rows(q), r)
        BY <3>1 DEF At
      <4>2. disk'[r] = rows(q)[LastOf(At(rows(q), r))].value
        BY <1>8, <4>1
      <4> QED BY <2>3, <3>1, <4>2, GivenIs
    <3> QED BY <3>1
  <2>5. ASSUME NEW r \in Rows, disk'[r] # disk[r], r[1] # "op"
        PROVE  \E i \in DOMAIN rows(q) : rows(q)[i].row = r
    BY <1>8, <2>5, Zenon DEF At
  <2>6. disk' = [r \in Rows |->
                   IF \E i \in DOMAIN rows(q) : rows(q)[i].row = r
                   THEN Given(Program[q][job[q].call], r[2]) ELSE disk'[r]]
    BY <1>8, <2>4
  <2>7. \A j \in Job \ {q} : job'[j] = job[j]
    BY <1>3, <2>1
  <2> QED BY <1>4, <2>2, <2>5, <2>6, <2>7
<1>9. ASSUME NEW q \in Job, Begin(q) PROVE AtomicStep
  <2>1. /\ job[q].out = "run" /\ disk' = disk
        /\ job' = Threw(q) \/ job' = [job EXCEPT ![q].at = "rows"]
    BY <1>9 DEF Begin, AtCall
  <2>2. PICK v : v = [job[q] EXCEPT !.at = "rows"]
    OBVIOUS
  <2>3. v.call = job[q].call /\ v.out = "run"
    BY <1>2, <2>1, <2>2 DEF JobType
  <2> QED BY <1>6, <1>7, <2>1, <2>2, <2>3
<1>10. ASSUME NEW q \in Job, Statement(q) \/ PgDeleteRow(q)
       PROVE  AtomicStep
  <2>1. /\ job[q].out = "run" /\ job' = [job EXCEPT ![q].i = @ + 1]
        /\ Statement(q) => job[q].at = "rows"
    BY <1>10 DEF Statement, PgDeleteRow, AtCall
  <2>2. disk' = disk
    <3>1. CASE Statement(q)
      <4>1. tx.open
        BY <1>1, <2>1, <3>1 DEF TxOwned, Inside
      <4> QED BY <3>1, <4>1 DEF Statement, Execute
    <3> QED BY <1>10, <3>1 DEF PgDeleteRow
  <2>3. PICK v : v = [job[q] EXCEPT !.i = @ + 1]
    OBVIOUS
  <2>4. v.call = job[q].call /\ v.out = "run"
    BY <1>2, <2>1, <2>3 DEF JobType
  <2> QED BY <1>7, <2>1, <2>2, <2>3, <2>4
<1>11. ASSUME NEW q \in Job, Commit(q) PROVE AtomicStep
  <2>1. /\ job[q].out = "run" /\ job[q].at = "rows" /\ job[q].i > Len(rows(q))
        /\ disk' = tx.view /\ job' = Returned(q) /\ kind(q) \in {"transaction", "append"}
    BY <1>2, <1>11 DEF Commit
  <2>2. Inside(job[q])
    BY <2>1 DEF Inside
  <2>3. tx.open /\ Wrote(Program[q][job[q].call], job[q].i)
    BY <1>1, <2>2 DEF TxOwned, ViewFollows
  <2>4. PICK t : Shape(Program[q][job[q].call], t)
    BY <1>2
  <2>5. DOMAIN rows(q) = 1..Len(rows(q)) /\ Len(rows(q)) \in Nat /\ job[q].i = Len(rows(q)) + 1
    <3>1. PICK S : Program[q][job[q].call].given \in Seq(S)
      BY <2>4 DEF Shape
    <3>2. rows(q) = Program[q][job[q].call].given
      BY <2>1, <2>4, Zenon DEF Shape
    <3>3. job[q].i <= Len(rows(q)) + 1 /\ job[q].i \in Nat
      BY <1>2, <2>1 DEF JobOK, JobType, SqliteKinds
    <3> QED BY <2>1, <3>1, <3>2, <3>3
  <2>6. \A r : Before(Program[q][job[q].call], r, job[q].i) = At(rows(q), r)
    BY <2>5 DEF Before, At
  <2>7. CASE kind(q) = "transaction"
    <3>1. ASSUME NEW r \in Rows
          PROVE  IF At(rows(q), r) # {}
                 THEN disk'[r] = rows(q)[LastOf(At(rows(q), r))].value
                 ELSE r[1] = "op" \/ disk'[r] = disk[r]
      <4>1. CASE r[1] # "op"
        BY <2>1, <2>3, <2>6, <4>1 DEF Wrote
      <4>2. CASE r[1] = "op"
        <5>1. t # "op" /\ \A k \in DOMAIN rows(q) : rows(q)[k].row = <<t, Program[q][job[q].call].given[k].key>>
          BY <2>4, <2>7, Zenon DEF Shape
        <5>2. \A k \in DOMAIN rows(q) : rows(q)[k].row[1] = t
          BY <5>1
        <5> QED BY <4>2, <5>1, <5>2 DEF At
      <4> QED BY <4>1, <4>2
    <3>2. disk' = [r \in Rows |-> disk'[r]]
      BY <1>3, <2>1, <2>3
    <3> QED BY <1>8, <2>1, <3>1, <3>2
  <2>8. CASE kind(q) # "transaction"
    <3>1. \A j \in Job \ {q} : job'[j] = job[j]
      BY <1>1, <1>3, <2>1, ReturnedTo
    <3> QED BY <1>4, <2>1, <2>8, <3>1
  <2> QED BY <2>7, <2>8
<1>12. ASSUME NEW q \in Job, Chunk(q) \/ ChunkFails(q)
       PROVE  AtomicStep
  <2>1. /\ kind(q) \in {"append", "local"}
        /\ \/ job' = Returned(q) \/ job' = Threw(q)
           \/ \E n : job' = [job EXCEPT ![q].i = n]
           \/ job' = [job EXCEPT ![q].at = "fallback"]
    BY <1>2, <1>12 DEF Chunk, ChunkFails, AtCall
  <2>2. \A j \in Job \ {q} : job'[j] = job[j]
    BY <1>3, <2>1 DEF Returned, Threw
  <2> QED BY <1>4, <2>1, <2>2
<1>13. ASSUME NEW q \in Job, PgStatement(q) \/ PgCommit(q)
       PROVE  AtomicStep
  <2>1. disk' = Written(disk, rows(q)) /\ job' = Returned(q)
    BY <1>2, <1>13 DEF PgStatement, PgCommit
  <2>2. PICK es : es = rows(q)
    OBVIOUS
  <2>3. /\ disk' = [r \in Rows |-> disk'[r]]
        /\ \A r \in Rows :
             disk'[r] = IF At(es, r) = {} THEN disk[r] ELSE es[LastOf(At(es, r))].value
    BY <1>3, <2>1, <2>2, WrittenRows
  <2> QED BY <1>8, <2>1, <2>2, <2>3, Zenon
<1>14. ASSUME NEW q \in Job, Rollback(q) \/ PgFails(q)
       PROVE  AtomicStep
  BY <1>6, <1>14 DEF Rollback, PgFails
<1>15. ASSUME Crash PROVE AtomicStep
  <2>1. /\ disk' = disk
        /\ job' = [j \in Job |-> IF job[j].out = "run" THEN [job[j] EXCEPT !.out = "lost"] ELSE job[j]]
    BY <1>15 DEF Crash
  <2>2. ASSUME NEW j \in Job, job'[j] # job[j] PROVE ~done(j)
    <3>1. job'[j] = [job[j] EXCEPT !.out = "lost"]
      BY <2>1, <2>2
    <3> QED BY <1>2, <3>1 DEF JobType
  <2> QED BY <2>1, <2>2 DEF AtomicStep
<1>16. ASSUME job' = job PROVE AtomicStep
  BY <1>16 DEF AtomicStep
<1>17. CASE Next
  <2>1. CASE Forward
    BY <1>16, <2>1 DEF Forward
  <2> QED BY <1>9, <1>10, <1>11, <1>12, <1>13, <1>14, <1>15, <1>17, <2>1 DEF Next, Step
<1>18. CASE UNCHANGED vars
  BY <1>16, <1>18 DEF vars
<1> QED BY <1>17, <1>18

-----------------------------------------------------------------------------
(* What every behaviour of the stores keeps. *)

(* Every step keeps the invariant. *)
LEMMA MaterialNext ==
  ASSUME Assumptions, SignaturesFirst, MaterialInv, [Next]_vars
  PROVE  MaterialInv'
BY TxNext, AuthNext DEF MaterialInv

(* The inductive invariant holds in every reachable state. *)
THEOREM MaterialInvariance == ASSUME Assumptions, SignaturesFirst PROVE Spec => []MaterialInv
<1>1. Init => MaterialInv
  BY MaterialInit
<1>2. MaterialInv /\ [Next]_vars => MaterialInv'
  BY MaterialNext
<1> QED BY <1>1, <1>2, PTL DEF Spec

(* The invariant gives the properties of the stores. *)
LEMMA MaterialSuffices == ASSUME MaterialInv PROVE TransactionHasOwner /\ ForwardsWhatItHolds
BY DEF MaterialInv, TxInv, TxOwned, AuthInv, Inside, TransactionHasOwner, ForwardsWhatItHolds

(* withTransaction of the stores: no error path leaves the shared connection in a transaction *)
(* that nobody ends.                                                                          *)
THEOREM TransactionsAreOwned ==
  ASSUME Assumptions, SignaturesFirst PROVE Spec => []TransactionHasOwner
<1>1. MaterialInv => TransactionHasOwner
  BY MaterialSuffices
<1> QED BY <1>1, MaterialInvariance, PTL

(* createReplayOnlySyncAuth: whatever fails and whenever the process stops, the signature of *)
(* every operation that a peer forwards is in its store.                                     *)
THEOREM ForwardedAreSigned ==
  ASSUME Assumptions, SignaturesFirst PROVE Spec => []ForwardsWhatItHolds
<1>1. MaterialInv => ForwardsWhatItHolds
  BY MaterialSuffices
<1> QED BY <1>1, MaterialInvariance, PTL

(* storePendingOps, deletePendingOps, storeOpAuth, storeCapabilities: a call that returns has *)
(* the last value of every key on disk, one that throws has changed nothing.                  *)
THEOREM CallsAreWhole == ASSUME Assumptions, SignaturesFirst PROVE Spec => [][AtomicStep]_vars
<1>1. MaterialInv /\ [Next]_vars => AtomicStep
  BY AtomicNext DEF MaterialInv
<1> QED BY <1>1, MaterialInvariance, PTL DEF Spec
=============================================================================
