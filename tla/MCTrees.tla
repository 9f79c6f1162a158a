------------------------------ MODULE MCTrees ------------------------------
(***************************************************************************)
(* Two instances of TreeCrdt over the same variables: every local call on  *)
(* a document of one node, and a few calls that conflict in a family of    *)
(* three; and three of Materialization: a SQLite database whose statements *)
(* may fail, a Postgres database with one connection, and one with         *)
(* several.  A behaviour belongs to one of them, chosen at the start.  The *)
(* properties depend on neither the calls nor the bounds.                  *)
(***************************************************************************)
EXTENDS MCTreeCrdt

CONSTANT Parts     \* the instances a configuration explores
VARIABLES part, log, tables, meta, begun

AnyCall == INSTANCE TreeCrdt WITH
             Stored <- OneNode, Intent <- AllCalls, MaxOps <- 3, MaxCounter <- 3
Conflict == INSTANCE TreeCrdt WITH
              Stored <- Family, Intent <- FamilyCalls, MaxOps <- 6, MaxCounter <- 5

\* Replica 2 builds a parent and a child, deletes the parent and moves the
\* child away; replica 1 works on the same nodes meanwhile.
Sent(c, l, k, n, p, v, known) ==
  [replica |-> 2, counter |-> c, lamport |-> l, kind |-> k, node |-> n,
   parent |-> p, payload |-> v, known |-> known]
SentOps == {Sent(1, 1, "insert", n1, ROOT, "x", {}),
            Sent(2, 2, "insert", n2, n1, "x", {}),
            Sent(3, 4, "delete", n1, None, None, {<<2, 1>>, <<2, 2>>}),
            Sent(4, 5, "move", n2, ROOT, None, {})}
TableCalls == {[kind |-> k, node |-> n, parent |-> p, payload |-> v] :
                 <<k, n, p, v>> \in
                   {<<"insert", n3, n1, None>>, <<"move", n3, n2, None>>,
                    <<"move", n2, TRASH, None>>, <<"delete", n1, None, None>>,
                    <<"payload", n2, None, "x">>}}

Sqlite == INSTANCE Materialization WITH
            Backing <- "sqlite", Writer <- {1}, Remote <- SentOps, Intent <- TableCalls,
            MaxLocal <- 2, Overlap <- FALSE, MayFail <- TRUE
Postgres == INSTANCE Materialization WITH
              Backing <- "postgres", Writer <- {1}, Remote <- SentOps, Intent <- TableCalls,
              MaxLocal <- 2, Overlap <- FALSE, MayFail <- FALSE
Servers == INSTANCE Materialization WITH
             Backing <- "postgres", Writer <- {1}, Remote <- SentOps, Intent <- TableCalls,
             MaxLocal <- 2, Overlap <- TRUE, MayFail <- FALSE

ASSUME Sqlite!Assumptions /\ Postgres!Assumptions /\ Servers!Assumptions

tableVars == <<log, tables, meta, begun>>

TreesInit ==
  /\ part \in Parts
  /\ IF part = "conflict" THEN Conflict!Init ELSE AnyCall!Init
  /\ Sqlite!Init

TreesNext ==
  /\ UNCHANGED part
  /\ \/ part = "any call" /\ AnyCall!Next /\ UNCHANGED tableVars
     \/ part = "conflict" /\ Conflict!Next /\ UNCHANGED tableVars
     \/ part = "sqlite" /\ Sqlite!Next /\ UNCHANGED vars
     \/ part = "postgres" /\ Postgres!Next /\ UNCHANGED vars
     \/ part = "servers" /\ Servers!Next /\ UNCHANGED vars

TreesSpec == TreesInit /\ [][TreesNext]_<<part, vars, tableVars>>

TablesMatchLog == Sqlite!TablesMatchLog
=============================================================================
