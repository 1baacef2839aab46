----------------------------- MODULE StoreSchema -----------------------------
(***************************************************************************)
(* Opening the store (packages/collector/src/store.ts, schema.ts, and their  *)
(* Python port agent-py/schema.py): every process that opens it - the server, *)
(* each hook of each tool call, a watch, an agent - runs ensureSchema, which  *)
(* guards against a newer database, creates what is missing and migrates     *)
(* what is there, statement by statement and in no transaction.  Several do  *)
(* it at once, and may be killed.                                          *)
(*                                                                         *)
(* A database is [tables, columns, check, notes, version]: the columns that  *)
(* versions after the first have added, what the CHECK on the kind of an     *)
(* annotation allows, the annotations, the schema_version row (0: none).    *)
(***************************************************************************)
EXTENDS Integers, Sequences, FiniteSets

CONSTANTS Stores,       \* the databases there may be at first
          Openers,      \* processes that open the store
          Python,       \* those of them that are agents written in Python
          MaxOpens      \* bound: the store is opened so often

ASSUME SchemaConstants == MaxOpens \in Nat \ {0} /\ Python \subseteq Openers

SCHEMA_VERSION == 8
PYTHON_SCHEMA_VERSION == 3

VARIABLES
  scStore,    \* the database file
  scOpener,   \* per process: [at, found, state]: its next statement, what it read
  scOpens,    \* how often the store has been opened
  scFirst     \* the database as it was at first

schemaVars == <<scStore, scOpener, scOpens, scFirst>>

-----------------------------------------------------------------------------
(* What ensureSchema executes, in order.                                   *)

Creates(table) == [op |-> "table", name |-> table]
Adds(column) == [op |-> "column", name |-> column]

\* Mutant of Statements: the version is written when the tables are there.
StatementsVersionFirst ==
  <<Creates("meta"), Creates("runs"), Creates("steps"), Creates("annotations"),
    [op |-> "version", name |-> "meta"],
    Adds("steps2"), Adds("runs4"), Adds("annotations5"), Adds("runs6"), Adds("steps6"),
    Adds("steps7"), Adds("runs8"), [op |-> "check", name |-> "annotations"]>>

\* A column carries the version it came with; tables with no part in a
\* migration are left out.
Statements ==
  <<Creates("meta"), Creates("runs"), Creates("steps"), Creates("annotations"),
    Adds("steps2"), Adds("runs4"), Adds("annotations5"), Adds("runs6"), Adds("steps6"),
    Adds("steps7"), Adds("runs8"), [op |-> "check", name |-> "annotations"],
    [op |-> "version", name |-> "meta"]>>

PythonStatements ==
  <<Creates("meta"), Creates("runs"), Creates("steps"), Creates("annotations"),
    Adds("steps2"), Adds("annotations5"), [op |-> "version", name |-> "meta"]>>

\* The columns CREATE TABLE declares by itself.
Declared ==
  [meta |-> {}, runs |-> {"runs6", "runs8"}, steps |-> {"steps2", "steps6", "steps7"},
   annotations |-> {"annotations5"}]
PythonDeclared ==
  [meta |-> {}, runs |-> {}, steps |-> {"steps2"}, annotations |-> {"annotations5"}]
AllColumns == {Statements[i].name : i \in {k \in DOMAIN Statements : Statements[k].op = "column"}}

\* CREATE TABLE IF NOT EXISTS.  Python's annotations lack the newest kind.
CreateTable(store, table, python) ==
  IF table \in store.tables THEN store
  ELSE [store EXCEPT
          !.tables = @ \union {table},
          !.columns = @ \union IF python THEN PythonDeclared[table] ELSE Declared[table],
          !.check = IF table # "annotations" THEN @ ELSE IF python THEN "narrow" ELSE "wide"]

\* A kind the CHECK baked into the table knows; a table that got the column by
\* ALTER has no CHECK.
Accepted(store, kind) == store.check # "narrow" \/ kind # "context_compaction"

Complete(store) ==
  /\ DOMAIN Declared \subseteq store.tables
  /\ AllColumns \subseteq store.columns
  /\ Accepted(store, "context_compaction")

Carries(store, statement) ==
  /\ statement.op = "table" => statement.name \in store.tables
  /\ statement.op = "column" => statement.name \in store.columns

\* What a build has left: this one all of its schema, a newer one what any build
\* before it had, for no migration takes away a table or a column.
ASSUME StoresOfBuilds ==
  \A store \in Stores :
    /\ DOMAIN store = {"tables", "columns", "check", "version", "notes"}
    /\ store.version \in Nat
    /\ store.version = SCHEMA_VERSION => Complete(store)
    /\ store.version > SCHEMA_VERSION =>
         \A i \in DOMAIN PythonStatements : Carries(store, PythonStatements[i])

-----------------------------------------------------------------------------
Program(p) == IF p \in Python THEN PythonStatements ELSE Statements
Statement(p) == Program(p)[scOpener[p].at]
Running(p, op) == scOpener[p].state = "running" /\ Statement(p).op = op
Fails(p) == scOpener' = [scOpener EXCEPT ![p].state = "failed"]
Goes(p) ==
  scOpener' = [scOpener EXCEPT ![p] =
    IF @.at = Len(Program(p)) THEN [at |-> 1, found |-> "unread", state |-> "open"]
    ELSE [at |-> @.at + 1, found |-> "unread", state |-> "running"]]
Finds(p, what) == scOpener' = [scOpener EXCEPT ![p].found = what]
Found(p) == scOpener[p].found

\* The guard, before any statement that writes.  Python has none.
Open(p) ==
  /\ scOpener[p].state \in {"closed", "failed"} /\ scOpens < MaxOpens
  /\ scOpens' = scOpens + 1
  /\ scOpener' = [scOpener EXCEPT ![p] =
       [at |-> 1, found |-> "unread",
        state |-> IF p \notin Python /\ scStore.version > SCHEMA_VERSION
                  THEN "refused" ELSE "running"]]
  /\ UNCHANGED <<scStore, scFirst>>

CreateIfMissing(p) ==
  /\ Running(p, "table")
  /\ scStore' = CreateTable(scStore, Statement(p).name, p \in Python)
  /\ Goes(p)
  /\ UNCHANGED <<scOpens, scFirst>>

\* ensureColumn reads the columns of the table...
LookForColumn(p) ==
  /\ Running(p, "column") /\ Found(p) = "unread"
  /\ IF Statement(p).name \in scStore.columns THEN Goes(p) ELSE Finds(p, "missing")
  /\ UNCHANGED <<scStore, scOpens, scFirst>>

\* ...and adds the one that was missing.  Another process may have been faster:
\* the duplicate throws, and the store is not open.
AddColumn(p) ==
  /\ Running(p, "column") /\ Found(p) # "unread"
  /\ scStore' = [scStore EXCEPT !.columns = @ \union {Statement(p).name}]
  /\ IF Statement(p).name \in scStore.columns THEN Fails(p) ELSE Goes(p)
  /\ UNCHANGED <<scOpens, scFirst>>

LookAtCheck(p) ==
  /\ Running(p, "check") /\ Found(p) = "unread"
  /\ IF scStore.check = "narrow" THEN Finds(p, "old") ELSE Goes(p)
  /\ UNCHANGED <<scStore, scOpens, scFirst>>

\* Rename, create, copy, drop in one transaction.
RebuildAnnotations(p) ==
  /\ Running(p, "check") /\ Found(p) # "unread"
  /\ scStore' = [scStore EXCEPT !.check = "wide"]
  /\ Goes(p)
  /\ UNCHANGED <<scOpens, scFirst>>

\* Python writes a version only where there is none.
LookAtVersion(p) ==
  /\ Running(p, "version") /\ Found(p) = "unread"
  /\ IF scStore.version = 0 THEN Finds(p, "missing")
     ELSE IF p \notin Python /\ scStore.version < SCHEMA_VERSION THEN Finds(p, "old") ELSE Goes(p)
  /\ UNCHANGED <<scStore, scOpens, scFirst>>

\* The row that another process has inserted meanwhile refuses the INSERT.
WriteVersion(p) ==
  /\ Running(p, "version") /\ Found(p) # "unread"
  /\ IF Found(p) = "missing" /\ scStore.version # 0
     THEN Fails(p) /\ UNCHANGED scStore
     ELSE /\ scStore' = [scStore EXCEPT !.version =
                          IF p \in Python THEN PYTHON_SCHEMA_VERSION ELSE SCHEMA_VERSION]
          /\ Goes(p)
  /\ UNCHANGED <<scOpens, scFirst>>

\* insertAnnotation, of a system-made or of a human one.
Annotate(p, kind) ==
  /\ scOpener[p].state = "open" /\ p \notin Python
  /\ scStore' = IF Accepted(scStore, kind) THEN [scStore EXCEPT !.notes = @ \union {<<p, kind>>}]
                ELSE scStore
  /\ scOpener' = [scOpener EXCEPT ![p].state =
       IF Accepted(scStore, kind) THEN "closed" ELSE "cannot write"]
  /\ UNCHANGED <<scOpens, scFirst>>

Killed(p) ==
  /\ scOpener[p].state = "running"
  /\ Fails(p)
  /\ UNCHANGED <<scStore, scOpens, scFirst>>

SchemaInit ==
  /\ scStore \in Stores
  /\ scFirst = scStore
  /\ scOpener = [p \in Openers |-> [at |-> 1, found |-> "unread", state |-> "closed"]]
  /\ scOpens = 0

SchemaNext ==
  \E p \in Openers :
    \/ Open(p) \/ CreateIfMissing(p)
    \/ LookForColumn(p) \/ AddColumn(p)
    \/ LookAtCheck(p) \/ RebuildAnnotations(p)
    \/ LookAtVersion(p) \/ WriteVersion(p)
    \/ \E kind \in {"comment", "context_compaction"} : Annotate(p, kind)
    \/ Killed(p)

SchemaSpec == SchemaInit /\ [][SchemaNext]_schemaVars

-----------------------------------------------------------------------------
\* Whichever opener is killed or fails on another's statement: a database that
\* says it is of this version, and one that this build has opened, has
\* everything of this version, whatever it began as; nothing that was written is
\* lost on the way; and a database of a newer build is left as it was.
MigrationHolds ==
  /\ scStore.version = SCHEMA_VERSION => Complete(scStore)
  /\ \A p \in Openers \ Python : scOpener[p].state = "open" => Complete(scStore)
  /\ \A p \in Openers : scOpener[p].state # "cannot write"
  /\ scFirst.notes \subseteq scStore.notes
  /\ scFirst.version > SCHEMA_VERSION => scStore = scFirst
=============================================================================
