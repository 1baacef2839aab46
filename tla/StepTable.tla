----------------------------- MODULE StepTable -----------------------------
(***************************************************************************)
(* The steps table of the store (packages/collector/src/schema.ts and      *)
(* queries.ts): one row per step_id, one per (run_id, sequence).  All      *)
(* recorders that rebuild a run write through insertStep, an upsert with   *)
(* a conflict arm for each of the two.                                     *)
(*                                                                         *)
(* A row is [id, run, seq, body]; body stands for the columns an update    *)
(* overwrites.                                                             *)
(***************************************************************************)
EXTENDS Integers, Sequences, FiniteSets, SequencesExt, FiniteSetsExt

SameId(table, row) == {r \in table : r.id = row.id}
SameSlot(table, row) == {r \in table : r.run = row.run /\ r.seq = row.seq}

\* A known id takes the new sequence, which another row may still hold.
StepRefused(table, row) ==
  SameId(table, row) # {} /\ SameSlot(table, row) \ SameId(table, row) # {}

\* Known id: overwrite in place.  New id on a taken slot: the row there takes
\* the new body and keeps its id.
InsertStep(table, row) ==
  IF SameId(table, row) # {} THEN (table \ SameId(table, row)) \union {row}
  ELSE IF SameSlot(table, row) = {} THEN table \union {row}
  ELSE LET held == CHOOSE r \in SameSlot(table, row) : TRUE
       IN  (table \ {held}) \union {[row EXCEPT !.id = held.id]}

\* The rows one after the other, up to the first that throws.
InsertSteps(table, rows) ==
  LET put[k \in 0..Len(rows)] ==
        IF k = 0 THEN [ok |-> TRUE, table |-> table]
        ELSE LET before == put[k - 1]
             IN  IF ~before.ok THEN before
                 ELSE IF StepRefused(before.table, rows[k]) THEN [before EXCEPT !.ok = FALSE]
                 ELSE [ok |-> TRUE, table |-> InsertStep(before.table, rows[k])]
  IN  put[Len(rows)]

StepsOfRun(table, run) == {r \in table : r.run = run}

\* updateRunTotals: recomputed from the rows, never added to.  The amount of
\* a row is the field `usage' of its body.
RunTotal(table, run) ==
  MapThenSumSet(LAMBDA r : r.body.usage, StepsOfRun(table, run))

\* The two uniqueness constraints of the table.
StepsUnique(table) ==
  \A r, s \in table : (r.id = s.id \/ (r.run = s.run /\ r.seq = s.seq)) => r = s
=============================================================================
