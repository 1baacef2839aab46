-------------------------- MODULE FileChangeTable --------------------------
(***************************************************************************)
(* The file_change table of the local SQLite store                         *)
(* (packages/collector/src/queries.ts and schema.ts), as operators on a    *)
(* set of rows.  Three writers share the table: transcript ingest          *)
(* (derived_from = "tool_call", numbered from 0 within a step), the hook   *)
(* drain and the resident FileSentinel (both "filesystem_watch", numbered  *)
(* from WATCH_SEQUENCE_BASE).                                              *)
(*                                                                         *)
(* A row is a record with at least                                         *)
(*   step    the step it hangs off (step_id; a step belongs to one run)    *)
(*   seq     its sequence within the step                                  *)
(*   by      derived_from                                                  *)
(*   path, op                                                              *)
(*   before, after   blob refs, NoRef when NULL                            *)
(*   partial         partial_diff                                          *)
(***************************************************************************)
EXTENDS Integers, FiniteSets, FiniteSetsExt

\* A NULL blob ref column.
NoRef == "no-ref"

FileOps == {"create", "modify", "delete", "rename", "chmod"}

\* file_sentinel.ts: watch rows number from here, tool_call rows from 0.
WATCH_SEQUENCE_BASE == 1000

\* queries.ts, assertFileChangeInvariants: what insertFileChange lets through.
\* (No writer modelled here emits a rename, so old_path is left out.)
Accepts(row) ==
  \/ row.op = "chmod"
  \/ row.partial /\ row.before = NoRef /\ row.after = NoRef
  \/ /\ ~row.partial
     /\ (row.op = "create") <=> (row.before = NoRef)
     /\ (row.op = "delete") <=> (row.after = NoRef)

\* schema.ts: UNIQUE(step_id, sequence).
SlotTaken(rows, row) == \E r \in rows : r.step = row.step /\ r.seq = row.seq

\* queries.ts, insertFileChange: the INSERT throws on an invariant error or on
\* the UNIQUE constraint and leaves the table as it was.
Inserts(rows, row) == Accepts(row) /\ ~SlotTaken(rows, row)

InsertFileChange(rows, row) ==
  IF Inserts(rows, row) THEN rows \union {row} ELSE rows

\* queries.ts, listFileChanges(store, { stepId }).
ListFileChanges(rows, step) == {r \in rows : r.step = step}

\* Mutant of NextWatchSeq: the fold is seeded with 0.
NextWatchSeqFromZero(existing) == Max({0} \union {r.seq + 1 : r \in existing})

\* The fold both watch writers use: one past the highest sequence they read,
\* never below the base.
NextWatchSeq(existing) ==
  Max({WATCH_SEQUENCE_BASE} \union {r.seq + 1 : r \in existing})

\* Mutant of Supersedes: only tool_call rows count as recorded.
SupersedesByToolOnly(r, d) == r.path = d.path /\ r.by = "tool_call" /\ ~r.partial

\* A tool_call row is already the truth for this path, or the same observation
\* was recorded before: the dedup of insertDeltas and insertChange.
Supersedes(r, d) ==
  /\ r.path = d.path
  /\ \/ r.by = "tool_call" /\ ~r.partial
     \/ /\ r.by = "filesystem_watch"
        /\ r.op = d.op
        /\ r.before = d.before
        /\ r.after = d.after

AlreadyRecorded(existing, d) == \E r \in existing : Supersedes(r, d)
=============================================================================
