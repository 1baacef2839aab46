----------------------------- MODULE WatchRows -----------------------------
(***************************************************************************)
(* The writers of one step's file_change rows, racing.                     *)
(*                                                                         *)
(* Watch writers record changes they observed.  A drain (drainStash and    *)
(* insertDeltas, packages/server/src/hook_capture.ts) works through the    *)
(* deltas of a stash record and then unlinks the record's file; several    *)
(* hook processes may drain the same record.  A sentinel (insertChange,    *)
(* packages/server/src/file_sentinel.ts) records one change and has        *)
(* forgotten the one before: its snapshot moved on first.  Both read the   *)
(* step's rows, drop what is already recorded, and insert from one past    *)
(* the highest sequence, with one retry (insertWatchRow).  The read, the   *)
(* insert, the retry's read and the retry's insert are separate SQLite     *)
(* statements, and other processes run in between.                         *)
(*                                                                         *)
(* Transcript ingest inserts the step's tool_call rows meanwhile, whenever *)
(* it gets to them and perhaps late.                                       *)
(***************************************************************************)
EXTENDS FileChangeTable, Sequences, SequencesExt

CONSTANTS
  Step,          \* the step all of them write to
  Drains,        \* hook processes that may drain the record
  Sentinels,     \* FileSentinels that observed a change
  Deltas,        \* the deltas of the stash record, in order
  Observed,      \* [Sentinels -> the one change each observed]
  ToolRows,      \* the tool_call rows ingest derives for the step
  MaxKills       \* bound on the drains killed by the hook timeout

Writers == Drains \union Sentinels

\* A delta as stashed.  One side of a partial delta may have been captured.
IsDelta(d) ==
  /\ d.op \in {"create", "modify", "delete"}
  /\ IF d.partial THEN d.before = NoRef \/ d.after = NoRef
     ELSE /\ (d.op = "create") <=> (d.before = NoRef)
          /\ (d.op = "delete") <=> (d.after = NoRef)

ASSUME WatchConstants ==
  /\ Drains \intersect Sentinels = {}
  /\ Len(Deltas) \in Nat
  /\ \A i \in 1..Len(Deltas) : IsDelta(Deltas[i])
  /\ \A s \in Sentinels :
       /\ IsDelta(Observed[s])
       /\ Observed[s].partial => Observed[s].before = NoRef /\ Observed[s].after = NoRef
  /\ MaxKills \in Nat

\* No step has 1000 tool_call rows: "no realistic step has 1000 tool_call file
\* changes" (file_sentinel.ts).  The numbers of one derivation are distinct.
ASSUME ToolRowsFit ==
  \A row \in ToolRows :
    /\ row.step = Step /\ row.by = "tool_call"
    /\ row.seq \in 0..(WATCH_SEQUENCE_BASE - 1)
    /\ Accepts(row)
    /\ \A other \in ToolRows : other.seq = row.seq => other = row

VARIABLES
  rows,        \* the file_change rows of the step
  stashed,     \* the stash record's file exists
  pc,          \* [Writers -> phase]
  saw,         \* the rows each writer read before its first insert
  seq,         \* the sequence it will try next
  retry,       \* the sequence its retry will try
  at,          \* the delta it is at
  tried,       \* the tool_call rows ingest has issued an INSERT for
  kills,
  overlapped   \* history: two writers have been at work at once

local == <<pc, saw, seq, retry, at>>
rowVars == <<rows, stashed, local, tried, kills>>
watchVars == <<rowVars, overlapped>>

Batch(w) == IF w \in Drains THEN Deltas ELSE <<Observed[w]>>

\* The row of a delta: a partial one goes in without refs.
WatchRow(d, n) ==
  [step |-> Step, seq |-> n, by |-> "filesystem_watch", path |-> d.path, op |-> d.op,
   before |-> IF d.partial THEN NoRef ELSE d.before,
   after |-> IF d.partial THEN NoRef ELSE d.after, partial |-> d.partial]

Move(w, phase) == pc' = [pc EXCEPT ![w] = phase]
NextDelta(w) == at' = [at EXCEPT ![w] = @ + 1]
Current(w) == Batch(w)[at[w]]

-----------------------------------------------------------------------------
\* A drain loads the record if its file is still there; a sentinel starts from
\* its event.  Both read the rows of the step once.
ReadExisting(w) ==
  /\ pc[w] = "idle"
  /\ w \in Drains => stashed
  /\ saw' = [saw EXCEPT ![w] = ListFileChanges(rows, Step)]
  /\ seq' = [seq EXCEPT ![w] = NextWatchSeq(ListFileChanges(rows, Step))]
  /\ at' = [at EXCEPT ![w] = 1]
  /\ Move(w, "insert")
  /\ UNCHANGED <<rows, stashed, retry, tried, kills>>

\* The delta is among the rows read at the start: skip it.
SkipRecorded(w) ==
  /\ pc[w] = "insert"
  /\ at[w] <= Len(Batch(w))
  /\ AlreadyRecorded(saw[w], Current(w))
  /\ NextDelta(w)
  /\ UNCHANGED <<rows, stashed, pc, saw, seq, retry, tried, kills>>

\* insertWatchRow, first attempt.  The counter moves on whatever comes of it.
InsertFirst(w) ==
  /\ pc[w] = "insert"
  /\ at[w] <= Len(Batch(w))
  /\ ~AlreadyRecorded(saw[w], Current(w))
  /\ LET row == WatchRow(Current(w), seq[w])
     IN  /\ rows' = InsertFileChange(rows, row)
         /\ IF Inserts(rows, row) THEN NextDelta(w) /\ UNCHANGED pc
            ELSE Move(w, "reread") /\ UNCHANGED at
  /\ seq' = [seq EXCEPT ![w] = @ + 1]
  /\ UNCHANGED <<stashed, saw, retry, tried, kills>>

\* The one retry of insertWatchRow: a fresh maximum ...
Reread(w) ==
  /\ pc[w] = "reread"
  /\ retry' = [retry EXCEPT ![w] = NextWatchSeq(ListFileChanges(rows, Step))]
  /\ Move(w, "again")
  /\ UNCHANGED <<rows, stashed, saw, seq, at, tried, kills>>

\* ... and a second insert, whose error nobody catches in insertDeltas: the
\* drain stops, the sentinel gives the path up.
InsertAgain(w) ==
  /\ pc[w] = "again"
  /\ LET row == WatchRow(Current(w), retry[w])
     IN  /\ rows' = InsertFileChange(rows, row)
         /\ IF Inserts(rows, row) THEN NextDelta(w) /\ Move(w, "insert")
            ELSE Move(w, "failed") /\ UNCHANGED at
  /\ UNCHANGED <<stashed, saw, seq, retry, tried, kills>>

\* Mutants of Finish: the record goes one delta early; its file stays.
FinishEarly(w) ==
  /\ pc[w] = "insert"
  /\ at[w] >= Len(Batch(w))
  /\ stashed' = (stashed /\ w \notin Drains)
  /\ Move(w, "done")
  /\ UNCHANGED <<rows, saw, seq, retry, at, tried, kills>>

FinishKeeps(w) ==
  /\ pc[w] = "insert"
  /\ at[w] > Len(Batch(w))
  /\ Move(w, "done")
  /\ UNCHANGED <<rows, stashed, saw, seq, retry, at, tried, kills>>

\* All deltas done: a drain unlinks the record.
Finish(w) ==
  /\ pc[w] = "insert"
  /\ at[w] > Len(Batch(w))
  /\ stashed' = (stashed /\ w \notin Drains)
  /\ Move(w, "done")
  /\ UNCHANGED <<rows, saw, seq, retry, at, tried, kills>>

\* A later hook invocation takes the drain's place ...
DrainAgain(w) ==
  /\ w \in Drains
  /\ pc[w] \in {"done", "failed"}
  /\ stashed
  /\ Move(w, "idle")
  /\ UNCHANGED <<rows, stashed, saw, seq, retry, at, tried, kills>>

\* ... or Claude Code kills the hook at its timeout.
Kill(w) ==
  /\ w \in Drains
  /\ pc[w] \in {"insert", "reread", "again"}
  /\ kills < MaxKills
  /\ kills' = kills + 1
  /\ Move(w, "idle")
  /\ UNCHANGED <<rows, stashed, saw, seq, retry, at, tried>>

\* ingestSession gets to one of its rows; a UNIQUE error is swallowed.
IngestToolRow ==
  \E row \in ToolRows \ tried :
    /\ rows' = InsertFileChange(rows, row)
    /\ tried' = tried \union {row}
    /\ UNCHANGED <<stashed, local, kills>>

-----------------------------------------------------------------------------
RowsInit ==
  /\ rows = {}
  /\ stashed = TRUE
  /\ pc = [w \in Writers |-> "idle"]
  /\ saw = [w \in Writers |-> {}]
  /\ seq = [w \in Writers |-> WATCH_SEQUENCE_BASE]
  /\ retry = [w \in Writers |-> WATCH_SEQUENCE_BASE]
  /\ at = [w \in Writers |-> 1]
  /\ tried = {}
  /\ kills = 0
  /\ overlapped = FALSE

WriterStep(w) ==
  \/ ReadExisting(w) \/ SkipRecorded(w) \/ InsertFirst(w)
  \/ Reread(w) \/ InsertAgain(w) \/ Finish(w) \/ DrainAgain(w)

AtWork == {w \in Writers : pc[w] \in {"insert", "reread", "again"}}

RowsNext ==
  /\ \/ \E w \in Writers : WriterStep(w) \/ Kill(w)
     \/ IngestToolRow
  /\ overlapped' = (overlapped \/ \E w \in AtWork' : AtWork' # {w})

RowsSpec == RowsInit /\ [][RowsNext]_watchVars

-----------------------------------------------------------------------------
(***************************************************************************)
(* Properties.                                                             *)
(***************************************************************************)
WatchOnly == {r \in rows : r.by = "filesystem_watch"}

\* A record's file goes only when each of its deltas is on the step, as a row
\* of its own or under a tool_call row: no drain, killed or raced or retried,
\* loses a change.
UnlinkedMeansRecorded ==
  ~stashed => \A k \in 1..Len(Deltas) :
    \/ AlreadyRecorded(rows, Deltas[k])
    \/ \E r \in WatchOnly : r = WatchRow(Deltas[k], r.seq)

OneRowPerChange ==
  \A r1, r2 \in WatchOnly :
    r1.path = r2.path /\ r1.op = r2.op /\ r1.before = r2.before /\ r1.after = r2.after
      => r1 = r2

\* One observation, one watch row, however often its record is drained and
\* whichever of drain and sentinel came first: "exactly one row per changed path
\* per step -- either path may win, never both"
\* (docs/test-plan-v0_4-capture.md), as long as no two were at it at once.
OneRowPerObservation == overlapped \/ OneRowPerChange
=============================================================================
