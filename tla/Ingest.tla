------------------------------- MODULE Ingest -------------------------------
(***************************************************************************)
(* ingestSession (adapters/claude-code/src/ingest.ts): one Claude Code     *)
(* session file, appended to by the agent, and the processes that ingest   *)
(* it into the store: the live inspector's tick, `meter ingest`, and the   *)
(* hook drain of every `meter capture`.  Nothing serialises them.  Between *)
(* two awaits other processes run, and every SQLite statement is its own   *)
(* transaction, so each database call is a step of its own here.           *)
(*                                                                         *)
(* The store keeps the runs of the session, one row per (run, step key)    *)
(* -- deterministicStepId makes the step id a function of the two -- the   *)
(* file_change rows, and the ingest_progress offset, counted in lines.     *)
(* The watch writers (FileSentinel, hook drain) are an environment action  *)
(* here: WatchRows.tla has their steps.                                    *)
(***************************************************************************)
EXTENDS Transcript

CONSTANTS
  Ingesters,    \* processes that may call ingestSession
  Keys,         \* API request ids, one per step
  ToolUses,     \* the tool uses the agent may make
  MaxUses,      \* tool uses in one assistant record
  MaxRecords,   \* assistant records one API request is split into
  RunIds,       \* run_<uuid> values a new run may get
  WatchPaths,   \* paths a watch writer may record
  MaxLines,     \* bound on the transcript
  MaxWatch,     \* bound on the watch rows
  MaxCrashes    \* bound on the killed ingests

ASSUME IngestConstants ==
  /\ MaxLines \in Nat /\ MaxWatch \in Nat /\ MaxCrashes \in Nat
  /\ MaxUses \in Nat /\ MaxRecords \in Nat
  /\ \A use \in ToolUses : use.tool \in {"Bash", "Rm", "NotebookEdit", "Write",
                                         "Edit", "MultiEdit", "Read"}

VARIABLES
  lines,        \* the session file: its complete lines
  runs,         \* run rows of this session
  steps,        \* [run -> [key -> outcome status, or Absent]]
  status,       \* [run -> run status]
  total,        \* [run -> step_count]
  rows,         \* file_change rows; a step is <<run, key>>
  cursor,       \* ingest_progress.last_offset
  pc, got, all, run, todo,   \* the locals of each ingest in flight
  crashes       \* killed ingests so far

store == <<runs, steps, status, total, rows, cursor>>
locals == <<pc, got, all, run, todo>>
vars == <<lines, store, locals, crashes>>

NoRun == "no-run"
Phases == {"idle", "open", "insertRun", "steps", "rows", "status", "totals", "offset"}

\* The rows of a run: its steps are named by run and key.
RowsAt(r, n) ==
  LET found == ExtractFileChanges(lines, n)
  IN  [i \in DOMAIN found |-> [found[i] EXCEPT !.step = <<r, found[i].step>>]]

StepsOf(r) == {key \in Keys : steps[r][key] # Absent}

-----------------------------------------------------------------------------
(***************************************************************************)
(* The agent appends to its session file.  The records of one API call are *)
(* written together, and the results of its tool uses after them.          *)
(***************************************************************************)
Append1(record) ==
  /\ Len(lines) < MaxLines
  /\ lines' = Append(lines, record)
  /\ UNCHANGED <<store, locals, crashes>>

OpenKey(key) ==
  \/ key \notin KeysAt(lines, Len(lines))
  \/ /\ Len(lines) > 0
     /\ IsAssistant(lines, Len(lines))
     /\ lines[Len(lines)].key = key
     /\ Cardinality(RecordsOf(lines, key, Len(lines))) < MaxRecords

AgentReplies ==
  \E key \in Keys, uses \in BoundedSeq(ToolUses, MaxUses) :
    /\ OpenKey(key)
    /\ Append1([type |-> "assistant", key |-> key, uses |-> uses])

AgentGetsResult ==
  \E i \in 1..Len(lines), err \in BOOLEAN :
    /\ IsAssistant(lines, i)
    /\ \E j \in 1..Len(lines[i].uses) :
         /\ ResultLines(lines, <<i, j>>, 1, Len(lines)) = {}
         /\ Append1([type |-> "result", use |-> <<i, j>>, err |-> err])

UserPrompts == Append1([type |-> "prompt"])

\* The backups of a turn may be recorded before its first record or after it.
AgentSnapshots ==
  \E turn \in 1..(Len(lines) + 2) :
    LET touched == UNION {ToSet(use.paths) : use \in ToolUses}
    IN  \E paths \in SUBSET touched \ {{}} :
          /\ turn <= Len(lines) => IsAssistant(lines, turn)
          /\ turn # Len(lines) + 1
          /\ Append1([type |-> "snapshot", turn |-> turn, paths |-> paths])

\* FileSentinel and hook drain: a watch row on a step the store has.
WatchInsert ==
  \E r \in runs, key \in Keys, path \in WatchPaths :
    LET step == <<r, key>>
        existing == ListFileChanges(rows, step)
        row == [step |-> step, seq |-> NextWatchSeq(existing),
                by |-> "filesystem_watch", path |-> path, op |-> "create",
                before |-> NoRef, after |-> HasBytes, partial |-> FALSE]
    IN  /\ steps[r][key] # Absent
        /\ Cardinality({x \in rows : x.by = "filesystem_watch"}) < MaxWatch
        /\ ~AlreadyRecorded(existing, row)
        /\ rows' = InsertFileChange(rows, row)
        /\ UNCHANGED <<lines, runs, steps, status, total, cursor, locals, crashes>>

-----------------------------------------------------------------------------
(***************************************************************************)
(* One ingestSession call.                                                 *)
(***************************************************************************)
\* getIngestOffset and readSessionFromOffset; no records past the offset ends
\* the call at once.
Open(p) ==
  /\ pc[p] = "idle"
  /\ Len(lines) > cursor
  /\ pc' = [pc EXCEPT ![p] = "open"]
  /\ got' = [got EXCEPT ![p] = Len(lines)]
  /\ all' = [all EXCEPT ![p] = IF cursor = 0 THEN Len(lines) ELSE 0]
  /\ UNCHANGED <<lines, store, run, todo, crashes>>

\* readEntireFile (unless the first read was already whole), then
\* getRunBySessionId: with several runs the ORDER BY ties on started_at.
FindRun(p) ==
  /\ pc[p] = "open"
  /\ \E n \in got[p]..Len(lines) :
       all' = [all EXCEPT ![p] = IF @ = 0 THEN n ELSE @]
  /\ IF runs = {}
     THEN /\ pc' = [pc EXCEPT ![p] = "insertRun"]
          /\ UNCHANGED run
     ELSE /\ pc' = [pc EXCEPT ![p] = "steps"]
          /\ \E r \in runs : run' = [run EXCEPT ![p] = r]
  /\ todo' = [todo EXCEPT ![p] = 1]
  /\ UNCHANGED <<lines, store, got, crashes>>

\* insertRun with a fresh random id: source_session_id is not UNIQUE.
InsertRun(p) ==
  /\ pc[p] = "insertRun"
  /\ \E r \in RunIds \ runs :
       /\ runs' = runs \union {r}
       /\ status' = [status EXCEPT ![r] = "in_progress"]
       /\ run' = [run EXCEPT ![p] = r]
  /\ pc' = [pc EXCEPT ![p] = "steps"]
  /\ UNCHANGED <<lines, steps, total, rows, cursor, got, all, todo, crashes>>

\* Mutant of UpsertStep: INSERT OR REPLACE, which deletes the step first and
\* cascades to its file_change rows.
UpsertByReplace(r, key, outcome) ==
  /\ steps' = [steps EXCEPT ![r][key] = outcome]
  /\ rows' = {row \in rows : row.step # <<r, key>>}

\* insertStep: an upsert in place.  The conflict updates the row and leaves
\* the file_change rows that hang off the step alone.
UpsertStep(r, key, outcome) ==
  /\ steps' = [steps EXCEPT ![r][key] = outcome]
  /\ UNCHANGED rows

\* The groups of the steps still to come.
StepsLeft(p) == {i \in GroupStarts(lines, all[p]) : i >= todo[p]}

\* Mutant of PutStep: every step gets the first step's outcome.
PutStepFirstOutcome(p) ==
  /\ pc[p] = "steps"
  /\ IF StepsLeft(p) # {}
     THEN LET first == lines[Min(GroupStarts(lines, all[p]))].key
          IN  /\ UpsertStep(run[p], lines[Min(StepsLeft(p))].key, OutcomeAt(lines, first, all[p]))
              /\ todo' = [todo EXCEPT ![p] = Min(StepsLeft(p)) + 1]
              /\ UNCHANGED pc
     ELSE /\ pc' = [pc EXCEPT ![p] = "rows"]
          /\ todo' = [todo EXCEPT ![p] = 1]
          /\ UNCHANGED <<steps, rows>>
  /\ UNCHANGED <<lines, runs, status, total, cursor, got, all, run, crashes>>

\* One step of buildSteps after the other, in the order of the groups.
PutStep(p) ==
  /\ pc[p] = "steps"
  /\ IF StepsLeft(p) # {}
     THEN LET key == lines[Min(StepsLeft(p))].key
          IN  /\ UpsertStep(run[p], key, OutcomeAt(lines, key, all[p]))
              /\ todo' = [todo EXCEPT ![p] = Min(StepsLeft(p)) + 1]
              /\ UNCHANGED pc
     ELSE /\ pc' = [pc EXCEPT ![p] = "rows"]
          /\ todo' = [todo EXCEPT ![p] = 1]
          /\ UNCHANGED <<steps, rows>>
  /\ UNCHANGED <<lines, runs, status, total, cursor, got, all, run, crashes>>

\* insertFileChange row by row; a throw is swallowed (UNIQUE) or logged.
PutRow(p) ==
  /\ pc[p] = "rows"
  /\ LET found == RowsAt(run[p], all[p])
     IN  IF todo[p] <= Len(found)
         THEN /\ rows' = InsertFileChange(rows, found[todo[p]])
              /\ todo' = [todo EXCEPT ![p] = @ + 1]
              /\ UNCHANGED pc
         ELSE /\ pc' = [pc EXCEPT ![p] = "status"]
              /\ UNCHANGED <<rows, todo>>
  /\ UNCHANGED <<lines, runs, steps, status, total, cursor, got, all, run, crashes>>

\* setRunStatus
SetStatus(p) ==
  /\ pc[p] = "status"
  /\ status' = [status EXCEPT ![run[p]] = RunStatusAt(lines, all[p])]
  /\ pc' = [pc EXCEPT ![p] = "totals"]
  /\ UNCHANGED <<lines, runs, steps, total, rows, cursor, got, all, run, todo, crashes>>

\* Mutant of UpdateTotals: the totals are added to.
UpdateTotalsAdds(p) ==
  /\ pc[p] = "totals"
  /\ total' = [total EXCEPT ![run[p]] = @ + Cardinality(StepsOf(run[p]))]
  /\ pc' = [pc EXCEPT ![p] = "offset"]
  /\ UNCHANGED <<lines, runs, steps, status, rows, cursor, got, all, run, todo, crashes>>

\* updateRunTotals: the totals are sums over the rows of steps.
UpdateTotals(p) ==
  /\ pc[p] = "totals"
  /\ total' = [total EXCEPT ![run[p]] = Cardinality(StepsOf(run[p]))]
  /\ pc' = [pc EXCEPT ![p] = "offset"]
  /\ UNCHANGED <<lines, runs, steps, status, rows, cursor, got, all, run, todo, crashes>>

Forget(p) ==
  /\ pc' = [pc EXCEPT ![p] = "idle"]
  /\ got' = [got EXCEPT ![p] = 0]
  /\ all' = [all EXCEPT ![p] = 0]
  /\ run' = [run EXCEPT ![p] = NoRun]
  /\ todo' = [todo EXCEPT ![p] = 1]

\* Mutants of SetOffset: the offset is the file's size at the end of the
\* ingest; it is not saved.
SetOffsetToSize(p) ==
  /\ pc[p] = "offset"
  /\ cursor' = Len(lines)
  /\ Forget(p)
  /\ UNCHANGED <<lines, runs, steps, status, total, rows, crashes>>

SetOffsetUnsaved(p) ==
  /\ pc[p] = "offset"
  /\ Forget(p)
  /\ UNCHANGED <<lines, store, crashes>>

\* setIngestOffset(endOffset(records)): the end of the FIRST read.
SetOffset(p) ==
  /\ pc[p] = "offset"
  /\ cursor' = got[p]
  /\ Forget(p)
  /\ UNCHANGED <<lines, runs, steps, status, total, rows, crashes>>

\* The process is killed between two calls.
Crash(p) ==
  /\ pc[p] # "idle"
  /\ crashes < MaxCrashes
  /\ crashes' = crashes + 1
  /\ Forget(p)
  /\ UNCHANGED <<lines, store>>

-----------------------------------------------------------------------------
Init ==
  /\ lines = <<>>
  /\ runs = {}
  /\ steps = [r \in RunIds |-> [key \in Keys |-> Absent]]
  /\ status = [r \in RunIds |-> Absent]
  /\ total = [r \in RunIds |-> 0]
  /\ rows = {}
  /\ cursor = 0
  /\ pc = [p \in Ingesters |-> "idle"]
  /\ got = [p \in Ingesters |-> 0]
  /\ all = [p \in Ingesters |-> 0]
  /\ run = [p \in Ingesters |-> NoRun]
  /\ todo = [p \in Ingesters |-> 1]
  /\ crashes = 0

Agent == AgentReplies \/ AgentGetsResult \/ UserPrompts \/ AgentSnapshots

IngestStep(p) ==
  Open(p) \/ FindRun(p) \/ InsertRun(p) \/ PutStep(p) \/ PutRow(p)
  \/ SetStatus(p) \/ UpdateTotals(p) \/ SetOffset(p)

Next ==
  \/ Agent
  \/ WatchInsert
  \/ \E p \in Ingesters : IngestStep(p) \/ Crash(p)

\* An ingest in flight runs to its end or is killed; the inspector polls the
\* file, so a file with unread lines is opened again.
Fairness == \A p \in Ingesters : WF_vars(IngestStep(p))

Spec == Init /\ [][Next]_vars /\ Fairness
-----------------------------------------------------------------------------
(***************************************************************************)
(* Properties.                                                             *)
(***************************************************************************)
LineTypes == {"assistant", "result", "prompt", "snapshot"}

\* The run has a row for each step of the file, and its totals count them.
CompleteRun(r) ==
  /\ StepsOf(r) = KeysAt(lines, Len(lines))
  /\ total[r] = Cardinality(StepsOf(r))

\* Whatever the interleaving of several ingests, those in flight included, a
\* file read to its end has a complete run.
SomeRunComplete ==
  cursor = Len(lines) /\ cursor > 0 => \E r \in runs : CompleteRun(r)

\* The paths a tool use changes, for every tool use that is not read-only and
\* was not refused (an Edit whose old_string is not in the backup was).
ChangedPaths(use, backed) ==
  CASE use.tool = "Bash" -> {ShellPath}
    [] use.tool \in {"Edit", "MultiEdit"} /\ ~use.fits -> ToSet(use.paths) \ backed
    [] use.tool = "Read" -> {}
    [] OTHER -> ToSet(use.paths)

\* Every change the transcript shows has its tool_call row once the offset has
\* passed it, on the step that made it -- whatever watch rows came first.
CapturesEveryUse ==
  \A i \in 1..cursor :
    IsAssistant(lines, i) =>
      \A j \in 1..Len(lines[i].uses) :
        \A path \in ChangedPaths(lines[i].uses[j], BackedPaths(lines, Len(lines), i)) :
          \E row \in rows :
            /\ row.by = "tool_call"
            /\ row.step[2] = lines[i].key
            /\ row.path = path

\* A stored step and its outcome are what some prefix of the file said, never a
\* mixture.
NothingInvented ==
  \A r \in RunIds : \A key \in StepsOf(r) :
    \E m \in 1..Len(lines) : /\ key \in KeysAt(lines, m)
                             /\ steps[r][key] = OutcomeAt(lines, key, m)

\* The watch rows have no other source: an ingest, which upserts the step
\* they hang off again and again, never removes one.
WatchRowsSurvive ==
  [][\A row \in rows : row.by = "filesystem_watch" => row \in rows']_vars

\* Every line is ingested in the end, whatever was killed on the way: again and
\* again the offset has caught up with the file.
EventuallyIngested == []<>(cursor = Len(lines))

\* The abstract mirror, read off the run of the session.
StoreView ==
  [key \in Keys |-> IF runs = {} THEN Absent ELSE steps[CHOOSE r \in runs : TRUE][key]]

Mirror == INSTANCE TranscriptMirror WITH view <- StoreView, seen <- cursor

\* A single ingest at a time, killed wherever it may be, implements the mirror:
\* the offset never runs ahead of what was stored, and no stored outcome ever
\* goes back to before the offset.
MirrorsTranscript == Mirror!Spec
=============================================================================
