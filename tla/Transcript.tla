----------------------------- MODULE Transcript -----------------------------
(***************************************************************************)
(* What the first n lines of a Claude Code transcript say: the steps that  *)
(* buildSteps (adapters/claude-code/src/ingest.ts) makes of them, their    *)
(* order and outcomes, and the run status of inferRunStatus.  Pure         *)
(* functions of the lines; ToolCallRows has the form of a line and the     *)
(* file_change rows.                                                       *)
(***************************************************************************)
EXTENDS ToolCallRows

Absent == "absent"
Outcomes == {"pending", "ok", "error"}
RunStatuses == {"in_progress", "ok", "error"}

IsAssistant(lines, i) == lines[i].type = "assistant"
RecordsOf(lines, key, n) ==
  {i \in 1..n : IsAssistant(lines, i) /\ lines[i].key = key}
KeysAt(lines, n) == {lines[i].key : i \in {j \in 1..n : IsAssistant(lines, j)}}

\* Groups come in the order of their first records: the lines that start one.
\* A key's first record is the sequence of its step.
GroupStarts(lines, n) ==
  {i \in 1..n : IsAssistant(lines, i) /\ lines[i].key \notin KeysAt(lines, i - 1)}
FirstRecord(lines, key, n) == Min(RecordsOf(lines, key, n))

\* blocksToAction: the first tool use of the group, if it has one.
ActionRecords(lines, key, n) ==
  {i \in RecordsOf(lines, key, n) : lines[i].uses # <<>>}
ActionUse(lines, key, n) == <<Min(ActionRecords(lines, key, n)), 1>>

\* findToolResult: the user records from a line on that carry the tool_use id.
ResultLines(lines, use, from, n) ==
  {i \in from..n : lines[i].type = "result" /\ lines[i].use = use}

\* The outcome buildSteps gives the step of a key.
OutcomeAt(lines, key, n) ==
  LET from == FirstRecord(lines, key, n) + Cardinality(RecordsOf(lines, key, n))
      found == ResultLines(lines, ActionUse(lines, key, n), from, n)
  IN  IF ActionRecords(lines, key, n) = {} THEN "ok"
      ELSE IF found = {} THEN "pending"
      ELSE IF lines[Min(found)].err THEN "error" ELSE "ok"

\* inferRunStatus, from the last user or assistant record.
RunStatusAt(lines, n) ==
  LET relevant == {i \in 1..n : lines[i].type # "snapshot"}
      last == lines[Max(relevant)]
  IN  IF relevant = {} THEN "in_progress"
      ELSE IF last.type = "result" THEN IF last.err THEN "error" ELSE "in_progress"
      ELSE IF last.type = "assistant" /\ last.uses = <<>> THEN "ok"
      ELSE "in_progress"
=============================================================================
