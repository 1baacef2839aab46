---------------------------- MODULE ToolCallRows ----------------------------
(***************************************************************************)
(* extractFileChanges (adapters/claude-code/src/file_changes.ts) and the   *)
(* size policy it applies (packages/collector/src/file_size_policy.ts):    *)
(* the file_change rows that a prefix of a Claude Code transcript yields.  *)
(*                                                                         *)
(* A transcript line is a record with a type:                              *)
(*   "assistant"  [key |-> API request, uses |-> sequence of tool uses]    *)
(*   "result"     [use |-> tool_use id, err |-> BOOLEAN]   (a user record) *)
(*   "prompt"     a user record without a tool_result                      *)
(*   "snapshot"   [turn |-> line number, paths |-> backed-up paths]        *)
(* The uuid of an assistant record is its line number; a tool_use id is    *)
(* the pair <<line, position>>.  Lines with one key are one step.          *)
(*                                                                         *)
(* A tool use is [tool, paths, fits, size]: the tool, its path operands,   *)
(* whether an Edit's old_string occurs in the backup, and the class of the *)
(* larger side under the size policy.  Contents are abstracted to which    *)
(* blob refs a row carries.                                                *)
(***************************************************************************)
EXTENDS FileChangeTable, Sequences, SequencesExt

CONSTANT SensitivePaths      \* SENSITIVE_METERBILITYIGNORE matches these

SizeClasses == {"full", "partial", "skip"}
ShellPath == "(shell)"
HasBytes == "blob"

\* makeStub: a partial row, no refs.
Stub(step, seq, path, op) ==
  [step |-> step, seq |-> seq, by |-> "tool_call", path |-> path, op |-> op,
   before |-> NoRef, after |-> NoRef, partial |-> TRUE]

\* enforceFileSizePolicy: the refs left after the policy, the two sides given
\* as HasBytes or NoRef.  Over the partial limit the larger side is dropped and
\* the smaller kept; a lone side is the larger one.  Which of two sides is the
\* larger tells no property anything: the model keeps after.
SizePolicy(before, after, size) ==
  CASE size = "full"    -> [before |-> before, after |-> after, partial |-> FALSE]
    [] size = "skip"    -> [before |-> NoRef, after |-> NoRef, partial |-> FALSE]
    [] size = "partial" -> [before |-> NoRef,
                            after |-> IF before = NoRef THEN NoRef ELSE after,
                            partial |-> TRUE]

\* materialize: a full row, or a redacted stub for a sensitive path.
Materialize(step, seq, path, op, before, after, size) ==
  IF path \in SensitivePaths
  THEN Stub(step, seq, path, op)
  ELSE LET kept == SizePolicy(before, after, size)
       IN  [step |-> step, seq |-> seq, by |-> "tool_call", path |-> path,
            op |-> op, before |-> kept.before, after |-> kept.after,
            partial |-> kept.partial]

\* extractBash for a pure `rm`: one row per target, in argument order.  A stub
\* takes the running number; a row with recovered bytes is materialized at the
\* number the whole tool use started from.
RmRow(step, start, i, path, backed, size) ==
  IF path \in backed
  THEN Materialize(step, start, path, "delete", HasBytes, NoRef, size)
  ELSE Stub(step, start + i - 1, path, "delete")

\* parseRmCommand: the operands of a command that is nothing but an `rm` of literal
\* paths.  Such a use has the tool "Rm" here, any other command "Bash".
ParseRmCommand(use) == IF use.tool = "Rm" THEN use.paths ELSE <<>>

\* extractBash: a command that is no pure `rm` gets the one (shell) stub.
ExtractBash(step, start, use, backed) ==
  LET targets == ParseRmCommand(use)
  IN  IF targets = <<>> THEN <<Stub(step, start, ShellPath, "modify")>>
      ELSE [i \in 1..Len(targets) |-> RmRow(step, start, i, targets[i], backed, use.size)]

\* extractForToolUse: backed is the set of paths readBackupForPath can read.
ExtractForToolUse(step, start, use, backed) ==
  LET path == use.paths[1]
  IN CASE use.tool \in {"Bash", "Rm"} -> ExtractBash(step, start, use, backed)
       [] use.tool = "NotebookEdit" -> <<Stub(step, start, path, "modify")>>
       [] use.tool = "Write" ->
            IF path \in backed
            THEN <<Materialize(step, start, path, "modify", HasBytes, HasBytes, use.size)>>
            ELSE <<Materialize(step, start, path, "create", NoRef, HasBytes, use.size)>>
       [] use.tool \in {"Edit", "MultiEdit"} ->
            IF path \notin backed THEN <<Stub(step, start, path, "modify")>>
            ELSE IF use.fits
            THEN <<Materialize(step, start, path, "modify", HasBytes, HasBytes, use.size)>>
            ELSE <<>>
       [] OTHER -> <<>>

\* The rows of one assistant record: the number restarts for every record and
\* runs on over its tool uses.
RowsOfRecord(record, backed) ==
  LET upTo[j \in 0..Len(record.uses)] ==
        IF j = 0 THEN <<>>
        ELSE upTo[j - 1] \o
             ExtractForToolUse(record.key, Len(upTo[j - 1]), record.uses[j], backed)
  IN  upTo[Len(record.uses)]

\* backupsByAssistantUuid: every snapshot record of the turn, merged.
BackedPaths(lines, n, turn) ==
  UNION {lines[i].paths : i \in {k \in 1..n : /\ lines[k].type = "snapshot"
                                              /\ lines[k].turn = turn}}

\* extractFileChanges over the first n lines, in the order the rows are
\* inserted.
ExtractFileChanges(lines, n) ==
  FlattenSeq([i \in 1..n |->
    IF lines[i].type = "assistant"
    THEN RowsOfRecord(lines[i], BackedPaths(lines, n, i))
    ELSE <<>>])
=============================================================================
