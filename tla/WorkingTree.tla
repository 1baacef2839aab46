---------------------------- MODULE WorkingTree ----------------------------
(***************************************************************************)
(* The working tree of a run (packages/collector/src/replay.ts): the tree    *)
(* found in the project when the run's first change was ingested (baseline.ts), *)
(* with the run's file_change rows applied to it.  The agent changes files    *)
(* with tools whose results the transcript shows and with shell commands that *)
(* the hooks watch; others change the same files unseen; rows reach the store *)
(* late, and the baseline is read later still and file by file.              *)
(***************************************************************************)
EXTENDS FileChangeTable, Sequences, SequencesExt

CONSTANTS WtPaths,       \* the files of the project
          WtFirst,       \* what they may hold when the run begins
          WtBytes,       \* what a file may hold
          WtBig,         \* those contents that are over every size limit
          WtWalkers,     \* ingests that may capture the baseline
          MaxWtSteps, MaxWtChanges,  \* bounds: steps, and changes, of the agent,
          MaxUnseen, MaxWtWork       \* writes of others, writes and walks together

ASSUME TreeConstants ==
  /\ NoRef \notin WtBytes /\ WtBig \subseteq WtBytes
  /\ WtFirst \subseteq [WtPaths -> WtBytes \union {NoRef}]
  /\ {MaxWtSteps, MaxWtChanges, MaxUnseen, MaxWtWork} \subseteq Nat

VARIABLES
  wtDisk,      \* the files: what each holds, NoRef when there is none
  wtSteps,     \* per step, the changes it made, in their order
  wtRows,      \* file_change rows
  wtBaseline,  \* the run's baseline: what it says of each path, where it is still true
  wtWalk,      \* per walker: the files it has still to read, and what it read
  wtUnseen,    \* how often others have written
  wtLatest     \* per path, who wrote it last

treeVars == <<wtDisk, wtSteps, wtRows, wtBaseline, wtWalk, wtUnseen, wtLatest>>

\* Part of a tree, as a function; a path outside of its domain has no file.
EmptyTree == [p \in {} |-> NoRef]
WithFile(tree, path, ref) == (path :> ref) @@ tree
WithoutFile(tree, path) == [p \in DOMAIN tree \ {path} |-> tree[p]]
HeldBy(tree, path) == IF path \in DOMAIN tree THEN tree[path] ELSE NoRef

-----------------------------------------------------------------------------
(* Replay.                                                                 *)

\* applyFileChange: a partial row has no content to apply, whatever its op.
ApplyFileChange(tree, row) ==
  CASE row.partial -> tree
    [] row.op = "delete" -> WithoutFile(tree, row.path)
    [] row.op \in {"create", "modify"} /\ row.after # NoRef -> WithFile(tree, row.path, row.after)
    [] OTHER -> tree

\* Mutant of InReplayOrder: rows are ordered by their number within the step.
InNumberOrder(rows) ==
  SetToSortSeq(rows, LAMBDA r, s : r.seq < s.seq \/ (r.seq = s.seq /\ r.step < s.step))

\* listFileChanges: ORDER BY steps.sequence, file_change.sequence.
InReplayOrder(rows) ==
  SetToSortSeq(rows, LAMBDA r, s : r.step < s.step \/ (r.step = s.step /\ r.seq < s.seq))

\* workingTreeAt(store, run, { stepSeq }).
WorkingTreeAt(stepSeq) ==
  FoldLeft(ApplyFileChange, wtBaseline.tree,
           InReplayOrder({r \in wtRows : r.step < stepSeq}))

-----------------------------------------------------------------------------
(* The agent, the others, and the rows.                                     *)

OpOf(before, after) ==
  IF before = NoRef THEN "create" ELSE IF after = NoRef THEN "delete" ELSE "modify"

\* A row has the contents unless one of them is over the limits.
BothKept(before, after) == before \notin WtBig /\ after \notin WtBig

WtChange(tool, path, after) ==
  LET before == wtDisk[path]
      full == BothKept(before, after)
  IN  [tool |-> tool, path |-> path, op |-> OpOf(before, after), partial |-> ~full,
       before |-> IF full THEN before ELSE NoRef, after |-> IF full THEN after ELSE NoRef,
       wrote |-> after, recorded |-> FALSE]

WtWrite(path, content) ==
  /\ wtDisk' = [wtDisk EXCEPT ![path] = content]
  /\ wtBaseline' = [wtBaseline EXCEPT !.true = @ \ {path}]
  /\ wtWalk' = [w \in WtWalkers |-> [wtWalk[w] EXCEPT !.true = @ \ {path}]]

WtWork == Len(FlattenSeq(wtSteps)) + wtUnseen + Cardinality({w \in WtWalkers : wtWalk[w].at # "idle"})

\* A change of the step under way, or the first one of the next step.
AgentChanges(tool, path, content) ==
  /\ wtDisk[path] # content
  /\ WtWork < MaxWtWork  /\ Len(FlattenSeq(wtSteps)) < MaxWtChanges
  /\ LET change == WtChange(tool, path, content)
     IN  \/ /\ Len(wtSteps) < MaxWtSteps
            /\ wtSteps' = Append(wtSteps, <<change>>)
         \/ /\ Len(wtSteps) > 0
            /\ wtSteps' = [wtSteps EXCEPT ![Len(wtSteps)] = Append(@, change)]
  /\ WtWrite(path, content)
  /\ wtLatest' = [wtLatest EXCEPT ![path] = IF BothKept(wtDisk[path], content) THEN "agent" ELSE "unseen"]
  /\ UNCHANGED <<wtRows, wtUnseen>>

OtherWrites(path, content) ==
  /\ wtDisk[path] # content /\ wtUnseen < MaxUnseen /\ WtWork < MaxWtWork
  /\ WtWrite(path, content)
  /\ wtLatest' = [wtLatest EXCEPT ![path] = IF @ = "nobody" THEN "nobody" ELSE "unseen"]
  /\ wtUnseen' = wtUnseen + 1
  /\ UNCHANGED <<wtSteps, wtRows>>

WtRow(n, change, seq) ==
  [step |-> n, seq |-> seq, path |-> change.path, op |-> change.op,
   by |-> IF change.tool = "shell" THEN "filesystem_watch" ELSE "tool_call",
   before |-> change.before, after |-> change.after, partial |-> change.partial]

\* The ingest captures the baseline before it inserts a row, and numbers a step's
\* rows in the order of its calls; the drain looks what is there first, and numbers
\* after it.
RecordChange(n, i) ==
  LET change == wtSteps[n][i]
      there == ListFileChanges(wtRows, n)
      row == WtRow(n, change,
                 IF change.tool = "shell" THEN NextWatchSeq(there)
                 ELSE Cardinality({j \in 1..(i - 1) : wtSteps[n][j].tool # "shell"}))
  IN  /\ ~change.recorded
      /\ change.tool = "shell" \/ wtBaseline.known
      /\ \A j \in 1..(i - 1) :
           (wtSteps[n][j].tool = "shell") = (change.tool = "shell") => wtSteps[n][j].recorded
      /\ wtSteps' = [wtSteps EXCEPT ![n][i].recorded = TRUE]
      /\ wtRows' = IF change.tool = "shell" /\ AlreadyRecorded(there, row) THEN wtRows
                   ELSE InsertFileChange(wtRows, row)
      /\ UNCHANGED <<wtDisk, wtBaseline, wtWalk, wtUnseen, wtLatest>>

-----------------------------------------------------------------------------
(* captureBaseline, by an ingest that has rows for a run without a baseline. *)

\* The walk lists the files there are.
WalkTree(w) ==
  /\ wtWalk[w].at = "idle" /\ ~wtBaseline.known /\ WtWork < MaxWtWork
  /\ \E n \in DOMAIN wtSteps : \E i \in DOMAIN wtSteps[n] : wtSteps[n][i].tool # "shell"
  /\ LET found == {p \in WtPaths : wtDisk[p] # NoRef}
     IN  wtWalk' = [wtWalk EXCEPT ![w] =
           [at |-> "reading", todo |-> found, tree |-> EmptyTree, true |-> WtPaths \ found]]
  /\ UNCHANGED <<wtDisk, wtSteps, wtRows, wtBaseline, wtUnseen, wtLatest>>

\* Each is read in its turn; one that has gone or is too big is skipped.
ReadIn(w, path) ==
  /\ wtWalk[w].at = "reading" /\ path \in wtWalk[w].todo
  /\ LET kept == wtDisk[path] \notin WtBig \union {NoRef}
     IN  wtWalk' = [wtWalk EXCEPT
           ![w].todo = @ \ {path},
           ![w].tree = IF kept THEN WithFile(@, path, wtDisk[path]) ELSE @,
           ![w].true = IF wtDisk[path] \in WtBig THEN @ ELSE @ \union {path}]
  /\ UNCHANGED <<wtDisk, wtSteps, wtRows, wtBaseline, wtUnseen, wtLatest>>

\* A row of baseline_tree stands for its manifest: of two captures with the same
\* files the second takes the row of the first.
BaselineRow(walk) == [known |-> TRUE, tree |-> walk.tree, true |-> walk.true]

\* The manifest is stored and becomes the run's; the one of a slower ingest
\* replaces it.
SetRunBaseline(w) ==
  /\ wtWalk[w].at = "reading" /\ wtWalk[w].todo = {}
  /\ wtBaseline' = BaselineRow(wtWalk[w])
  /\ wtWalk' = [wtWalk EXCEPT ![w] = [at |-> "done", todo |-> {}, tree |-> EmptyTree, true |-> {}]]
  /\ UNCHANGED <<wtDisk, wtSteps, wtRows, wtUnseen, wtLatest>>

-----------------------------------------------------------------------------
TreeInit ==
  /\ wtDisk \in WtFirst
  /\ wtSteps = <<>> /\ wtRows = {}
  /\ wtBaseline = [known |-> FALSE, tree |-> EmptyTree, true |-> {}]
  /\ wtWalk = [w \in WtWalkers |-> [at |-> "idle", todo |-> {}, tree |-> EmptyTree, true |-> {}]]
  /\ wtUnseen = 0
  /\ wtLatest = [p \in WtPaths |-> "nobody"]

TreeNext ==
  \/ \E p \in WtPaths, c \in WtBytes \union {NoRef} :
       (\E tool \in {"edit", "shell"} : AgentChanges(tool, p, c)) \/ OtherWrites(p, c)
  \/ \E n \in DOMAIN wtSteps : \E i \in DOMAIN wtSteps[n] : RecordChange(n, i)
  \/ \E w \in WtWalkers : WalkTree(w) \/ SetRunBaseline(w) \/ \E p \in WtPaths : ReadIn(w, p)

-----------------------------------------------------------------------------
AllRecorded == \A n \in DOMAIN wtSteps : \A i \in DOMAIN wtSteps[n] : wtSteps[n][i].recorded
NobodyWalks == \A w \in WtWalkers : wtWalk[w].at # "reading"

\* The changes of a path in one step by an edit and by a shell command: which came
\* first is lost.
Entangled(path) ==
  \E n \in DOMAIN wtSteps : \E i, j \in DOMAIN wtSteps[n] :
    /\ wtSteps[n][i].path = path /\ wtSteps[n][j].path = path
    /\ wtSteps[n][i].tool = "shell" /\ wtSteps[n][j].tool # "shell"

\* The last change of a path before a step.
LastWtChange(path, stepSeq) ==
  LET made == SelectSeq(FlattenSeq(SubSeq(wtSteps, 1, stepSeq - 1)), LAMBDA c : c.path = path)
  IN  IF made = <<>> THEN <<>> ELSE <<Last(made)>>

\* "Compute the working tree at a chosen point in a run" (replay.ts): when all is
\* in the store, the tree at the end is the project as it is, in every file that
\* the agent wrote last or that the baseline still tells right, however late the
\* baseline was read and whoever else wrote meanwhile; and before every step it
\* has what the steps before it left.
TreeIsDisk ==
  AllRecorded /\ NobodyWalks /\ wtBaseline.known =>
    /\ \A p \in WtPaths :
         (wtLatest[p] = "agent" /\ ~Entangled(p)) \/ (wtLatest[p] = "nobody" /\ p \in wtBaseline.true) =>
           HeldBy(WorkingTreeAt(Len(wtSteps) + 1), p) = wtDisk[p]
    /\ \A n \in 1..(Len(wtSteps) + 1), p \in WtPaths :
         LET last == LastWtChange(p, n)
         IN  last # <<>> /\ ~Entangled(p) /\ ~last[1].partial =>
               HeldBy(WorkingTreeAt(n), p) = last[1].wrote
=============================================================================
