----------------------------- MODULE MCObservers -----------------------------
(* What `meter` watches from outside an agent: the live inspector polls the
   probe files, the session files and the store, drains and sentinels write what
   they saw to one step.  They meet in the store only, and not in one table, so
   one of them runs at a time. *)
EXTENDS ProbeEvents, LiveInspector, WatchRows

VARIABLE observer

-----------------------------------------------------------------------------
(* One step's rows: a record of two deltas, one of which a sentinel saw too and *)
(* the other a call of the step has the contents of.                       *)
Delta(path, op, before, after, partial) ==
  [path |-> path, op |-> op, before |-> before, after |-> after, partial |-> partial]

CreateA == Delta("a", "create", NoRef, "v1", FALSE)
StubC == Delta("c", "modify", NoRef, NoRef, TRUE)
CreateAndStub == <<CreateA, StubC>>
SameChange == [s \in Sentinels |-> CreateA]

EditOfC ==
  {[step |-> Step, seq |-> 0, by |-> "tool_call", path |-> "c", op |-> "modify",
    before |-> "v0", after |-> "v1", partial |-> FALSE]}

-----------------------------------------------------------------------------
BenchInit ==
  /\ observer \in {"probe", "inspector", "rows"}
  /\ InitEvents /\ LiveInit /\ RowsInit

BenchNext ==
  \/ observer = "probe" /\ NextEvents /\ UNCHANGED <<liVars, watchVars, observer>>
  \/ observer = "inspector" /\ LiveNext /\ UNCHANGED <<evars, watchVars, observer>>
  \/ observer = "rows" /\ RowsNext /\ UNCHANGED <<evars, liVars, observer>>

\* The timer of a started inspector fires, its ticks go on, it keeps polling; a
\* started writer goes on, and another hook comes along while a record is left.
BenchFairness ==
  /\ WF_evars(observer = "probe" /\ PollProbeState)
  /\ \A t \in LiveTicks : WF_liVars(observer = "inspector" /\ TickStep(t))
  /\ \A w \in Writers : WF_rowVars(observer = "rows" /\ WriterStep(w))

BenchSpec ==
  BenchInit /\ [][BenchNext]_<<evars, liVars, watchVars, observer>> /\ BenchFairness

\* Every stash record is emptied in the end (drainStash, hook_capture.ts).
EventuallyUnlinked == observer = "rows" => <>~stashed
=============================================================================
