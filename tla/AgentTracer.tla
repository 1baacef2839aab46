---------------------------- MODULE AgentTracer ----------------------------
(***************************************************************************)
(* The agent SDKs: a tracer records one run (packages/agent/src/tracer.ts,   *)
(* step.ts; packages/agent-py tracer.py, queries.py).  In TypeScript a step  *)
(* is written after its contents are, while the agent goes on: it may start  *)
(* and end other steps, record more on this one, and end the tracer.  In     *)
(* Python a step is written before its end() returns.                       *)
(***************************************************************************)
EXTENDS Integers, Sequences, FiniteSets, FiniteSetsExt

CONSTANTS TcActions,       \* what a step may decide: [kind, name]
          TcCost,          \* [TcActions -> cents]
          NoAction,        \* the action of a step that recorded none
          TcReplies,       \* what a model may answer to a traced call
          MaxTcSteps       \* bound: steps begun

ASSUME TracerConstants ==
  /\ NoAction \in TcActions /\ TcCost \in [TcActions -> Nat] /\ MaxTcSteps \in Nat

VARIABLES
  tcTracer,    \* the tracer: its language, how far it is, and the status so far
  tcSteps,     \* its steps
  tcKnown,     \* of the project's and the agent's row, those there are
  tcRun,       \* the row of its run
  tcRows       \* the rows of its steps

tracerVars == <<tcTracer, tcSteps, tcKnown, tcRun, tcRows>>

NoRunRow == [status |-> "none", sealed |-> FALSE, steps |-> 0, cost |-> 0]

InPython == tcTracer.lang = "py"
TracerGoes(at) == tcTracer' = [tcTracer EXCEPT !.at = at]

-----------------------------------------------------------------------------
(* The constructor: upsertProjectByCwd, upsertAgent, insertRun.             *)
Constructing == <<"project", "agent">>

FindRow(i) ==
  /\ tcTracer.at = <<"find", i>>
  /\ tcTracer' = [tcTracer EXCEPT !.at = <<"put", i>>, !.found = Constructing[i] \in tcKnown]
  /\ UNCHANGED <<tcSteps, tcKnown, tcRun, tcRows>>

\* Another process may have inserted it meanwhile; the constructor then throws.
PutRow(i) ==
  /\ tcTracer.at = <<"put", i>>
  /\ IF tcTracer.found \/ Constructing[i] \notin tcKnown
     THEN TracerGoes(IF i < Len(Constructing) THEN <<"find", i + 1>> ELSE <<"insert">>)
     ELSE TracerGoes(<<"failed">>)
  /\ tcKnown' = tcKnown \union {Constructing[i]}
  /\ UNCHANGED <<tcSteps, tcRun, tcRows>>

\* An agent of the same name in the same project, in another process.
AnotherTracer(i) ==
  /\ \A k \in 1..(i - 1) : Constructing[k] \in tcKnown
  /\ tcKnown' = tcKnown \union {Constructing[i]}
  /\ UNCHANGED <<tcTracer, tcSteps, tcRun, tcRows>>

InsertTracerRun ==
  /\ tcTracer.at = <<"insert">>
  /\ TracerGoes(<<"running">>)
  /\ tcRun' = [NoRunRow EXCEPT !.status = "in_progress"]
  /\ UNCHANGED <<tcSteps, tcKnown, tcRows>>

-----------------------------------------------------------------------------
(* Steps.                                                                  *)
TracerLives == tcTracer.at \in {<<"running">>, <<"ended">>}

\* The sequence and the parent are taken when a step begins, whether or not it
\* ever ends; an ended tracer begins steps all the same.
StartStep ==
  /\ TracerLives /\ Len(tcSteps) < MaxTcSteps
  /\ tcSteps' = Append(tcSteps, [state |-> "open", action |-> NoAction, outcome |-> "pending"])
  /\ UNCHANGED <<tcTracer, tcKnown, tcRun, tcRows>>

\* record*: what is said last, up to when the row is built, is what is stored.
RecordOnStep(i, action, outcome) ==
  /\ TracerLives /\ tcSteps[i].state \in {"open"} \union (IF InPython THEN {} ELSE {"ending"})
  /\ tcSteps' = [tcSteps EXCEPT ![i].action = action, ![i].outcome = outcome]
  /\ UNCHANGED <<tcTracer, tcKnown, tcRun, tcRows>>

\* A traced model call has a step of its own.  Of the blocks of the answer the
\* first tool use counts, then the text.
ActionOf(reply) ==
  LET calls == {k \in DOMAIN reply : reply[k].kind = "tool_call"}
  IN  IF calls # {} THEN reply[Min(calls)]
      ELSE IF reply # <<>> THEN [kind |-> "message", name |-> "text"]
      ELSE [kind |-> "thinking_only", name |-> "none"]

\* What a traced call decides has a price as what an agent says itself.
ASSUME RepliesDecide == \A reply \in TcReplies : ActionOf(reply) \in TcActions

\* The call returned or threw: all is recorded and the step ends.
TracedCallEnds(i, action, outcome) ==
  /\ TracerLives /\ tcSteps[i].state = "open"
  /\ tcSteps' = [tcSteps EXCEPT ![i] = [state |-> "ending", action |-> action, outcome |-> outcome]]
  /\ UNCHANGED <<tcTracer, tcKnown, tcRun, tcRows>>

\* step.end() marks the step and begins to write its blobs.
EndStep(i) ==
  /\ TracerLives /\ ~InPython /\ tcSteps[i].state = "open"
  /\ tcSteps' = [tcSteps EXCEPT ![i].state = "ending"]
  /\ UNCHANGED <<tcTracer, tcKnown, tcRun, tcRows>>

\* Only an outcome that is pending is not a status as it is.
StepStatus(outcome) == IF outcome = "pending" THEN "in_progress" ELSE outcome

StepRow(i) ==
  [seq |-> i - 1, parent |-> i - 2, action |-> tcSteps[i].action,
   status |-> StepStatus(tcSteps[i].outcome), cost |-> TcCost[tcSteps[i].action]]

\* Mutant of AfterStep: the run has the status of the step that came last.
AfterStepLast(status, step) == IF step \in {"ok", "error"} THEN step ELSE status

\* _stepCompleted: an error stays.
AfterStep(status, step) ==
  IF step = "error" \/ status = "error" THEN "error"
  ELSE IF step = "ok" THEN "ok" ELSE status

\* updateRunTotals.
CostOf(rows) == FoldSet(LAMBDA r, n : n + r.cost, 0, rows)
RunTotals(run, rows) == [run EXCEPT !.steps = Cardinality(rows), !.cost = CostOf(rows)]

Writing(i) == tcSteps[i].state = "ending" \/ (InPython /\ tcSteps[i].state = "open")

\* insertStep and _stepCompleted, ...
PersistStep(i) ==
  /\ tcTracer.at = <<"running">> /\ Writing(i)
  /\ tcRows' = tcRows \union {StepRow(i)}
  /\ tcSteps' = [tcSteps EXCEPT ![i].state = "stored"]
  /\ tcTracer' = [tcTracer EXCEPT !.at = <<"totals">>,
                                 !.status = AfterStep(@, StepRow(i).status)]
  /\ UNCHANGED <<tcKnown, tcRun>>

\* ... and _refreshTotals, before the agent goes on; other processes may look first.
RefreshTotals ==
  /\ tcTracer.at = <<"totals">>
  /\ tcRun' = RunTotals(tcRun, tcRows)
  /\ TracerGoes(<<"running">>)
  /\ UNCHANGED <<tcSteps, tcKnown, tcRows>>

\* The store was closed with the tracer: end() throws, the step is lost.
PersistFails(i) ==
  /\ tcTracer.at = <<"ended">> /\ Writing(i)
  /\ tcSteps' = [tcSteps EXCEPT ![i].state = "lost"]
  /\ UNCHANGED <<tcTracer, tcKnown, tcRun, tcRows>>

\* tracer.end(): the status the caller gives, or the one of the steps.  A Python
\* tracer whose `with` body raised says error.
EndTracer(override) ==
  /\ tcTracer.at = <<"running">>
  /\ tcTracer' = [tcTracer EXCEPT !.at = <<"ended">>, !.told = override # "none"]
  /\ tcRun' = [RunTotals(tcRun, tcRows) EXCEPT
                 !.status = IF override = "none" THEN tcTracer.status ELSE override,
                 !.sealed = TRUE]
  /\ UNCHANGED <<tcSteps, tcKnown, tcRows>>

\* The process is killed, maybe with a step in and the totals not.
TracerDies ==
  /\ tcTracer.at \notin {<<"ended">>, <<"failed">>, <<"dead">>}
  /\ TracerGoes(<<"dead">>)
  /\ UNCHANGED <<tcSteps, tcKnown, tcRun, tcRows>>

-----------------------------------------------------------------------------
TracerInit ==
  /\ tcTracer \in [lang : {"ts", "py"}, at : {<<"find", 1>>}, found : {FALSE},
                   status : {"in_progress"}, told : {FALSE}]
  /\ tcSteps = <<>> /\ tcKnown = {} /\ tcRun = NoRunRow /\ tcRows = {}

TracerNext ==
  \/ \E i \in DOMAIN Constructing : FindRow(i) \/ PutRow(i) \/ AnotherTracer(i)
  \/ InsertTracerRun \/ StartStep \/ RefreshTotals \/ TracerDies
  \/ \E i \in DOMAIN tcSteps :
       \/ \E a \in TcActions, o \in {"pending", "ok", "error"} : RecordOnStep(i, a, o)
       \/ \E reply \in TcReplies : TracedCallEnds(i, ActionOf(reply), "ok")
       \/ TracedCallEnds(i, NoAction, "error")
       \/ EndStep(i) \/ PersistStep(i) \/ PersistFails(i)
  \/ \E override \in {"none", "error", "abandoned"} : EndTracer(override)
=============================================================================
