-------------------------------- MODULE Fork --------------------------------
(***************************************************************************)
(* Forking a run (packages/server/src/fork.ts, replay.ts and               *)
(* continuation.ts): the steps up to a chosen one are copied into a new run, *)
(* the context of the last is edited, a model may answer once, and a loop   *)
(* may go on from there with the model's own calls, whose results come from  *)
(* the origin ("simulate") or from running them ("live").  The forking       *)
(* process can be killed anywhere; the origin may still be growing.          *)
(*                                                                         *)
(* A context is [system, history], a message [role, text].  A snapshot maps  *)
(* an id, the context its hash was taken of, to the context stored for it.   *)
(* A step's body is [action, outcome, result, saw, parent, status, usage,    *)
(* tags], an action [kind, tool, input]; the text of a message is its tool.  *)
(* A model answers with blocks, which are such calls and messages.          *)
(***************************************************************************)
EXTENDS StepTable

CONSTANTS FkOrigins,     \* the runs that may be forked: sets of rows
          FkEdits,       \* edits: "system", "user", "inject" or "other"
          FkReplies,     \* what a model may answer: sequences of calls and texts
          FkResults,     \* what a tool that is run may return
          NoResult, NoParent,
          MaxIterations,
          MaxOriginSteps \* bound: the origin grows up to this many steps

ASSUME ForkConstants == MaxIterations \in Nat \ {0} /\ MaxOriginSteps \in Nat

VARIABLES
  fkSteps,      \* the table of steps
  fkSnapshots,  \* the recorded snapshots: [id, context]
  fkRun,        \* the fork's row: its status and its totals
  fkForked,     \* the row of the forks table is there
  fkCall,       \* what was asked for: the step, the edit, live or not, the mode
  fkPc,         \* where the forking process is
  fkRead,       \* the prefix as it was read
  fkIndex,      \* the origin's results by call
  fkIteration

fkVars == <<fkSteps, fkSnapshots, fkRun, fkForked, fkCall, fkPc, fkRead, fkIndex, fkIteration>>

OriginRows == StepsOfRun(fkSteps, "origin")
ForkRows == StepsOfRun(fkSteps, "fork")
Newest(rows) == CHOOSE r \in rows : \A s \in rows : s.seq <= r.seq
IsCall(action) == action.kind = "tool_call"

-----------------------------------------------------------------------------
(* Contexts.                                                               *)

\* Mutant of RecordSnapshot: INSERT OR REPLACE.
ReplaceSnapshot(snapshots, id, context) ==
  {s \in snapshots : s.id # id} \union {[id |-> id, context |-> context]}

\* INSERT OR IGNORE: the first recording of an id stays.
RecordSnapshot(snapshots, id, context) ==
  IF \E s \in snapshots : s.id = id THEN snapshots
  ELSE snapshots \union {[id |-> id, context |-> context]}

ContextOf(id) == (CHOOSE s \in fkSnapshots : s.id = id).context
NoContext == [system |-> "none", history |-> <<>>]

Message(role, text) == [role |-> role, text |-> text]

\* The last user message takes the new text.
ReplaceUser(history) ==
  LET users == {k \in DOMAIN history : history[k].role = "user"}
  IN  IF users = {} THEN history ELSE [history EXCEPT ![Max(users)].text = "edited"]

\* The edits that are not among these leave the context as it is.
RewriteSnapshot(context, edit) ==
  CASE edit = "system" -> [context EXCEPT !.system = "edited"]
    [] edit = "user" -> [context EXCEPT !.history = ReplaceUser(context.history)]
    [] edit = "inject" -> [context EXCEPT !.history = Append(context.history, Message("user", "edited"))]
    [] OTHER -> context

\* What a step did, and what came of it, as the next call is told.
TurnOf(body) ==
  (IF body.action.kind \in {"message", "tool_call"}
   THEN <<Message("assistant", body.action.tool)>> ELSE <<>>)
    \o (IF IsCall(body.action) /\ body.result # NoResult
        THEN <<Message("tool", body.result)>> ELSE <<>>)

AssembleHistory(prior) ==
  LET context == ContextOf(prior.body.saw)
  IN  [context EXCEPT !.history = context.history \o TurnOf(prior.body)]

-----------------------------------------------------------------------------
(* The rows a fork writes.                                                 *)

ParentAmong(prefix, row) ==
  LET before == {r \in prefix : r.seq < row.seq}
  IN  IF before = {} THEN NoParent ELSE <<"copy", Newest(before).seq>>

CopyStep(prefix, row) ==
  [row EXCEPT !.id = <<"copy", row.seq>>, !.run = "fork", !.body.parent = ParentAmong(prefix, row)]

ForkPoint == CopyStep(fkRead, Newest(fkRead))

NewStep(kind, seq, action, outcome, saw, parent, tags) ==
  [id |-> <<kind, seq>>, run |-> "fork", seq |-> seq,
   body |-> [action |-> action, outcome |-> outcome, result |-> NoResult, saw |-> saw,
             parent |-> parent, tags |-> tags, usage |-> IF kind = "error" THEN 0 ELSE 1,
             status |-> IF outcome = "pending" THEN "in_progress" ELSE outcome]]

\* setRunStatus and updateRunTotals.
Settled(status, table) == [status |-> status, total |-> RunTotal(table, "fork")]

-----------------------------------------------------------------------------
(* What is made of a model's answer.                                       *)

\* The texts, joined; an answer without any is an empty message.
TextOf(reply) ==
  [kind |-> "message", input |-> "none",
   tool |-> IF \E k \in DOMAIN reply : reply[k].kind = "message" THEN "text" ELSE "empty"]

\* The responders of a live suffix store a message, whatever else was called.
LiveAnswer(reply) == TextOf(reply)

\* The model of a continuation: the first call, and no other, or the texts.
Decision(reply) ==
  LET calls == {k \in DOMAIN reply : IsCall(reply[k])}
  IN  IF calls = {} THEN TextOf(reply) ELSE reply[Min(calls)]

\* The executors: a note for a tool that is not allowed or is not Bash, else what
\* the shell returns, or an error without running it.
RunTool(action) ==
  {[result |-> "note", outcome |-> "ok"]}
    \union (IF action.tool = "Bash" THEN [result : FkResults, outcome : {"ok", "error"}] ELSE {})

-----------------------------------------------------------------------------
(* The origin, whose recorder is still at work.                            *)
OriginContinues ==
  \/ \E r \in OriginRows, result \in FkResults :
       /\ r = Newest(OriginRows) /\ IsCall(r.body.action) /\ r.body.result = NoResult
       /\ fkSteps' = InsertStep(fkSteps, [r EXCEPT !.body.outcome = "ok", !.body.result = result])
  \/ /\ Cardinality(OriginRows) < MaxOriginSteps
     /\ \E action \in {Decision(reply) : reply \in FkReplies} :
          fkSteps' = InsertStep(fkSteps,
            [Newest(OriginRows) EXCEPT !.id = <<"more", Newest(OriginRows).seq>>,
               !.seq = Newest(OriginRows).seq + 1,
               !.body.action = action, !.body.result = NoResult, !.body.outcome = "pending"])

OriginStep ==
  /\ OriginContinues
  /\ UNCHANGED <<fkSnapshots, fkRun, fkForked, fkCall, fkPc, fkRead, fkIndex, fkIteration>>

-----------------------------------------------------------------------------
(* forkRun.                                                                *)

\* The steps are read once and the run's row is written.
StartFork(at, edit, live, mode) ==
  /\ fkPc = "none"
  /\ fkRead' = {r \in OriginRows : r.seq <= at.seq}
  /\ fkCall' = [edit |-> edit, live |-> live, mode |-> mode]
  /\ fkRun' = [status |-> "in_progress", total |-> 0]
  /\ fkPc' = "copy"
  /\ UNCHANGED <<fkSteps, fkSnapshots, fkForked, fkIndex, fkIteration>>

\* One insert after the other, in no transaction.
CopyPrefix ==
  /\ fkPc = "copy"
  /\ LET left == {r \in fkRead \ {Newest(fkRead)} : \A c \in ForkRows : c.seq # r.seq}
     IN  IF left = {} THEN fkPc' = "edit" /\ UNCHANGED fkSteps
         ELSE /\ \E r \in left : /\ \A l \in left : r.seq <= l.seq
                                /\ fkSteps' = InsertStep(fkSteps, CopyStep(fkRead, r))
              /\ UNCHANGED fkPc
  /\ UNCHANGED <<fkSnapshots, fkRun, fkForked, fkCall, fkRead, fkIndex, fkIteration>>

After(pc) ==
  IF pc = "edit" /\ fkCall.live THEN "live"
  ELSE IF fkCall.mode # "none" THEN "continue" ELSE "done"

\* insertFork.
RecordFork == fkForked' = TRUE

\* The context is rewritten, its blobs awaited; then the fork point, whose
\* outcome is pending again, the totals, the status and the fork's row.
PlaceForkPoint ==
  /\ fkPc = "edit"
  /\ LET context == RewriteSnapshot(ContextOf(ForkPoint.body.saw), fkCall.edit)
         point == [ForkPoint EXCEPT !.body.saw = context, !.body.outcome = "pending",
                     !.body.result = NoResult, !.body.status = "in_progress"]
     IN  /\ fkSnapshots' = RecordSnapshot(fkSnapshots, context, context)
         /\ fkSteps' = InsertStep(fkSteps, point)
  /\ fkRun' = Settled("in_progress", fkSteps')
  /\ RecordFork
  /\ fkPc' = After("edit")
  /\ UNCHANGED <<fkCall, fkRead, fkIndex, fkIteration>>

\* appendLiveStep: one answer, on top of the steps there are; the snapshot it
\* records under the fork point's id is empty.
LiveSuffix(reply) ==
  /\ fkPc = "live"
  /\ LET last == Newest(ForkRows)
     IN  /\ fkSnapshots' = RecordSnapshot(fkSnapshots, last.body.saw, NoContext)
         /\ fkSteps' = InsertStep(fkSteps,
              NewStep("live", Cardinality(ForkRows), LiveAnswer(reply), "ok", last.body.saw, last.id, {}))
  /\ fkRun' = [fkRun EXCEPT !.total = RunTotal(fkSteps', "fork")]
  /\ fkPc' = After("live")
  /\ UNCHANGED <<fkForked, fkCall, fkRead, fkIndex, fkIteration>>

-----------------------------------------------------------------------------
(* continueFork.                                                           *)

\* Mutant of SameCall: the input of the call is not looked at.
SameTool(action, other) == action.tool = other.tool

SameCall(action, other) == action.tool = other.tool /\ action.input = other.input

\* buildToolIndex: of two equal calls the later one's result.
ToolIndex ==
  {r \in OriginRows : IsCall(r.body.action) /\ r.body.result # NoResult}
Hits(action) == {r \in fkIndex : SameCall(r.body.action, action)}

StartContinuation ==
  /\ fkPc = "continue"
  /\ fkIndex' = IF fkCall.mode = "simulate" THEN ToolIndex ELSE {}
  /\ fkIteration' = 0
  /\ fkPc' = "call"
  /\ UNCHANGED <<fkSteps, fkSnapshots, fkRun, fkForked, fkCall, fkRead>>

\* persistModelStep: a message ends the loop, a call is resolved next.
ModelAnswers(reply) ==
  /\ fkPc = "call"
  /\ LET prior == Newest(ForkRows)
         action == Decision(reply)
         context == AssembleHistory(prior)
     IN  /\ fkSnapshots' = RecordSnapshot(fkSnapshots, context, context)
         /\ fkSteps' = InsertStep(fkSteps,
              NewStep("turn", prior.seq + 1, action, "pending", context, prior.id, {}))
  /\ fkPc' = IF IsCall(Decision(reply)) THEN "resolve" ELSE "complete"
  /\ UNCHANGED <<fkRun, fkForked, fkCall, fkRead, fkIndex, fkIteration>>

\* persistErrorStep, with an empty context; the run is left as it is.
ModelThrows ==
  /\ fkPc = "call"
  /\ LET prior == Newest(ForkRows)
     IN  fkSteps' = InsertStep(fkSteps,
           NewStep("error", prior.seq + 1, [kind |-> "none", tool |-> "none", input |-> "none"],
                   "error", NoContext, prior.id, {"model_error"}))
  /\ fkSnapshots' = RecordSnapshot(fkSnapshots, NoContext, NoContext)
  /\ fkPc' = "done"
  /\ UNCHANGED <<fkRun, fkForked, fkCall, fkRead, fkIndex, fkIteration>>

ModelCompletes ==
  /\ fkPc = "complete"
  /\ fkRun' = Settled("ok", fkSteps)
  /\ fkPc' = "done"
  /\ UNCHANGED <<fkSteps, fkSnapshots, fkForked, fkCall, fkRead, fkIndex, fkIteration>>

SimulateMiss ==
  /\ fkPc = "resolve" /\ fkCall.mode = "simulate"
  /\ Hits(Newest(ForkRows).body.action) = {}
  /\ fkSteps' = InsertStep(fkSteps, [Newest(ForkRows) EXCEPT !.body.tags = @ \union {"simulate_miss"}])
  /\ fkRun' = Settled("in_progress", fkSteps')
  /\ fkPc' = "done"
  /\ UNCHANGED <<fkSnapshots, fkForked, fkCall, fkRead, fkIndex, fkIteration>>

\* What the origin got for the call, or what running it returns or throws.
Resolutions(action) ==
  IF fkCall.mode = "simulate"
  THEN {[result |-> Newest(Hits(action)).body.result, outcome |-> Newest(Hits(action)).body.outcome]}
  ELSE RunTool(action)

\* The result goes on the model's step.  A live call that failed ends the loop,
\* and so does the last iteration.
ResolveCall ==
  /\ fkPc = "resolve"
  /\ fkCall.mode = "live" \/ Hits(Newest(ForkRows).body.action) # {}
  /\ \E got \in Resolutions(Newest(ForkRows).body.action) :
       /\ fkSteps' = InsertStep(fkSteps, [Newest(ForkRows) EXCEPT
            !.body.result = got.result, !.body.outcome = got.outcome, !.body.status = got.outcome])
       /\ IF fkCall.mode = "live" /\ got.outcome = "error"
          THEN fkRun' = Settled("error", fkSteps') /\ fkPc' = "done" /\ UNCHANGED fkIteration
          ELSE IF fkIteration + 1 = MaxIterations
          THEN fkRun' = Settled("in_progress", fkSteps') /\ fkPc' = "done" /\ UNCHANGED fkIteration
          ELSE fkIteration' = fkIteration + 1 /\ fkPc' = "call" /\ UNCHANGED fkRun
  /\ UNCHANGED <<fkSnapshots, fkForked, fkCall, fkRead, fkIndex>>

-----------------------------------------------------------------------------
\* The process is killed, or the model of the live suffix throws.
ForkStops ==
  /\ fkPc \notin {"none", "done"}
  /\ fkPc' = "done"
  /\ UNCHANGED <<fkSteps, fkSnapshots, fkRun, fkForked, fkCall, fkRead, fkIndex, fkIteration>>

ForkInit ==
  /\ fkSteps \in FkOrigins
  /\ fkSnapshots = {[id |-> r.body.saw, context |-> r.body.saw] : r \in fkSteps}
  /\ fkRun = [status |-> "none", total |-> 0] /\ fkForked = FALSE
  /\ fkCall = [edit |-> "other", live |-> FALSE, mode |-> "none"]
  /\ fkPc = "none" /\ fkRead = {} /\ fkIndex = {} /\ fkIteration = 0

ForkNext ==
  \/ OriginStep
  \/ \E at \in OriginRows, edit \in FkEdits, live \in BOOLEAN, mode \in {"none", "simulate", "live"} :
       StartFork(at, edit, live, mode)
  \/ CopyPrefix \/ PlaceForkPoint
  \/ \E reply \in FkReplies : LiveSuffix(reply) \/ ModelAnswers(reply)
  \/ StartContinuation \/ ModelThrows \/ ModelCompletes
  \/ SimulateMiss \/ ResolveCall
  \/ ForkStops

ForkSpec == ForkInit /\ [][ForkNext]_fkVars

-----------------------------------------------------------------------------
ForkAt == Newest(fkRead).seq
RowAt(seq) == CHOOSE r \in ForkRows : r.seq = seq
SameTurn(copy, row) ==
  /\ copy.seq = row.seq /\ copy.body.action = row.body.action
  /\ copy.body.outcome = row.body.outcome /\ copy.body.result = row.body.result
  /\ ContextOf(copy.body.saw) = row.body.saw

\* The turns of the fork from the first that answers the edited context on.
TurnsBefore(seq) ==
  LET first == IF fkCall.live THEN ForkAt + 1 ELSE ForkAt
      turns[n \in (first - 1)..seq] ==
        IF n < first THEN <<>> ELSE turns[n - 1] \o TurnOf(RowAt(n).body)
  IN  turns[seq - 1]

\* A fork is its origin up to the fork point, and goes on from the edited
\* context: every later turn has seen that context and then all the turns in
\* between, each once and in order, and the rows are one chain without a gap.
\* Meanwhile the origin's own contexts stay what they were.
ForkExtendsOrigin ==
  /\ \A r \in ForkRows : r.seq = 0 \/ r.body.parent = RowAt(r.seq - 1).id
  /\ fkForked =>
       LET edited == RewriteSnapshot(Newest(fkRead).body.saw, fkCall.edit)
       IN  /\ \A r \in fkRead : r.seq < ForkAt => \E copy \in ForkRows : SameTurn(copy, r)
           /\ ContextOf(RowAt(ForkAt).body.saw) = edited
           /\ \A r \in ForkRows : r.id[1] = "turn" =>
                ContextOf(r.body.saw) =
                  [edited EXCEPT !.history = edited.history \o TurnsBefore(r.seq)]
  /\ \A r \in OriginRows : ContextOf(r.body.saw) = r.body.saw

\* "Append one synthetic Step to a fork run" (replay.ts:262): what is appended
\* leaves the fork point in its place.  The new step takes the number of steps
\* as its sequence, which is the fork point's own when the origin has a gap.
ForkPointKept ==
  fkForked => \E r \in ForkRows :
    /\ r.id = ForkPoint.id
    /\ r.seq = ForkAt /\ r.body.action = Newest(fkRead).body.action

\* Whatever the model calls and wherever the process stops: a simulated result is
\* one the origin got for that very call, only the newest turn can be without its
\* result, and a run that says ok or error ends in a message or in a failed call.
ForkAnswers ==
  \A r \in ForkRows : r.id[1] = "turn" =>
    /\ fkCall.mode = "simulate" /\ r.body.result # NoResult =>
         \E o \in OriginRows : o.body.action = r.body.action /\ o.body.result = r.body.result
    /\ r # Newest(ForkRows) => IsCall(r.body.action) /\ r.body.result # NoResult
    /\ fkRun.status = "ok" => r # Newest(ForkRows) \/ r.body.action.kind = "message"
    /\ fkRun.status = "error" => r # Newest(ForkRows) \/ r.body.outcome = "error"
    /\ fkRun.status \in {"ok", "error"} => fkRun.total = RunTotal(fkSteps, "fork")

\* A fork in both respects, while its origin goes on (forkRun, continueFork).
ForkContinuesOrigin == ForkExtendsOrigin /\ ForkAnswers
=============================================================================
