----------------------------- MODULE Regression -----------------------------
(***************************************************************************)
(* Regression tests (packages/server/src/regression.ts) over the run a     *)
(* tracer records: a test is derived from the run, gets assertions added, and  *)
(* is run against it, from the command line and from the web page, while the *)
(* run goes on.                                                            *)
(***************************************************************************)
EXTENDS AgentTracer

CONSTANTS Testers,        \* command lines and requests
          RgAdded,        \* assertions that operators add: [kind, value, at]
          MaxRgJobs       \* bound: jobs of testers

ASSUME TesterConstants == MaxRgJobs \in Nat

VARIABLES rgTest,      \* the test of the one name there is, NoTest if there is none
          rgTester,    \* what each tester is at, and what it has read
          rgResults,   \* the rows of regression_results
          rgJobs

rgVars == <<rgTest, rgTester, rgResults, rgJobs>>

NoTest == [id |-> 0, assertions |-> {}]
NoJob == [at |-> "idle", job |-> 0, run |-> NoRunRow, test |-> NoTest, added |-> {}]
Assertion(kind, value) == [kind |-> kind, value |-> value, at |-> -1]

-----------------------------------------------------------------------------
(* Assertions.                                                             *)
HalfOf(n) == n \div 2
HalfMore(n) == (3 * n + 1) \div 2

\* deriveAssertionsFromRun.
DeriveAssertionsFromRun(run, steps) ==
  {Assertion("final_status", run.status), Assertion("no_error_step", 0),
   Assertion("min_steps", IF HalfOf(Cardinality(steps)) < 1 THEN 1 ELSE HalfOf(Cardinality(steps))),
   Assertion("max_steps", HalfMore(Cardinality(steps))),
   Assertion("max_cost_cents", HalfMore(run.cost))}
  \union {Assertion("includes_tool_call", s.action.name) :
            s \in {x \in steps : x.action.kind = "tool_call"}}

ToolCalls(steps, tool) == {s \in steps : s.action.kind = "tool_call" /\ s.action.name = tool}

\* The text of the last message step, if there is one.
FinalText(steps) ==
  LET said == {s \in steps : s.action.kind = "message"}
  IN  {s.action.name : s \in {x \in said : \A y \in said : y.seq <= x.seq}}

\* evaluateAssertion.
EvaluateAssertion(a, run, steps) ==
  CASE a.kind = "includes_tool_call" -> ToolCalls(steps, a.value) # {}
    [] a.kind = "excludes_tool_call" -> ToolCalls(steps, a.value) = {}
    [] a.kind = "tool_call_count" ->
         Cardinality({s \in steps : s.action.kind = "tool_call"}) = a.value
    [] a.kind = "output_contains" -> a.value \in FinalText(steps)
    [] a.kind = "output_does_not_contain" -> a.value \notin FinalText(steps)
    [] a.kind = "min_steps" -> Cardinality(steps) >= a.value
    [] a.kind = "max_steps" -> Cardinality(steps) <= a.value
    [] a.kind = "final_status" -> run.status = a.value
    [] a.kind = "max_cost_cents" -> run.cost <= a.value
    [] a.kind = "no_error_step" -> \A s \in steps : s.status # "error"
    [] a.kind = "step_status_at" -> \E s \in steps : s.seq = a.at /\ s.status = a.value

TestPasses(assertions, run, steps) == \A a \in assertions : EvaluateAssertion(a, run, steps)

-----------------------------------------------------------------------------
(* A tester reads the test, the run and the steps one after the other.      *)
StartsJob(p, job) ==
  /\ rgTester[p].at = "idle" /\ rgJobs < MaxRgJobs
  /\ rgJobs' = rgJobs + 1
  /\ rgTester' = [rgTester EXCEPT ![p] = [job EXCEPT !.job = rgJobs']]
  /\ UNCHANGED rgResults

FinishesJob(p) == rgTester' = [rgTester EXCEPT ![p] = NoJob] /\ UNCHANGED rgJobs

\* `meter test create --from`: the run, ...
DeriveFrom(p) ==
  /\ tcRun # NoRunRow
  /\ StartsJob(p, [NoJob EXCEPT !.at = "derive", !.run = tcRun])
  /\ UNCHANGED rgTest

\* ... its steps, and the row, whose name is UNIQUE.
CreateTest(p) ==
  LET me == rgTester[p]
  IN  /\ me.at = "derive"
      /\ rgTest' = IF rgTest # NoTest THEN rgTest
                   ELSE [id |-> me.job, assertions |-> DeriveAssertionsFromRun(me.run, tcRows)]
      /\ FinishesJob(p) /\ UNCHANGED rgResults

\* addAssertion reads the list and writes it back longer; the page's editor writes
\* a list of its own.
LookUpTest(p, a, kept) ==
  /\ rgTest # NoTest
  /\ StartsJob(p, [NoJob EXCEPT !.at = "add", !.test = rgTest,
                    !.added = {a} \union {b \in rgTest.assertions : kept}])
  /\ UNCHANGED rgTest

AddAssertion(p) ==
  LET me == rgTester[p]
  IN  /\ me.at = "add"
      /\ rgTest' = IF rgTest.id # me.test.id THEN rgTest
                   ELSE [rgTest EXCEPT !.assertions = me.added]
      /\ FinishesJob(p) /\ UNCHANGED rgResults

\* The results of a test go with it.
DeleteTest ==
  /\ rgTest # NoTest /\ rgJobs < MaxRgJobs
  /\ rgJobs' = rgJobs + 1
  /\ rgTest' = NoTest /\ rgResults' = {}
  /\ UNCHANGED rgTester

\* runTest: the run, ...
ReadRun(p) ==
  /\ rgTest # NoTest /\ tcRun # NoRunRow
  /\ StartsJob(p, [NoJob EXCEPT !.at = "run", !.test = rgTest, !.run = tcRun])
  /\ UNCHANGED rgTest

\* ... its steps, and the row of the result, refused if the test has gone.
RunTest(p) ==
  LET me == rgTester[p]
  IN  /\ me.at = "run"
      /\ rgResults' = IF rgTest.id # me.test.id THEN rgResults
                      ELSE rgResults \union
                        {[assertions |-> me.test.assertions, run |-> me.run,
                          passed |-> TestPasses(me.test.assertions, me.run, tcRows)]}
      /\ FinishesJob(p) /\ UNCHANGED rgTest

-----------------------------------------------------------------------------
RegressionInit ==
  /\ TracerInit
  /\ rgTest = NoTest /\ rgTester = [p \in Testers |-> NoJob]
  /\ rgResults = {} /\ rgJobs = 0

TesterStep(p) ==
  \/ DeriveFrom(p) \/ CreateTest(p) \/ AddAssertion(p) \/ ReadRun(p) \/ RunTest(p)
  \/ \E a \in RgAdded, kept \in BOOLEAN : LookUpTest(p, a, kept)

RegressionNext ==
  \/ TracerNext /\ UNCHANGED rgVars
  \/ (DeleteTest \/ \E p \in Testers : TesterStep(p)) /\ UNCHANGED tracerVars

RegressionSpec == RegressionInit /\ [][RegressionNext]_<<tracerVars, rgVars>>

-----------------------------------------------------------------------------
\* A sealed run tells what its steps were, in whatever order their ends came and
\* whatever was still being written when the tracer ended: the totals are theirs,
\* the status is error if one of them failed, and nothing of it changes any more, so
\* that a result got from the sealed run holds for good.  A test derived from it
\* passes on it unless it is empty or a step failed.
SealedRunHolds ==
  tcRun.sealed =>
    LET said == {r.status : r \in tcRows}
    IN  /\ tcRun = RunTotals(tcRun, tcRows)
        /\ tcTracer.told \/
             tcRun.status = IF "error" \in said THEN "error"
                            ELSE IF "ok" \in said THEN "ok" ELSE "in_progress"
        /\ TestPasses(DeriveAssertionsFromRun(tcRun, tcRows), tcRun, tcRows) <=>
             tcRows # {} /\ "error" \notin said
        /\ \A r \in rgResults : r.run.sealed =>
             r.passed = TestPasses(r.assertions, tcRun, tcRows)
=============================================================================
