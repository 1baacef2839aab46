--------------------------- MODULE CopilotIngest ---------------------------
(***************************************************************************)
(* Ingest of a Copilot CLI session                                         *)
(* (adapters/github-copilot/src/ingest.ts).  One events file holds the     *)
(* main thread and the agents it dispatched; a carve sorts the events into *)
(* one parent run and a child run per agent, and commits them in ONE       *)
(* transaction.  Every growth of the file carves all of it again; ids are  *)
(* derived from run and event, so known rows are updated in place, and     *)
(* rows a carve no longer has are deleted before.                          *)
(*                                                                         *)
(* A run is 0, the parent, or the position of the subagent.started event   *)
(* that opened it.  An event is a record with its type and the ids that    *)
(* correlate it; "none" stands for an absent one.  parent is the position  *)
(* of the event its parentId names, 0 without one, -1 in a file without    *)
(* event ids.                                                              *)
(***************************************************************************)
EXTENDS StepTable

CONSTANTS
  CopilotScripts,   \* sessions a CLI may write, each a sequence of events
  CopilotIngests,   \* the ingests that may be under way at once
  MaxCarves         \* bound on the ingests begun

VARIABLES
  coScript,         \* the session being written
  coLen,            \* the events written so far
  coTorn,           \* the next one is half written
  coStale,          \* nothing was written for STALE_SESSION_MS
  coStore,          \* runs' statuses, steps, file changes and the watermark
  coIngest,         \* [CopilotIngests -> stat'ed size and events read]
  coCarves          \* ingests begun

coVars == <<coScript, coLen, coTorn, coStale, coStore, coIngest, coCarves>>

MainRun == 0
FirstOf(S) == IF S = {} THEN 0 ELSE Min(S)
LatestOf(S) == IF S = {} THEN 0 ELSE Max(S)

HasEventIds(f) == \E i \in DOMAIN f : f[i].parent >= 0
HasInteractionIds(f) == \E i \in DOMAIN f : f[i].iid # "none"

-----------------------------------------------------------------------------
(* Routing: which run an event belongs to.                                 *)

\* Children exist only where events can be correlated.
ChildRuns(f) ==
  IF HasEventIds(f) THEN {i \in DOMAIN f : f[i].type = "subagent.started"} ELSE {}

TaskOf(f, i) ==
  LatestOf({k \in 1..(i - 1) : f[k].type = "tool.execution_start"
                               /\ f[k].tool = "task" /\ f[k].call = f[i].call})

\* An interaction is the child's whose spawn prompt its first message repeats.
BoundChild(f, iid, i) ==
  LET opens(j) == {s \in ChildRuns(f) : s < j /\ TaskOf(f, s) # 0
                                        /\ f[TaskOf(f, s)].text = f[j].text}
      first == FirstOf({j \in 1..i : f[j].type = "user.message" /\ f[j].iid = iid
                                     /\ opens(j) # {}})
  IN  IF first = 0 THEN MainRun ELSE Min(opens(first))

\* Real files: by interaction.  A tool's start has none; its completion does,
\* which may not be in the file yet.
InteractionOf(f, i) ==
  CASE f[i].type \in {"subagent.started", "subagent.completed"} -> "none"
    [] f[i].iid # "none" -> f[i].iid
    [] f[i].type = "tool.execution_start" ->
         LET done == FirstOf({j \in DOMAIN f : f[j].type = "tool.execution_complete"
                                /\ f[j].call = f[i].call /\ f[j].iid # "none"})
         IN  IF done = 0 THEN "none" ELSE f[done].iid
    [] f[i].type = "assistant.turn_end" ->
         LET start == LatestOf({j \in 1..(i - 1) : f[j].type = "assistant.turn_start"
                                  /\ f[j].turn = f[i].turn})
         IN  IF start = 0 THEN "none" ELSE f[start].iid
    [] OTHER -> "none"

\* Other files: by the ancestry of parent ids.  A chain into an id that was
\* never seen, or into itself, ends at the parent run.
AncestorRun(f) ==
  LET walk[i \in DOMAIN f] ==
        LET p == f[i].parent
        IN  IF p \notin 1..(i - 1) THEN MainRun
            ELSE IF p \in ChildRuns(f) THEN p
            ELSE walk[p]
  IN  walk

RouteEvent(f, i) ==
  IF ~HasEventIds(f) THEN MainRun
  ELSE IF ~HasInteractionIds(f) THEN AncestorRun(f)[i]
  ELSE IF InteractionOf(f, i) = "none" THEN MainRun
  ELSE BoundChild(f, InteractionOf(f, i), i)

\* A dispatch belongs to the run that issued the task call.
OwnerOf(f, i) ==
  RouteEvent(f, IF f[i].type = "subagent.started" /\ TaskOf(f, i) # 0 THEN TaskOf(f, i) ELSE i)

Owners(f) == [i \in DOMAIN f |-> OwnerOf(f, i)]

-----------------------------------------------------------------------------
(* The carve: one pass over the events, each with its owner.               *)
MutatingTools == {"edit", "create"}

CarvedStep(f, owner, i, outcome, tokens) ==
  [run |-> owner, key |-> i, outcome |-> outcome, tokens |-> tokens,
   change |-> f[i].type = "tool.execution_start" /\ f[i].tool \in MutatingTools]

\* turn: the assistant's step of the turn a run is in, if it has one.
NoCarve(f) ==
  [steps |-> <<>>, turn |-> [r \in ChildRuns(f) \union {MainRun} |-> 0],
   completed |-> {}, failed |-> {}]

\* The step a tool's completion settles: the run's own call of that id, else
\* its oldest pending tool.
SettledBy(f, owner, steps, i) ==
  LET pending == {k \in DOMAIN steps : steps[k].run = owner
                    /\ steps[k].outcome = "pending" /\ f[steps[k].key].type = "tool.execution_start"}
      own == {k \in pending : f[steps[k].key].call = f[i].call}
  IN  IF own # {} THEN Max(own) ELSE FirstOf(pending)

WithStep(f, owner, c, i, outcome, tokens) ==
  [c EXCEPT !.steps = Append(c.steps, CarvedStep(f, owner, i, outcome, tokens))]

\* A turn's usage replaces what its message carried, or gets a step of its own.
CarveTurn(f, owner, c, i) ==
  CASE f[i].type = "assistant.turn_start" -> [c EXCEPT !.turn[owner] = 0]
    [] f[i].type = "assistant.message" ->
         [WithStep(f, owner, c, i, "ok", f[i].usage) EXCEPT !.turn[owner] = Len(c.steps) + 1]
    [] f[i].type = "assistant.turn_end" /\ f[i].usage > 0 ->
         IF c.turn[owner] = 0 THEN WithStep(f, owner, c, i, "ok", f[i].usage)
         ELSE [c EXCEPT !.steps[c.turn[owner]].tokens = f[i].usage, !.turn[owner] = 0]
    [] OTHER -> c

CarveTool(f, owner, c, i) ==
  IF f[i].type = "tool.execution_start" THEN WithStep(f, owner, c, i, "pending", 0)
  ELSE LET k == SettledBy(f, owner, c.steps, i)
       IN  IF k = 0 THEN c ELSE [c EXCEPT !.steps[k].outcome = f[i].outcome]

\* The end of an agent settles the step that opened it.
CarveSubagent(f, owner, c, i) ==
  IF f[i].type = "subagent.started"
  THEN WithStep(f, owner, c, i, IF i \in ChildRuns(f) THEN "pending" ELSE "ok", 0)
  ELSE LET child == LatestOf({s \in ChildRuns(f) : s < i /\ f[s].call = f[i].call})
           who == IF child # 0 THEN child ELSE owner
       IN  IF who = MainRun THEN c
           ELSE [c EXCEPT !.completed = c.completed \union {who},
                          !.steps = [k \in DOMAIN c.steps |->
                             IF c.steps[k].key = who THEN [c.steps[k] EXCEPT !.outcome = "ok"]
                             ELSE c.steps[k]]]

CarveEvent(f, owner, c, i) ==
  CASE f[i].type = "user.message" -> WithStep(f, owner, c, i, "ok", 0)
    [] f[i].type \in {"assistant.turn_start", "assistant.message", "assistant.turn_end"} ->
         CarveTurn(f, owner, c, i)
    [] f[i].type \in {"tool.execution_start", "tool.execution_complete"} ->
         CarveTool(f, owner, c, i)
    [] f[i].type \in {"subagent.started", "subagent.completed"} ->
         CarveSubagent(f, owner, c, i)
    [] f[i].type = "session.shutdown" /\ f[i].usage > 0 ->
         WithStep(f, owner, c, i, "ok", f[i].usage)
    [] f[i].type = "session.error" -> [c EXCEPT !.failed = c.failed \union {owner}]
    [] OTHER -> c

Carve(f, owners) ==
  LET upTo[i \in 0..Len(f)] ==
        IF i = 0 THEN NoCarve(f) ELSE CarveEvent(f, owners[i], upTo[i - 1], i)
  IN  upTo[Len(f)]

\* The rows of a carve, numbered within their run in the order of its events.
CarvedRows(steps) ==
  [k \in DOMAIN steps |->
     [id |-> <<steps[k].run, steps[k].key>>, run |-> steps[k].run,
      seq |-> Cardinality({j \in 1..(k - 1) : steps[j].run = steps[k].run}),
      body |-> [event |-> steps[k].key, outcome |-> steps[k].outcome,
                tokens |-> steps[k].tokens, change |-> steps[k].change]]]

AtRestEvents ==
  {"assistant.message", "assistant.turn_end", "subagent.completed", "session.info",
   "session.end", "session.shutdown", "session.usage_checkpoint"}

CarvedStatus(f, carve, run, stale) ==
  LET last == f[Len(f)].type
      quiet == IF stale THEN "abandoned" ELSE "in_progress"
  IN  IF run = MainRun
      THEN IF run \in carve.failed /\ last = "session.error" THEN "error"
           ELSE IF last \in AtRestEvents THEN "ok" ELSE quiet
      ELSE IF run \in carve.completed
           THEN IF run \in carve.failed THEN "error" ELSE "ok"
      ELSE IF \E i \in DOMAIN f : f[i].type = "session.shutdown" THEN "abandoned" ELSE quiet

-----------------------------------------------------------------------------
(* The transaction.                                                        *)

\* Mutant of Superseded: rows the carve no longer has stay.
SupersededNever(table, runs, rows) == {}

Superseded(table, runs, rows) ==
  {r \in table : r.run \in runs /\ \A k \in DOMAIN rows : rows[k].id # r.id}

\* Per run: delete, upsert, then the file changes, each of which needs its step.
\* No run's rows are touched for another one, so the deletes may come first.
CommitCarve(store, f, carve, size, stale) ==
  LET runs == ChildRuns(f) \union {MainRun}
      rows == CarvedRows(carve.steps)
      put == InsertSteps(store.steps \ Superseded(store.steps, runs, rows), rows)
      ids == {r.id : r \in put.table}
      changed == {rows[k].id : k \in {j \in DOMAIN rows : rows[j].body.change}}
  IN  IF put.ok /\ changed \subseteq ids
      THEN [steps |-> put.table, watermark |-> size, failed |-> FALSE,
            changes |-> (store.changes \intersect ids) \union changed,
            status |-> [r \in runs |-> CarvedStatus(f, carve, r, stale)]]
      ELSE [store EXCEPT !.failed = TRUE]

-----------------------------------------------------------------------------
FileSize == 2 * coLen + (IF coTorn THEN 1 ELSE 0)

CopilotIdle == [pc |-> "idle", size |-> 0, upTo |-> 0]

CopilotInit ==
  /\ coScript \in CopilotScripts
  /\ coLen = 0
  /\ coTorn = FALSE
  /\ coStale = FALSE
  /\ coStore = [steps |-> {}, changes |-> {}, watermark |-> 0, status |-> <<>>, failed |-> FALSE]
  /\ coIngest = [i \in CopilotIngests |-> CopilotIdle]
  /\ coCarves = 0

CopilotWrite ==
  /\ coLen < Len(coScript)
  /\ IF coTorn THEN coTorn' = FALSE /\ coLen' = coLen + 1
     ELSE coTorn' = TRUE /\ UNCHANGED coLen
  /\ UNCHANGED <<coScript, coStale, coStore, coIngest, coCarves>>

\* Silence past the staleness window, after the end or after a kill.
CopilotSilence ==
  /\ ~coStale
  /\ coLen = Len(coScript)
  /\ coStale' = TRUE
  /\ UNCHANGED <<coScript, coLen, coTorn, coStore, coIngest, coCarves>>

\* An unchanged size is no work.
CopilotStat(i) ==
  /\ coIngest[i].pc = "idle"
  /\ FileSize # coStore.watermark
  /\ coCarves < MaxCarves
  /\ coIngest' = [coIngest EXCEPT ![i] = [CopilotIdle EXCEPT !.pc = "stat", !.size = FileSize]]
  /\ coCarves' = coCarves + 1
  /\ UNCHANGED <<coScript, coLen, coTorn, coStale, coStore>>

\* The file may have grown since; a half-written line is skipped.
CopilotRead(i) ==
  /\ coIngest[i].pc = "stat"
  /\ coIngest' = [coIngest EXCEPT
       ![i] = IF coLen = 0 THEN CopilotIdle ELSE [@ EXCEPT !.pc = "carve", !.upTo = coLen]]
  /\ UNCHANGED <<coScript, coLen, coTorn, coStale, coStore, coCarves>>

\* All of it or, when a statement throws, none.
CopilotCommit(i) ==
  /\ coIngest[i].pc = "carve"
  /\ LET f == SubSeq(coScript, 1, coIngest[i].upTo)
     IN  coStore' = CommitCarve(coStore, f, Carve(f, Owners(f)), coIngest[i].size, coStale)
  /\ coIngest' = [coIngest EXCEPT ![i] = CopilotIdle]
  /\ UNCHANGED <<coScript, coLen, coTorn, coStale, coCarves>>

CopilotStep(i) == CopilotStat(i) \/ CopilotRead(i) \/ CopilotCommit(i)

CopilotNext ==
  \/ CopilotWrite \/ CopilotSilence
  \/ \E i \in CopilotIngests : CopilotStep(i)

-----------------------------------------------------------------------------
\* An event moves from the parent to a child once the file says whose it is.
\* Whenever the watermark says there is nothing to do, the parent has exactly
\* its own events, and no event is in two runs, where its tokens would count
\* twice.
CopilotEventsOnce ==
  coStore.watermark = FileSize /\ coLen > 0 =>
    LET f == SubSeq(coScript, 1, coLen)
        carved == Range(CarvedRows(Carve(f, Owners(f)).steps))
    IN  /\ StepsOfRun(coStore.steps, MainRun) = StepsOfRun(carved, MainRun)
        /\ coStore.changes \subseteq {r.id : r \in coStore.steps}
        /\ \A r, s \in coStore.steps : r.body.event = s.body.event => r = s
        /\ {<<r.run, r.body>> : r \in coStore.steps} \subseteq {<<r.run, r.body>> : r \in carved}

\* "re-carving the whole file ... upserts in place": a carve of a grown file
\* never fails.
CopilotCarvesCommit == ~coStore.failed
=============================================================================
