---------------------------- MODULE CursorIngest ----------------------------
(***************************************************************************)
(* Capture of a Cursor conversation.  Three writers share its run: the     *)
(* pull (adapters/cursor/src/ingest.ts), which walks the bubbles in        *)
(* Cursor's own database and makes the run's walk rows mirror them; the    *)
(* hooks (hooks.ts), which add steps in a reserved band and seal the run   *)
(* in real time; and the watch writers, which attach rows to its steps     *)
(* that nothing can derive again.                                          *)
(*                                                                         *)
(* The conversation is edited: turns are appended, rewound, replaced.  A   *)
(* pull reads its plan, awaits blob writes, and commits in one             *)
(* transaction; hooks and watch writers run in between.                    *)
(***************************************************************************)
EXTENDS StepTable

CONSTANTS
  Bubbles,             \* bubble ids the conversation may use
  CursorTool,          \* [Bubbles -> its tool call, and what is left of its content]
  OddBubbles,          \* bubbles that classify neither as user nor as assistant
  MaxConversation,     \* bound on its length
  HookAnchors,         \* edits the hook plane reports
  Checkpoint,          \* the paths of the conversation's checkpoint, in order
  LegacyRows           \* whether the run was first stored with random ids

\* The bands, scaled down: walk rows below, rebuilds vacate far above.
HOOK_SEQUENCE_BASE == 10
CHECKPOINT_SEQUENCE_BASE == 30
SEQUENCE_REBUILD_OFFSET == 100

ASSUME CursorConstants ==
  /\ MaxConversation < HOOK_SEQUENCE_BASE
  /\ OddBubbles \subseteq Bubbles
  /\ LegacyRows \subseteq BOOLEAN

VARIABLES
  cuTalk,        \* the headers of the conversation, in order
  cuUnflushed,   \* headers whose bubble row is not written yet
  cuStatus,      \* the status Cursor shows for it
  cuStore,       \* the run's status, its steps and their file changes
  cuPull,        \* what the pull under way has read
  cuRemoved,     \* bubbles the conversation has ever lost
  cuWatched,     \* bubbles whose step got a watch row, anchors with a hook step
  cuSealed       \* the hook plane has sealed the run since it was last open

cuVars == <<cuTalk, cuUnflushed, cuStatus, cuStore, cuPull, cuRemoved, cuWatched, cuSealed>>

CursorRun == "cursor"
StepIdOf(b) == <<"bubble", b>>
LegacyIdAt(n) == <<"random", n>>
IsDeterministic(id) == id[1] = "bubble"
PullIdle == [pc |-> "idle", walk |-> <<>>, fetched |-> 0, known |-> FALSE,
             status |-> "none", shown |-> "none", idAt |-> <<>>]

-----------------------------------------------------------------------------
(* file_changes.ts: the row of one tool bubble.                            *)
\* A body is "absent" (no content id), "pruned" (Cursor dropped it), "empty"
\* or "text".
CursorChange(tool) ==
  IF tool.name = "delete_file" THEN [op |-> "delete", partial |-> TRUE]
  ELSE IF tool.name # "edit_file_v2" \/ tool.after \in {"absent", "pruned"}
          \/ tool.before = "pruned" THEN [op |-> "modify", partial |-> TRUE]
  ELSE [op |-> IF tool.before = "text" THEN "modify" ELSE "create", partial |-> FALSE]

HasChange(b) == CursorTool[b].name \in {"search_replace", "write", "edit_file_v2", "delete_file"}

\* One row per bubble, whatever its step; a stored one is kept.
ExtractChange(store, b, stepId) ==
  LET change == [step |-> stepId, by |-> b, path |-> CursorTool[b].path,
                 op |-> CursorChange(CursorTool[b]).op,
                 partial |-> CursorChange(CursorTool[b]).partial]
  IN  IF HasChange(b) /\ \A c \in store.changes : c.by # b
      THEN [store EXCEPT !.changes = store.changes \union {change}]
      ELSE store

-----------------------------------------------------------------------------
(* The plan of a pull, from the rows it read.                              *)
WalkRows(table) == {r \in table : r.seq < HOOK_SEQUENCE_BASE}

\* A turn moved, or another turn sits where it was.
Shifted(p) ==
  \E i \in 1..Len(p.walk) :
    \/ \E n \in DOMAIN p.idAt : p.idAt[n] = StepIdOf(p.walk[i]) /\ n # i - 1
    \/ /\ i - 1 \in DOMAIN p.idAt
       /\ p.idAt[i - 1] # StepIdOf(p.walk[i])
       /\ IsDeterministic(p.idAt[i - 1])

\* Sequences whose random id is rewritten to the bubble's.
Migrated(p) ==
  IF Shifted(p) THEN {}
  ELSE {n \in DOMAIN p.idAt : n < Len(p.walk) /\ ~IsDeterministic(p.idAt[n])}

SurvivingId(p, i) ==
  IF Shifted(p) \/ i - 1 \in Migrated(p) \/ i - 1 \notin DOMAIN p.idAt
  THEN StepIdOf(p.walk[i]) ELSE p.idAt[i - 1]

WalkStep(p, i) ==
  [id |-> StepIdOf(p.walk[i]), run |-> CursorRun, seq |-> i - 1, body |-> p.walk[i]]

\* Reduced views are not trusted with a rebuild or a trim.
PartialView(p) ==
  p.known /\ Len(p.walk) < p.fetched
          /\ (Shifted(p) \/ Len(p.walk) < Cardinality(DOMAIN p.idAt))

MigrateIds(store, p) ==
  LET NewId(id) == IF \E n \in Migrated(p) : p.idAt[n] = id
                   THEN StepIdOf(p.walk[1 + CHOOSE n \in Migrated(p) : p.idAt[n] = id])
                   ELSE id
  IN  [store EXCEPT !.steps = {[r EXCEPT !.id = NewId(r.id)] : r \in store.steps},
                    !.changes = {[c EXCEPT !.step = NewId(c.step)] : c \in store.changes}]

\* Mutant of OffsetSequences: a rebuild upserts over the rows in place.
OffsetNothing(table) == table

\* Vacate the walk range; ids, and so the children, stay.
OffsetSequences(table) ==
  LET by == Max({SEQUENCE_REBUILD_OFFSET} \union {r.seq + 1 : r \in table})
  IN  {IF r.seq < HOOK_SEQUENCE_BASE THEN [r EXCEPT !.seq = r.seq + by] ELSE r : r \in table}

\* Mutant of TrimSteps: the trim knows no bands.
TrimAllSteps(table, from) == {r \in table : r.seq < from}

\* The tail of a rewound walk, and the offset rows nothing claimed.
TrimSteps(table, from) ==
  {r \in table : r.seq < from \/ r.seq \in HOOK_SEQUENCE_BASE..(SEQUENCE_REBUILD_OFFSET - 1)}

\* Deleting a step deletes its file changes.
Cascade(store) ==
  [store EXCEPT !.changes = {c \in store.changes : \E r \in store.steps : r.id = c.step}]

\* A sealed run is not reopened by a composer that still looks open -- as far
\* as the pull knew when it began.
WalkStatus(store, p) ==
  IF p.shown # "in_progress" \/ ~p.known \/ p.status = "in_progress" THEN p.shown
  ELSE store.status

CommitWalk(store, p) ==
  LET migrated == MigrateIds(store, p)
      vacated == IF Shifted(p) THEN OffsetSequences(migrated.steps) ELSE migrated.steps
      put == InsertSteps(vacated, [i \in 1..Len(p.walk) |-> WalkStep(p, i)])
  IN  IF ~put.ok THEN store
      ELSE Cascade([migrated EXCEPT !.steps = TrimSteps(put.table, Len(p.walk)),
                                    !.status = WalkStatus(store, p)])

-----------------------------------------------------------------------------
(* extras.ts: the checkpoint fallback.                                     *)
IsCheckpointRow(c) == c.by = "checkpoint"
ToolPaths(store) == {c.path : c \in {d \in store.changes : ~IsCheckpointRow(d)}}

\* Checkpoint rows of a path a tool row covers go; an uncovered path gets one
\* on the checkpoint's own step, numbered from 0 in every pull.  The first
\* number that is taken ends the pass.
IngestCheckpoints(store) ==
  LET kept == {c \in store.changes : ~IsCheckpointRow(c) \/ c.path \notin ToolPaths(store)}
      covered == {c.path : c \in kept}
      missing == SelectSeq(Checkpoint, LAMBDA path : path \notin covered)
      taken == {c.seq : c \in {d \in kept : IsCheckpointRow(d)}}
      fits == {k \in 1..Len(missing) : \A j \in 1..k : j - 1 \notin taken}
      step == [id |-> <<"checkpoint", 1>>, run |-> CursorRun,
               seq |-> CHECKPOINT_SEQUENCE_BASE, body |-> "checkpoint"]
      row(k) == [step |-> step.id, by |-> "checkpoint", path |-> missing[k], seq |-> k - 1,
                 op |-> "modify", partial |-> TRUE]
  IN  [store EXCEPT
         !.steps = IF missing = <<>> THEN store.steps ELSE InsertStep(store.steps, step),
         !.changes = kept \union {row(k) : k \in fits}]

-----------------------------------------------------------------------------
(* Cursor, the hooks and the watch writers.                                *)
LegacyStore(talk) ==
  [status |-> "in_progress", changes |-> {},
   steps |-> {[id |-> LegacyIdAt(i - 1), run |-> CursorRun, seq |-> i - 1, body |-> talk[i]]
              : i \in 1..Len(talk)}]

CursorInit ==
  /\ cuTalk \in {<<b>> : b \in Bubbles \ OddBubbles}
  /\ cuUnflushed = {}
  /\ cuStatus = "in_progress"
  /\ \E legacy \in LegacyRows :
       cuStore = IF legacy THEN LegacyStore(cuTalk)
                 ELSE [status |-> "none", steps |-> {}, changes |-> {}]
  /\ cuPull = PullIdle
  /\ cuRemoved = {}
  /\ cuWatched = {}
  /\ cuSealed = FALSE

\* A turn: Cursor writes its header first, its row later.
NewTurn ==
  /\ Len(cuTalk) < MaxConversation
  /\ \E b \in Bubbles \ (Range(cuTalk) \union cuRemoved) :
       cuTalk' = Append(cuTalk, b) /\ cuUnflushed' = cuUnflushed \union {b}
  /\ UNCHANGED <<cuStatus, cuStore, cuPull, cuRemoved, cuWatched, cuSealed>>

FlushTurn ==
  /\ \E b \in cuUnflushed : cuUnflushed' = cuUnflushed \ {b}
  /\ UNCHANGED <<cuTalk, cuStatus, cuStore, cuPull, cuRemoved, cuWatched, cuSealed>>

\* A checkpoint is restored, or one turn is deleted.
EditTalk ==
  /\ \E kept \in {SubSeq(cuTalk, 1, n) : n \in 1..(Len(cuTalk) - 1)}
                 \union {RemoveAt(cuTalk, n) : n \in 1..Len(cuTalk)} :
       /\ kept # <<>>
       /\ cuTalk' = kept
       /\ cuUnflushed' = cuUnflushed \intersect Range(kept)
       /\ cuRemoved' = cuRemoved \union (Range(cuTalk) \ Range(kept))
  /\ UNCHANGED <<cuStatus, cuStore, cuPull, cuWatched, cuSealed>>

ComposerCompletes ==
  /\ cuStatus = "in_progress"
  /\ cuStatus' = "ok"
  /\ UNCHANGED <<cuTalk, cuUnflushed, cuStore, cuPull, cuRemoved, cuWatched, cuSealed>>

\* afterFileEdit: a step in the hook band with the edit's row, in the run the
\* conversation has or gets.
AfterFileEdit ==
  \E a \in HookAnchors :
    LET step == [id |-> <<"hook", a>>, run |-> CursorRun, body |-> a,
                 seq |-> HOOK_SEQUENCE_BASE + Cardinality({r \in cuStore.steps :
                           r.seq \in HOOK_SEQUENCE_BASE..(CHECKPOINT_SEQUENCE_BASE - 1)})]
    IN  /\ a \notin cuWatched
        /\ cuWatched' = cuWatched \union {a}
        /\ cuStore' = [cuStore EXCEPT
             !.status = IF cuStore.status = "none" THEN "in_progress" ELSE cuStore.status,
             !.steps = InsertStep(cuStore.steps, step),
             !.changes = cuStore.changes \union
               {[step |-> step.id, by |-> "hook", path |-> a, op |-> "modify", partial |-> TRUE]}]
        /\ UNCHANGED <<cuTalk, cuUnflushed, cuStatus, cuPull, cuRemoved, cuSealed>>

\* stop: the hook seals the run.
HookStop ==
  /\ cuStore.status = "in_progress"
  /\ cuStore' = [cuStore EXCEPT !.status = "abandoned"]
  /\ cuSealed' = TRUE
  /\ UNCHANGED <<cuTalk, cuUnflushed, cuStatus, cuPull, cuRemoved, cuWatched>>

\* A FileSentinel saw a change and puts it on the newest walk step.
WatchStep ==
  /\ WalkRows(cuStore.steps) # {}
  /\ LET newest == CHOOSE r \in WalkRows(cuStore.steps) :
                     \A s \in WalkRows(cuStore.steps) : s.seq <= r.seq
     IN  /\ newest.body \notin cuWatched
         /\ cuWatched' = cuWatched \union {newest.body}
         /\ cuStore' = [cuStore EXCEPT !.changes = cuStore.changes \union
              {[step |-> newest.id, by |-> "watch", path |-> newest.body,
                op |-> "modify", partial |-> FALSE]}]
  /\ UNCHANGED <<cuTalk, cuUnflushed, cuStatus, cuPull, cuRemoved, cuSealed>>

-----------------------------------------------------------------------------
(* The pull.                                                               *)

\* One read transaction over headers and bubbles, then the run and its rows.
\* A run it does not know is inserted; a known one with bubbles missing, or
\* with none that classify, is left alone.
PullPlan ==
  /\ cuPull.pc = "idle"
  /\ LET fetched == SelectSeq(cuTalk, LAMBDA b : b \notin cuUnflushed)
         walk == SelectSeq(fetched, LAMBDA b : b \notin OddBubbles)
         known == cuStore.status # "none"
         rows == WalkRows(cuStore.steps)
     IN  /\ known => Len(fetched) = Len(cuTalk) /\ walk # <<>>
         /\ cuPull' = [pc |-> "planned", walk |-> walk, fetched |-> Len(fetched),
                       known |-> known, status |-> cuStore.status, shown |-> cuStatus,
                       idAt |-> [n \in {r.seq : r \in rows} |->
                                   (CHOOSE r \in rows : r.seq = n).id]]
         /\ cuStore' = [cuStore EXCEPT !.status = IF known THEN @ ELSE cuStatus]
  /\ UNCHANGED <<cuTalk, cuUnflushed, cuStatus, cuRemoved, cuWatched, cuSealed>>

\* After the blob writes.
PullCommit ==
  /\ cuPull.pc = "planned"
  /\ IF PartialView(cuPull)
     THEN cuPull' = PullIdle /\ UNCHANGED cuStore
     ELSE cuPull' = [cuPull EXCEPT !.pc = "extract"]
          /\ cuStore' = CommitWalk(cuStore, cuPull)
  /\ UNCHANGED <<cuTalk, cuUnflushed, cuStatus, cuRemoved, cuWatched, cuSealed>>

\* The rows of the tool bubbles on the steps that survived, then the extras.
PullExtract ==
  /\ cuPull.pc = "extract"
  /\ LET rows[i \in 0..Len(cuPull.walk)] ==
           IF i = 0 THEN cuStore
           ELSE ExtractChange(rows[i - 1], cuPull.walk[i], SurvivingId(cuPull, i))
     IN  cuStore' = IngestCheckpoints(rows[Len(cuPull.walk)])
  /\ cuPull' = PullIdle
  /\ UNCHANGED <<cuTalk, cuUnflushed, cuStatus, cuRemoved, cuWatched, cuSealed>>

CursorNext ==
  \/ NewTurn \/ FlushTurn \/ EditTalk \/ ComposerCompletes
  \/ AfterFileEdit \/ HookStop \/ WatchStep
  \/ PullPlan \/ PullCommit \/ PullExtract

-----------------------------------------------------------------------------
\* Rebuilds, trims and renames never cost a row that cannot be derived again:
\* the watch row of a turn that is still there, and the hook plane's row, are
\* in the store and on the step of that turn or of that edit.
CursorChildrenStay ==
  \A b \in cuWatched \ cuRemoved :
    \E c \in cuStore.changes, r \in cuStore.steps :
      c.by \in {"watch", "hook"} /\ c.path = b /\ r.id = c.step /\ r.body = b

\* After a pull that read the conversation as it is, the walk rows are its
\* turns in order, and a rebuild has left no row out of its band.
CursorMirrors ==
  cuPull.pc = "extract" /\ cuPull.walk = cuTalk =>
    /\ StepsUnique(cuStore.steps)
    /\ \A r \in cuStore.steps : r.seq < SEQUENCE_REBUILD_OFFSET
    /\ WalkRows(cuStore.steps) =
         {[id |-> SurvivingId(cuPull, i), run |-> CursorRun, seq |-> i - 1, body |-> cuTalk[i]]
          : i \in 1..Len(cuTalk)}

\* "Never let a DB re-ingest reopen a sealed run."
CursorNeverReopens == cuSealed => cuStore.status # "in_progress"

\* Both at every step of a pull: what is rebuilt is what the conversation says, and
\* what hangs on it stays (writeTurns and the hooks).
CursorRebuilds == CursorChildrenStay /\ CursorMirrors
=============================================================================
