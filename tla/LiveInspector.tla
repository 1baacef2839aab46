--------------------------- MODULE LiveInspector ---------------------------
(***************************************************************************)
(* The live inspector (packages/server/src/live.ts).  Every tick it looks  *)
(* for session files that are new or grew, ingests them, and tells its     *)
(* subscribers what is new; then it looks in the store for steps and       *)
(* file_change rows that others put there.  The timer does not wait for a  *)
(* tick to end, so ticks overlap and share the inspector's maps, and a     *)
(* second process (`meter live`, a hook's drain) ingests the same files    *)
(* and shares their offset.                                                *)
(*                                                                         *)
(* A session is a sequence of "step", "tool" (a step that calls a watched  *)
(* tool), "end" and "chatter".  Steps are numbered from 1, so that 0 is    *)
(* the empty cursor.  Probe events are in module ProbeEvents.              *)
(***************************************************************************)
EXTENDS Integers, Sequences, FiniteSets, SequencesExt

CONSTANTS
  LiveRuns,        \* sessions, each with its file and its run
  LiveItems,       \* what a session may append
  MaxSession,      \* bound on the length of a file
  LiveTicks,       \* ticks that may be under way at once
  MaxRewinds,      \* bound on the times a source is rewritten shorter
  MaxStarts,       \* bound on the times the inspector is started
  MaxThrows,       \* bound on the ingests that throw
  MaxRows          \* bound on the rows of a step

VARIABLES
  liFile,          \* [LiveRuns -> the items of the session file]
  liStore,         \* [LiveRuns -> its run row, steps and ingest offset]
  liUp,            \* the inspector is "off", "booting" or "up"
  liSelf,          \* [LiveRuns -> what the inspector's maps hold of it]
  liTick,          \* [LiveTicks -> where the tick is and what it has read]
  liTold,          \* [LiveRuns -> what the subscribers know of it]
  liCount          \* rewinds, starts and throws so far

liVars == <<liFile, liStore, liUp, liSelf, liTick, liTold, liCount>>

\* A step is known by its position and the rewrite that wrote it.
LiveIds == (1..MaxSession) \X (0..MaxRewinds)

NoRows == [id \in LiveIds |-> 0]
NotStored == [status |-> "none", offset |-> 0, steps |-> <<>>]
NothingSeen == [size |-> 0, known |-> FALSE, status |-> "none", maxSeq |-> 0,
                rows |-> NoRows, fired |-> {}]
NothingTold == [steps |-> {}, past |-> {}, rows |-> NoRows, alerts |-> {}, created |-> FALSE,
                ended |-> FALSE, twice |-> FALSE, upTo |-> 0, hidden |-> {}]
TickIdle == [pc |-> "idle", sizes |-> [r \in LiveRuns |-> 0], todo |-> {}, run |-> "none"]

-----------------------------------------------------------------------------
(* The store.                                                              *)

\* A prompt after the end reopens the run.
StatusOf(file) ==
  LET kept == SelectSeq(file, LAMBDA item : item # "chatter")
  IN  IF kept # <<>> /\ Last(kept) = "end" THEN "ok" ELSE "in_progress"

IsStepItem(item) == item \in {"step", "tool"}
StepItems(file) == SelectSeq(file, IsStepItem)
StepCount(file, n) == Cardinality({i \in 1..n : IsStepItem(file[i])})

\* What an ingest leaves in the store; known steps keep their rows.
Ingested(r) ==
  LET old == liStore[r].steps
      items == StepItems(liFile[r])
  IN  [status |-> StatusOf(liFile[r]), offset |-> Len(liFile[r]),
       steps |-> [n \in 1..StepCount(liFile[r], Len(liFile[r])) |->
         IF n <= Len(old) THEN old[n]
         ELSE [id |-> <<n, liCount.rewinds>>, tool |-> items[n] = "tool", rows |-> 0]]]

LiveMax(r) == Len(liStore[r].steps)
IdsAt(r, positions) == {liStore[r].steps[n].id : n \in positions}
AllIds(r) == IdsAt(r, 1..LiveMax(r))
RowsOf(r, id) == IF id \in AllIds(r) THEN liStore[r].steps[id[1]].rows ELSE 0
Tools(r) == {n \in 1..LiveMax(r) : liStore[r].steps[n].tool}

-----------------------------------------------------------------------------
(* What a pass makes of one run: s is what the maps hold of it, t what the *)
(* subscribers know.                                                       *)

\* collectNewSteps: the walk-range steps past the cursor.
NewSteps(s, r) == {n \in 1..LiveMax(r) : n > s.maxSeq}

\* Mutant of Cursor: a trimmed tail goes unnoticed.
CursorOnward(s, r) == IF LiveMax(r) > s.maxSeq THEN LiveMax(r) ELSE s.maxSeq

\* Mutant of Cursor: only the status is remembered.
CursorUnmoved(s, r) == s.maxSeq

\* The cursor after: on to what is announced, back over a trimmed tail.
Cursor(s, r) == LiveMax(r)

Completes(s, r) == liStore[r].status = "ok" /\ s.status # "ok"

Seen(s, r) ==
  [s EXCEPT !.known = TRUE, !.status = liStore[r].status, !.maxSeq = Cursor(s, r)]

\* emitFilesChangedIfAny for the given steps: what it told it remembers.
WithRows(rows, r, ids) ==
  [id \in LiveIds |-> IF id \in ids /\ RowsOf(r, id) > 0 THEN RowsOf(r, id) ELSE rows[id]]

\* run:created, or run:updated with the new steps; run:completed on the
\* transition.  A subscriber told of a new run loads it.
TellRun(s, t, r) ==
  LET new == IdsAt(r, NewSteps(s, r))
  IN  [t EXCEPT !.steps = t.steps \union new,
                !.rows = WithRows(t.rows, r, new),
                !.created = TRUE,
                !.upTo = LiveMax(r),
                !.ended = liStore[r].status = "ok" /\ (t.ended \/ Completes(s, r)),
                !.twice = \/ t.twice
                          \/ ~s.known /\ t.created
                          \/ s.known /\ new \intersect (t.steps \union t.past) # {}
                          \/ Completes(s, r) /\ t.ended]

\* A silent pass seeds the maps and tells nothing: what is there is history.
Backfill(t, r) ==
  [t EXCEPT !.past = t.past \union AllIds(r), !.rows = WithRows(t.rows, r, AllIds(r)),
            !.created = TRUE, !.upTo = LiveMax(r), !.ended = liStore[r].status = "ok"]

\* maybeAlert, each key once.  A watched call has a key of its own; context,
\* loop and stall alerts go through the same map.
AlertKeys(s, r) == IdsAt(r, NewSteps(s, r) \intersect Tools(r)) \ s.fired

\* detectStepArrivals: what an ingest elsewhere brought is told like one's own,
\* runs that did not change are passed over.
Arrived(s, r) ==
  /\ liStore[r].status # "none"
  /\ ~s.known \/ NewSteps(s, r) # {} \/ liStore[r].status # s.status
     \/ LiveMax(r) # s.maxSeq

ArrivalsSeen(s, r) ==
  IF ~Arrived(s, r) THEN s
  ELSE [Seen(s, r) EXCEPT !.rows = IF liUp = "up" THEN WithRows(s.rows, r, IdsAt(r, NewSteps(s, r)))
                                   ELSE s.rows]

ArrivalsTold(s, t, r) ==
  IF ~Arrived(s, r) THEN t ELSE IF liUp = "up" THEN TellRun(s, t, r) ELSE Backfill(t, r)

\* detectFileChangeArrivals: steps with more rows than last told.
MoreRows(s, r) == {id \in AllIds(r) : RowsOf(r, id) > s.rows[id]}

-----------------------------------------------------------------------------
LiveInit ==
  /\ liFile = [r \in LiveRuns |-> <<>>]
  /\ liStore = [r \in LiveRuns |-> NotStored]
  /\ liUp = "off"
  /\ liSelf = [r \in LiveRuns |-> NothingSeen]
  /\ liTick = [t \in LiveTicks |-> TickIdle]
  /\ liTold = [r \in LiveRuns |-> NothingTold]
  /\ liCount = [rewinds |-> 0, starts |-> 0, throws |-> 0]

\* The agent goes on.
SessionGrows(r) ==
  /\ Len(liFile[r]) < MaxSession
  /\ \E item \in LiveItems : liFile' = [liFile EXCEPT ![r] = Append(@, item)]
  /\ UNCHANGED <<liStore, liUp, liSelf, liTick, liTold, liCount>>

\* What an ingest writes.  A tail that was trimmed and grew again between two
\* passes is hidden from them; a run that goes on has not ended.
StoreIngest(r) ==
  /\ liStore' = [liStore EXCEPT ![r] = Ingested(r)]
  /\ liTold' = [liTold EXCEPT
       ![r].hidden = @ \union {s.id : s \in {u \in Range(Ingested(r).steps) :
                                   u.id \notin AllIds(r) /\ u.id[1] <= liTold[r].upTo}},
       ![r].ended = @ /\ StatusOf(liFile[r]) = "ok"]

\* Another process ingests the file and takes the offset.
OtherIngests(r) ==
  /\ liStore[r].offset < Len(liFile[r])
  /\ StoreIngest(r)
  /\ UNCHANGED <<liFile, liUp, liSelf, liTick, liCount>>

\* A source is rewritten shorter and reconciled elsewhere: the tail is trimmed.
OtherRewinds(r) ==
  /\ liCount.rewinds < MaxRewinds
  /\ liStore[r].offset = Len(liFile[r])
  /\ \E n \in 1..(Len(liFile[r]) - 1) :
       LET file == SubSeq(liFile[r], 1, n)
       IN  /\ liFile' = [liFile EXCEPT ![r] = file]
           /\ liStore' = [liStore EXCEPT ![r] = [status |-> StatusOf(file), offset |-> n,
                 steps |-> SubSeq(liStore[r].steps, 1, StepCount(file, n))]]
           /\ liTold' = [liTold EXCEPT ![r].ended = @ /\ StatusOf(file) = "ok"]
  /\ liCount' = [liCount EXCEPT !.rewinds = @ + 1]
  /\ UNCHANGED <<liUp, liSelf, liTick>>

\* A drain or a sentinel attaches a row to the newest step.
OtherRow(r) ==
  /\ liStore[r].steps # <<>>
  /\ Last(liStore[r].steps).rows < MaxRows
  /\ liStore' = [liStore EXCEPT ![r].steps[LiveMax(r)].rows = @ + 1]
  /\ UNCHANGED <<liFile, liUp, liSelf, liTick, liTold, liCount>>

-----------------------------------------------------------------------------
(* The controller's switch: a start while an inspector is there does nothing, *)
(* one is there before its first tick is over; a start that fails stops it.  *)
ControllerStarts == liUp = "off" /\ liUp' = "booting"
ControllerStops == liUp # "off" /\ liUp' = "off"

(* start() seeds the maps from the store and runs a silent tick; the timer *)
(* starts after it.                                                        *)
LiveStart ==
  /\ ControllerStarts
  /\ liCount.starts < MaxStarts
  /\ liSelf' = [r \in LiveRuns |->
       IF liStore[r].status = "none" THEN NothingSeen
       ELSE [NothingSeen EXCEPT !.known = TRUE, !.status = liStore[r].status,
                                !.maxSeq = LiveMax(r)]]
  /\ liTold' = [r \in LiveRuns |->
       IF liStore[r].status = "none" THEN NothingTold
       ELSE [Backfill(NothingTold, r) EXCEPT !.rows = NoRows]]
  /\ \E t \in LiveTicks : liTick' = [liTick EXCEPT ![t].pc = "discover"]
  /\ liCount' = [liCount EXCEPT !.starts = @ + 1]
  /\ UNCHANGED <<liFile, liStore>>

\* stop(): no more timer, no more listeners.  An ingest still under way ends
\* like one of another process.
LiveStop ==
  /\ ControllerStops
  /\ liTick' = [t \in LiveTicks |-> TickIdle]
  /\ UNCHANGED <<liFile, liStore, liSelf, liTold, liCount>>

\* The timer fires, whatever other ticks are doing.
TickStart(t) ==
  /\ liUp = "up"
  /\ liTick[t].pc = "idle"
  /\ liTick' = [liTick EXCEPT ![t].pc = "discover"]
  /\ UNCHANGED <<liFile, liStore, liUp, liSelf, liTold, liCount>>

\* The files are stat'ed, one runtime after the other.
TickDiscover(t) ==
  /\ liTick[t].pc = "discover"
  /\ liTick' = [liTick EXCEPT ![t].pc = "mark",
                              ![t].sizes = [r \in LiveRuns |-> Len(liFile[r])]]
  /\ UNCHANGED <<liFile, liStore, liUp, liSelf, liTold, liCount>>

\* New or grown files; lastSizes advances before they are ingested.
TickMark(t) ==
  /\ liTick[t].pc = "mark"
  /\ LET grown == {r \in LiveRuns : liTick[t].sizes[r] > liSelf[r].size}
     IN  /\ liTick' = [liTick EXCEPT ![t] = [TickIdle EXCEPT !.pc = "ingest", !.todo = grown]]
         /\ liSelf' = [r \in LiveRuns |->
              IF r \in grown THEN [liSelf[r] EXCEPT !.size = liTick[t].sizes[r]] ELSE liSelf[r]]
  /\ UNCHANGED <<liFile, liStore, liUp, liTold, liCount>>

\* An ingest that finds the offset at the end, or throws, announces nothing.
TickSkip(t, r) ==
  /\ liTick[t].pc = "ingest"
  /\ r \in liTick[t].todo
  /\ \/ liStore[r].offset >= Len(liFile[r]) /\ UNCHANGED liCount
     \/ liCount.throws < MaxThrows /\ liCount' = [liCount EXCEPT !.throws = @ + 1]
  /\ liTick' = [liTick EXCEPT ![t].todo = @ \ {r}]
  /\ UNCHANGED <<liFile, liStore, liUp, liSelf, liTold>>

TickIngest(t, r) ==
  /\ liTick[t].pc = "ingest"
  /\ r \in liTick[t].todo
  /\ liStore[r].offset < Len(liFile[r])
  /\ StoreIngest(r)
  /\ liTick' = [liTick EXCEPT ![t].pc = "announce", ![t].todo = @ \ {r},
                              ![t].run = r]
  /\ UNCHANGED <<liFile, liUp, liSelf, liCount>>

\* From the return of the ingest to run:completed nothing else of this process
\* runs: maybeAlert awaits nothing.
TickAnnounce(t, r) ==
  /\ liTick[t].pc = "announce"
  /\ liTick[t].run = r
  /\ LET s == liSelf[r]
         keys == AlertKeys(s, r)
         new == IdsAt(r, NewSteps(s, r))
         silent == liUp # "up"
     IN  /\ liSelf' = [liSelf EXCEPT ![r] = [Seen(s, r) EXCEPT
              !.rows = IF silent THEN s.rows ELSE WithRows(s.rows, r, new),
              !.fired = s.fired \union keys]]
         /\ liTold' = [liTold EXCEPT ![r] =
              IF silent THEN Backfill(liTold[r], r)
              ELSE [TellRun(s, liTold[r], r) EXCEPT !.alerts = @ \union keys]]
  /\ liTick' = [liTick EXCEPT ![t].pc = "ingest", ![t].run = "none"]
  /\ UNCHANGED <<liFile, liStore, liUp, liCount>>

\* The end of a tick is one synchronous pass over the store; the silent one
\* arms the timer.
TickArrivals(t) ==
  /\ liTick[t].pc = "ingest"
  /\ liTick[t].todo = {}
  /\ liSelf' = [r \in LiveRuns |->
       LET s == ArrivalsSeen(liSelf[r], r)
       IN  [s EXCEPT !.rows = WithRows(s.rows, r, MoreRows(s, r))]]
  /\ liTold' = [r \in LiveRuns |->
       LET s == ArrivalsSeen(liSelf[r], r)
           told == ArrivalsTold(liSelf[r], liTold[r], r)
       IN  [told EXCEPT !.rows = WithRows(told.rows, r, MoreRows(s, r))]]
  /\ liTick' = [liTick EXCEPT ![t] = TickIdle]
  /\ liUp' = "up"
  /\ UNCHANGED <<liFile, liStore, liCount>>

TickStep(t) ==
  \/ TickStart(t) \/ TickDiscover(t) \/ TickMark(t) \/ TickArrivals(t)
  \/ \E r \in LiveRuns : TickSkip(t, r) \/ TickIngest(t, r) \/ TickAnnounce(t, r)

LiveNext ==
  \/ \E r \in LiveRuns : SessionGrows(r) \/ OtherIngests(r) \/ OtherRewinds(r) \/ OtherRow(r)
  \/ LiveStart \/ LiveStop
  \/ \E t \in LiveTicks : TickStep(t)

LiveSpec == LiveInit /\ [][LiveNext]_liVars

\* The timer goes on, and a tick that began goes on.
LiveFairness == \A t \in LiveTicks : WF_liVars(TickStep(t))

-----------------------------------------------------------------------------
\* However ticks overlap and whoever ingests, a subscriber hears of a run, of
\* each of its steps and of each of its ends at most once, and of nothing that
\* was there when the inspector started.
LiveToldOnce == \A r \in LiveRuns : ~liTold[r].twice

\* And it hears of all of them: every step in the store and every row on it is
\* told in the end, an ingest that throws and a trimmed tail in between or not,
\* unless the tail grew back before any pass saw it gone.
LiveUntold(r) ==
  {id \in AllIds(r) \ liTold[r].hidden :
     id \notin liTold[r].steps \union liTold[r].past \/ liTold[r].rows[id] < RowsOf(r, id)}
LiveAllTold ==
  \A r \in LiveRuns :
    (liUp = "up" /\ LiveUntold(r) # {}) ~> (liUp # "up" \/ LiveUntold(r) = {})

\* "we emit exactly what the own-ingest path would have": a watched call that
\* is told has its alert.
LiveArrivalsAlert ==
  \A r \in LiveRuns : \A n \in Tools(r) :
    liStore[r].steps[n].id \in liTold[r].steps => liStore[r].steps[n].id \in liTold[r].alerts
=============================================================================
