---------------------------- MODULE FileSentinel ----------------------------
(***************************************************************************)
(* The file watcher of `meter watch --files`                               *)
(* (packages/server/src/file_sentinel.ts).  It primes a snapshot of the    *)
(* tree, then collects file events; after a quiet period a flush takes the *)
(* paths that had events, compares each file with the snapshot, advances   *)
(* it, and writes a row for the difference, on the step it guesses.        *)
(* Flushes run one after another, and the files change meanwhile.          *)
(*                                                                         *)
(* Time is relative: a flush takes none, and no tick passes a timer that   *)
(* is due.  The insert itself, with its retry, is in module WatchRows.     *)
(***************************************************************************)
EXTENDS Integers, Sequences, FiniteSets, SequencesExt

CONSTANTS
  SentinelPaths,   \* the files of one directory under the root
  Debounce,        \* debounceMs in ticks
  AttributionWindow,          \* attributionWindowMs in ticks
  MaxFileWrites,       \* bound on the changes to files
  MaxSteps,        \* bound on the steps of the run
  MaxDropped       \* bound on the events the platform reports without a name

ASSUME SentinelConstants ==
  /\ Debounce \in Nat \ {0} /\ AttributionWindow \in Nat
  /\ "dir" \notin SentinelPaths /\ "none" \notin SentinelPaths

VARIABLES
  fsHistory,       \* [SentinelPaths -> the contents the file has had]
  fsSnapshot,      \* [SentinelPaths -> the ref last seen, "oversize" or "absent"]
  fsToPrime,       \* paths the walk has not reached; {} once the watch is on
  fsDelivery,      \* events the platform has not delivered
  fsPending,       \* paths queued for the next flush
  fsSince,         \* age of the oldest of them
  fsTimer,         \* ticks until the flush timer fires, NoTimer if unset
  fsFlush,         \* paths the flush under way has left, and what it has read
  fsSteps,         \* ages of the newest walk step and of the newest synthetic one
  fsRows,          \* the rows written, in order
  fsMissed         \* paths whose change the platform or the priming hid

fsVars == <<fsHistory, fsSnapshot, fsToPrime, fsDelivery, fsPending, fsSince, fsTimer,
            fsFlush, fsSteps, fsRows, fsMissed>>

Dir == "dir"
Sizes == {"a", "b", "big"}             \* two contents and an oversize one
NoTimer == -1
FlushIdle == [todo |-> {}, path |-> "none", gone |-> {}]
Never == AttributionWindow + 1                    \* the age of what is past the window

Now(p) == Last(fsHistory[p])
OnDisk(p) == Now(p) # "absent"
Known(p) == fsSnapshot[p] # "absent"

-----------------------------------------------------------------------------
(* Attribution and the row.                                                *)

\* The step with the highest sequence, which is a synthetic one if the run has
\* any, and only inside the window.
AttributedStep ==
  IF fsSteps.band.n > 0 THEN [kind |-> "band", n |-> fsSteps.band.n, age |-> fsSteps.band.age]
  ELSE [kind |-> "walk", n |-> fsSteps.walk.n, age |-> fsSteps.walk.age]

Attributed == fsSteps.open /\ AttributedStep.n > 0 /\ AttributedStep.age <= AttributionWindow

SentinelRow(p, op, before, after) ==
  LET full == before # "oversize" /\ after # "oversize"
  IN  [path |-> p, op |-> op, full |-> full,
       before |-> IF full THEN before ELSE "stub", after |-> IF full THEN after ELSE "stub",
       step |-> <<AttributedStep.kind, AttributedStep.n>>,
       newest |-> AttributedStep.age <= fsSteps.walk.age]

\* A row of a tool call, or the same change on the same step, wins.
IsDuplicate(row) ==
  \/ <<row.path, row.step>> \in fsSteps.tools
  \/ \E r \in Range(fsRows) :
       <<r.path, r.op, r.step, r.before, r.after>> = <<row.path, row.op, row.step, row.before, row.after>>

InsertChange(p, op, before, after) ==
  LET row == SentinelRow(p, op, before, after)
  IN  fsRows' = IF Attributed /\ ~IsDuplicate(row) THEN Append(fsRows, row) ELSE fsRows

-----------------------------------------------------------------------------
SentinelInit ==
  /\ fsHistory = [p \in SentinelPaths |-> <<"a">>]
  /\ fsSnapshot = [p \in SentinelPaths |-> "absent"]
  /\ fsToPrime = SentinelPaths
  /\ fsDelivery = {}
  /\ fsPending = {}
  /\ fsSince = 0
  /\ fsTimer = NoTimer
  /\ fsFlush = FlushIdle
  /\ fsSteps = [open |-> TRUE, tools |-> {}, walk |-> [n |-> 1, age |-> 0],
                band |-> [n |-> 0, age |-> 0]]
  /\ fsRows = <<>>
  /\ fsMissed = {}

Writes == LET n[S \in SUBSET SentinelPaths] ==
                IF S = {} THEN 0 ELSE LET p == CHOOSE x \in S : TRUE
                                      IN  Len(fsHistory[p]) - 1 + n[S \ {p}]
          IN  n[SentinelPaths]

\* A file is written, removed or replaced: an event, if the watch is on.
FileChanges(p) ==
  /\ Writes < MaxFileWrites
  /\ \E c \in (Sizes \union {"absent"}) \ {Now(p)} :
       fsHistory' = [fsHistory EXCEPT ![p] = Append(@, c)]
  /\ IF fsToPrime # {}
     THEN fsMissed' = fsMissed \union ({p} \ fsToPrime) /\ UNCHANGED fsDelivery
     ELSE fsDelivery' = fsDelivery \union {p} /\ UNCHANGED fsMissed
  /\ UNCHANGED <<fsSnapshot, fsToPrime, fsPending, fsSince, fsTimer, fsFlush, fsSteps, fsRows>>

\* A touch or a chmod is an event as well.
FileTouched(p) ==
  /\ fsToPrime = {} /\ OnDisk(p)
  /\ fsDelivery' = fsDelivery \union {p}
  /\ UNCHANGED <<fsHistory, fsSnapshot, fsToPrime, fsPending, fsSince, fsTimer, fsFlush, fsSteps, fsRows, fsMissed>>

\* The directory is moved away: one event, for the directory.
DirMoves ==
  /\ Writes + Cardinality(SentinelPaths) <= MaxFileWrites
  /\ fsToPrime = {}
  /\ \A p \in SentinelPaths : OnDisk(p)
  /\ fsHistory' = [p \in SentinelPaths |-> Append(fsHistory[p], "absent")]
  /\ fsDelivery' = fsDelivery \union {Dir}
  /\ UNCHANGED <<fsSnapshot, fsToPrime, fsPending, fsSince, fsTimer, fsFlush, fsSteps, fsRows, fsMissed>>

\* Steps are ingested; a synthetic one (hook, admin, checkpoint) has a sequence
\* in a band above all others.
StepArrives ==
  /\ fsSteps.open
  /\ fsSteps.walk.n + fsSteps.band.n < MaxSteps
  /\ \/ fsSteps' = [fsSteps EXCEPT !.walk = [n |-> @.n + 1, age |-> 0]]
     \/ fsSteps' = [fsSteps EXCEPT !.band = [n |-> @.n + 1, age |-> 0]]
     \/ \E p \in SentinelPaths :
          fsSteps' = [fsSteps EXCEPT !.walk = [n |-> @.n + 1, age |-> 0],
                                     !.tools = @ \union {<<p, <<"walk", fsSteps.walk.n + 1>>>>}]
     \/ fsSteps' = [fsSteps EXCEPT !.open = FALSE]
  /\ UNCHANGED <<fsHistory, fsSnapshot, fsToPrime, fsDelivery, fsPending, fsSince, fsTimer, fsFlush, fsRows, fsMissed>>

-----------------------------------------------------------------------------
(* Priming and events.                                                     *)
SnapshotRef(c) == IF c = "big" THEN "oversize" ELSE c

\* The walk takes regular files; what is not one counts as absent.
Prime(p) ==
  /\ p \in fsToPrime
  /\ fsSnapshot' = [fsSnapshot EXCEPT ![p] = SnapshotRef(Now(p))]
  /\ fsToPrime' = fsToPrime \ {p}
  /\ UNCHANGED <<fsHistory, fsDelivery, fsPending, fsSince, fsTimer, fsFlush, fsSteps, fsRows, fsMissed>>

\* An event without a filename is dropped.
EventDropped ==
  /\ Cardinality(fsMissed) < MaxDropped
  /\ \E e \in fsDelivery :
       /\ fsDelivery' = fsDelivery \ {e}
       /\ fsMissed' = fsMissed \union (IF e = Dir THEN SentinelPaths ELSE {e})
  /\ UNCHANGED <<fsHistory, fsSnapshot, fsToPrime, fsPending, fsSince, fsTimer, fsFlush, fsSteps, fsRows>>

\* Mutant of QuietPeriod: every event postpones the flush.
QuietPeriodAlways(age) == Debounce

\* The timer restarts with every event, until the oldest is overdue.
QuietPeriod(age) == IF age >= 4 * Debounce THEN 0 ELSE Debounce

Enqueue ==
  /\ \E e \in fsDelivery :
       /\ fsDelivery' = fsDelivery \ {e}
       /\ fsPending' = fsPending \union {e}
  /\ fsSince' = IF fsPending = {} THEN 0 ELSE fsSince
  /\ fsTimer' = QuietPeriod(fsSince')
  /\ UNCHANGED <<fsHistory, fsSnapshot, fsToPrime, fsFlush, fsSteps, fsRows, fsMissed>>

\* An event is delivered before time passes, a due timer fires, a flush takes
\* no time.
SentinelTick ==
  /\ fsDelivery = {} /\ fsTimer # 0 /\ fsFlush = FlushIdle
  /\ fsTimer' = IF fsTimer = NoTimer THEN NoTimer ELSE fsTimer - 1
  /\ fsSince' = IF fsPending = {} THEN 0 ELSE fsSince + 1
  /\ LET older(step) == [step EXCEPT !.age = IF @ = Never THEN Never ELSE @ + 1]
     IN  fsSteps' = [fsSteps EXCEPT !.walk = older(@), !.band = older(@)]
  /\ UNCHANGED <<fsHistory, fsSnapshot, fsToPrime, fsDelivery, fsPending, fsFlush, fsRows, fsMissed>>

-----------------------------------------------------------------------------
(* The flush.                                                              *)

\* Mutant of AfterBatch: the queue is emptied of all that came since.
EmptyAfterBatch(pending) == {}
AfterBatch(pending) == pending

\* flushBatch takes what is queued; later events are for the next one.
FlushStart ==
  /\ fsTimer = 0 /\ fsFlush = FlushIdle
  /\ fsFlush' = [FlushIdle EXCEPT !.todo = fsPending]
  /\ fsPending' = {}
  /\ fsSince' = 0
  /\ fsTimer' = NoTimer
  /\ UNCHANGED <<fsHistory, fsSnapshot, fsToPrime, fsDelivery, fsSteps, fsRows, fsMissed>>

FlushFree == fsFlush.path = "none" /\ fsFlush.gone = {}
Done(p) == [fsFlush EXCEPT !.todo = @ \ {p}]

\* The last path of the batch ends it.
EndPath(next) ==
  /\ fsFlush' = next
  /\ fsPending' = IF next = FlushIdle THEN AfterBatch(fsPending) ELSE fsPending

\* lstat: a regular file that is not oversize is to be read.
StatFile(p) ==
  /\ FlushFree /\ p \in fsFlush.todo /\ p # Dir
  /\ Now(p) \in {"a", "b"}
  /\ fsFlush' = [Done(p) EXCEPT !.path = p]
  /\ UNCHANGED <<fsHistory, fsSnapshot, fsToPrime, fsDelivery, fsPending, fsSince, fsTimer, fsSteps, fsRows, fsMissed>>

\* Oversize: its existence is known, its change a stub.
StatOversize(p) ==
  /\ FlushFree /\ p \in fsFlush.todo /\ p # Dir
  /\ Now(p) = "big"
  /\ fsSnapshot' = [fsSnapshot EXCEPT ![p] = "oversize"]
  /\ InsertChange(p, IF Known(p) THEN "modify" ELSE "create", fsSnapshot[p], "oversize")
  /\ EndPath(Done(p))
  /\ UNCHANGED <<fsHistory, fsToPrime, fsDelivery, fsSince, fsTimer, fsSteps, fsMissed>>

\* Gone, or not a file any more: a delete of what was known.
StatGone(p) ==
  /\ FlushFree /\ p \in fsFlush.todo /\ p # Dir
  /\ Now(p) = "absent"
  /\ EndPath(IF Known(p) THEN [Done(p) EXCEPT !.gone = {p}] ELSE Done(p))
  /\ UNCHANGED <<fsHistory, fsSnapshot, fsToPrime, fsDelivery, fsSince, fsTimer, fsSteps, fsRows, fsMissed>>

\* The directory: gone with all that was known under it, or there again, which
\* says nothing of its files.
StatDir ==
  /\ FlushFree /\ Dir \in fsFlush.todo
  /\ LET exists == \E p \in SentinelPaths : OnDisk(p)
         known == {p \in SentinelPaths : Known(p)}
     IN  /\ EndPath(IF exists THEN Done(Dir) ELSE [Done(Dir) EXCEPT !.gone = known])
         /\ fsMissed' = IF exists THEN fsMissed \union {p \in known : ~OnDisk(p)} ELSE fsMissed
  /\ UNCHANGED <<fsHistory, fsSnapshot, fsToPrime, fsDelivery, fsSince, fsTimer, fsSteps, fsRows>>

\* Mutant of Forgotten: the snapshot keeps what was deleted.
KeptInSnapshot(p) == fsSnapshot
Forgotten(p) == [fsSnapshot EXCEPT ![p] = "absent"]

HandleDelete(p) ==
  /\ p \in fsFlush.gone
  /\ fsSnapshot' = Forgotten(p)
  /\ InsertChange(p, "delete", fsSnapshot[p], "absent")
  /\ EndPath([fsFlush EXCEPT !.gone = @ \ {p}])
  /\ UNCHANGED <<fsHistory, fsToPrime, fsDelivery, fsSince, fsTimer, fsSteps, fsMissed>>

\* The bytes are those of the read, later than the stat; gone by then is left to
\* the event that follows, and what the snapshot has is no change.
ReadPath(p) ==
  /\ fsFlush.path = p
  /\ IF OnDisk(p) /\ fsSnapshot[p] # Now(p)
     THEN /\ fsSnapshot' = [fsSnapshot EXCEPT ![p] = Now(p)]
          /\ InsertChange(p, IF Known(p) THEN "modify" ELSE "create", fsSnapshot[p], Now(p))
     ELSE UNCHANGED <<fsSnapshot, fsRows>>
  /\ EndPath([fsFlush EXCEPT !.path = "none"])
  /\ UNCHANGED <<fsHistory, fsToPrime, fsDelivery, fsSince, fsTimer, fsSteps, fsMissed>>

SentinelNext ==
  \/ DirMoves \/ StepArrives \/ EventDropped \/ Enqueue \/ SentinelTick
  \/ FlushStart \/ StatDir
  \/ \E p \in SentinelPaths :
       \/ FileChanges(p) \/ FileTouched(p) \/ Prime(p) \/ StatFile(p) \/ StatOversize(p) \/ StatGone(p)
       \/ HandleDelete(p) \/ ReadPath(p)

SentinelSpec == SentinelInit /\ [][SentinelNext]_fsVars

-----------------------------------------------------------------------------
\* Where in a history the change that a row tells can have ended, if it began at a
\* point or later.
Ends(row, h, from) ==
  {j \in DOMAIN h : \E i \in from..(j - 1) : h[i] = row.before /\ h[j] = row.after}

\* The earliest point of p's history by which its full rows fit, after one more row
\* than those that fit by `from`; 0 if they do not.
FitNext(row, p, h, from) ==
  IF row.path # p \/ ~row.full THEN from
  ELSE IF from = 0 \/ Ends(row, h, from) = {} THEN 0
  ELSE CHOOSE j \in Ends(row, h, from) : \A m \in Ends(row, h, from) : j <= m

Fit(rows, p, h) ==
  LET fit[k \in 0..Len(rows)] == IF k = 0 THEN 1 ELSE FitNext(rows[k], p, h, fit[k - 1])
  IN  fit[Len(rows)]

\* "Missed rows, never wrong rows": the full rows of a path, in order, tell
\* stretches of its history that do not overlap -- each goes from a content the
\* file had to one it had later, and starts where or after the one before ends.
SentinelRowsTrue == \A p \in SentinelPaths : Fit(fsRows, p, fsHistory[p]) # 0

\* When all events are processed the snapshot is the tree: no change that the
\* platform reported is left behind, whenever it happened.
SentinelCaughtUp ==
  fsToPrime = {} /\ fsDelivery = {} /\ fsPending = {} /\ fsFlush = FlushIdle =>
    \A p \in SentinelPaths \ fsMissed :
      fsSnapshot[p] = Now(p) \/ <<Now(p), fsSnapshot[p]>> = <<"big", "oversize">>

\* A stream of events does not postpone a flush for ever, and what is queued
\* while a flush is under way has a timer of its own.
SentinelFlushBound == fsSince < 5 * Debounce /\ (fsPending # {} => fsTimer # NoTimer)

\* "A change is attributed to the most recent step."
SentinelMostRecent == \A r \in Range(fsRows) : r.newest
=============================================================================
