---------------------------- MODULE WatchProofs ----------------------------
(***************************************************************************)
(* Proofs about WatchRows: for any stash record, any observed changes and   *)
(* tool_call rows, and any number of drains and sentinels at once; and      *)
(* about FileSentinel, which observes the changes: for any files, any       *)
(* debounce, and any order of changes, events, ticks and flushes.           *)
(***************************************************************************)
EXTENDS WatchRows, FileSentinel, WellFoundedInduction, SequenceTheorems, TLAPS

(***************************************************************************)
(* The table                                                               *)
(***************************************************************************)

(* An INSERT adds its row or leaves the table as it was.                    *)
LEMMA InsertAdds ==
  ASSUME NEW table, NEW row
  PROVE  /\ table \subseteq InsertFileChange(table, row)
         /\ InsertFileChange(table, row) \subseteq table \union {row}
         /\ Inserts(table, row) => row \in InsertFileChange(table, row)
         /\ ~Inserts(table, row) => InsertFileChange(table, row) = table
BY DEF InsertFileChange

(* What the table changes by in a step of the writers: nothing, a row of     *)
(* ingest, or the watch row of a writer's current delta.                    *)
Watched(d, r) == r = WatchRow(d, r.seq)

LEMMA WatchRowFields ==
  ASSUME NEW d, NEW n
  PROVE  /\ WatchRow(d, n).by = "filesystem_watch"
         /\ WatchRow(d, n).step = Step
         /\ WatchRow(d, n).path = d.path
         /\ WatchRow(d, n).op = d.op
         /\ WatchRow(d, n).seq = n
         /\ Watched(d, WatchRow(d, n))
BY DEF WatchRow, Watched

(***************************************************************************)
(* Types                                                                   *)
(***************************************************************************)
Phases == {"idle", "insert", "reread", "again", "done", "failed"}

RowsTypes ==
  /\ stashed \in BOOLEAN
  /\ pc \in [Writers -> Phases]
  /\ saw \in [Writers -> SUBSET rows]
  /\ DOMAIN seq = Writers /\ DOMAIN retry = Writers
  /\ at \in [Writers -> Nat \ {0}]
  /\ \A r \in rows : r.step = Step
  /\ overlapped \in BOOLEAN

LEMMA RowsGrow ==
  ASSUME [RowsNext]_watchVars
  PROVE  rows \subseteq rows'
<1>1. ASSUME NEW w \in Writers, InsertFirst(w) \/ InsertAgain(w) PROVE rows \subseteq rows'
  BY <1>1, InsertAdds DEF InsertFirst, InsertAgain
<1>2. ASSUME NEW w \in Writers,
             ReadExisting(w) \/ SkipRecorded(w) \/ Reread(w) \/ Finish(w) \/ DrainAgain(w) \/ Kill(w)
      PROVE  rows' = rows
  BY <1>2 DEF ReadExisting, SkipRecorded, Reread, Finish, DrainAgain, Kill
<1>3. CASE IngestToolRow
  BY <1>3, InsertAdds DEF IngestToolRow
<1> QED
  BY <1>1, <1>2, <1>3 DEF RowsNext, WriterStep, watchVars, rowVars

(* The rows a writer read are rows still.                                   *)
LEMMA RowsTypesKept == RowsTypes /\ [RowsNext]_watchVars => RowsTypes'
<1> SUFFICES ASSUME RowsTypes, [RowsNext]_watchVars PROVE RowsTypes'
  OBVIOUS
<1>1. rows \subseteq rows'
  BY RowsGrow
<1>2. \A r \in rows' : r.step = Step
  <2>1. ASSUME NEW w \in Writers, InsertFirst(w) \/ InsertAgain(w)
        PROVE  \A r \in rows' : r.step = Step
    BY <2>1, InsertAdds, WatchRowFields DEF InsertFirst, InsertAgain, RowsTypes
  <2>2. ASSUME NEW w \in Writers,
               ReadExisting(w) \/ SkipRecorded(w) \/ Reread(w) \/ Finish(w) \/ DrainAgain(w) \/ Kill(w)
        PROVE  rows' = rows
    BY <2>2 DEF ReadExisting, SkipRecorded, Reread, Finish, DrainAgain, Kill
  <2>3. CASE IngestToolRow
    BY <2>3, InsertAdds, ToolRowsFit DEF IngestToolRow, RowsTypes
  <2> QED
    BY <2>1, <2>2, <2>3 DEF RowsNext, WriterStep, watchVars, rowVars, RowsTypes
<1>3. /\ overlapped' \in BOOLEAN
  BY DEF RowsNext, watchVars, RowsTypes
<1>4. ASSUME NEW w \in Writers, WriterStep(w) \/ Kill(w) PROVE RowsTypes'
  <2>1. /\ pc' \in [Writers -> Phases]
        /\ at' \in [Writers -> Nat \ {0}]
        /\ stashed' \in BOOLEAN
    <3>1. /\ pc \in [Writers -> Phases]
          /\ at \in [Writers -> Nat \ {0}]
          /\ stashed \in BOOLEAN
      BY DEF RowsTypes
    <3>2. \/ pc' = pc \/ \E phase \in Phases : pc' = [pc EXCEPT ![w] = phase]
      BY <1>4 DEF WriterStep, ReadExisting, SkipRecorded, InsertFirst, Reread, InsertAgain, Finish,
                  DrainAgain, Kill, Move, Phases
    <3>3. \/ at' = at \/ at' = [at EXCEPT ![w] = 1] \/ at' = [at EXCEPT ![w] = @ + 1]
      BY <1>4 DEF WriterStep, ReadExisting, SkipRecorded, InsertFirst, Reread, InsertAgain, Finish,
                  DrainAgain, Kill, NextDelta
    <3>4. stashed' = stashed \/ stashed' = (stashed /\ w \notin Drains)
      BY <1>4 DEF WriterStep, ReadExisting, SkipRecorded, InsertFirst, Reread, InsertAgain, Finish,
                  DrainAgain, Kill
    <3>5. pc' \in [Writers -> Phases]
      BY <3>1, <3>2
    <3>6. at' \in [Writers -> Nat \ {0}]
      BY <3>1, <3>3
    <3>7. stashed' \in BOOLEAN
      BY <3>1, <3>4
    <3> QED
      BY <3>5, <3>6, <3>7
  <2>2. /\ saw' \in [Writers -> SUBSET rows']
        /\ DOMAIN seq' = Writers /\ DOMAIN retry' = Writers
    <3>1. saw' = saw \/ saw' = [saw EXCEPT ![w] = ListFileChanges(rows, Step)]
      BY <1>4 DEF WriterStep, ReadExisting, SkipRecorded, InsertFirst, Reread, InsertAgain, Finish,
                  DrainAgain, Kill
    <3>2. ListFileChanges(rows, Step) \in SUBSET rows
      BY DEF ListFileChanges
    <3>3. saw' \in [Writers -> SUBSET rows']
      BY <1>1, <3>1, <3>2 DEF RowsTypes
    <3>4. DOMAIN seq' = Writers /\ DOMAIN retry' = Writers
      BY <1>4 DEF RowsTypes, WriterStep, ReadExisting, SkipRecorded, InsertFirst, Reread,
                  InsertAgain, Finish, DrainAgain, Kill
    <3> QED
      BY <3>3, <3>4
  <2> QED
    BY <1>2, <1>3, <2>1, <2>2 DEF RowsTypes
<1>5. CASE IngestToolRow
  BY <1>1, <1>2, <1>3, <1>5 DEF IngestToolRow, RowsTypes, local
<1>6. CASE UNCHANGED watchVars
  BY <1>6 DEF watchVars, rowVars, local, RowsTypes
<1> QED
  BY <1>4, <1>5, <1>6 DEF RowsNext

LEMMA InitRowsTypes == RowsInit => RowsTypes
<1> SUFFICES ASSUME RowsInit PROVE RowsTypes
  OBVIOUS
<1>1. pc \in [Writers -> Phases] /\ at \in [Writers -> Nat \ {0}]
  BY DEF RowsInit, Phases
<1>2. rows = {} /\ saw \in [Writers -> SUBSET rows]
  BY DEF RowsInit
<1>3. DOMAIN seq = Writers /\ DOMAIN retry = Writers
  BY DEF RowsInit
<1>4. stashed \in BOOLEAN /\ overlapped \in BOOLEAN
  BY DEF RowsInit
<1> QED
  BY <1>1, <1>2, <1>3, <1>4 DEF RowsTypes

(***************************************************************************)
(* The types of the writers and the table.  What a writer read is in the    *)
(* table still: no writer and no ingest removes a row (insertFileChange).   *)
(***************************************************************************)
THEOREM RowsTypeCorrect == RowsSpec => []RowsTypes
BY InitRowsTypes, RowsTypesKept, PTL DEF RowsSpec

(***************************************************************************)
(* Nothing is lost.                                                        *)
(*                                                                         *)
(* UnlinkedMeansRecorded is not inductive: a drain at work must have on    *)
(* the step each delta before the one it is at.  It skipped those it saw   *)
(* recorded, and inserted the others; and no row goes away.                *)
(***************************************************************************)
Recorded(k) ==
  \/ AlreadyRecorded(rows, Deltas[k])
  \/ \E r \in WatchOnly : Watched(Deltas[k], r)

DrainRecords(w) ==
  pc[w] \in {"insert", "reread", "again"} =>
    \A k \in 1..Len(Deltas) : k < at[w] => Recorded(k)

UnlinkInv ==
  /\ ~stashed => \A k \in 1..Len(Deltas) : Recorded(k)
  /\ \A w \in Drains : DrainRecords(w)

(* What is recorded stays recorded.                                         *)
LEMMA RecordedStays ==
  ASSUME rows \subseteq rows', NEW k, Recorded(k) PROVE Recorded(k)'
BY DEF Recorded, AlreadyRecorded, WatchOnly

(* A drain's own step: it moves past a delta only when that is recorded.    *)
LEMMA DrainStepRecords ==
  ASSUME RowsTypes, UnlinkInv, NEW w \in Drains, WriterStep(w) \/ Kill(w), rows \subseteq rows'
  PROVE  DrainRecords(w)' /\ (~stashed' => \A k \in 1..Len(Deltas) : Recorded(k)')
<1>1. /\ w \in Writers /\ Batch(w) = Deltas /\ Len(Deltas) \in Nat
      /\ at[w] \in Nat \ {0} /\ pc[w] \in Phases
      /\ at \in [Writers -> Nat \ {0}] /\ pc \in [Writers -> Phases]
  BY WatchConstants DEF Writers, Batch, RowsTypes
<1>2. \A k \in 1..Len(Deltas) : Recorded(k) => Recorded(k)'
  BY RecordedStays
\* It stays at its delta, or has stopped.
<1>3. CASE /\ stashed' = stashed /\ at' = at
           /\ \/ pc'[w] \notin {"insert", "reread", "again"}
              \/ pc[w] \in {"insert", "reread", "again"}
  BY <1>2, <1>3 DEF UnlinkInv, DrainRecords, Recorded
\* It has moved past one that is recorded now.
<1>4. CASE /\ stashed' = stashed /\ at' = [at EXCEPT ![w] = @ + 1]
           /\ pc[w] \in {"insert", "again"} /\ at[w] <= Len(Deltas)
           /\ \/ AlreadyRecorded(rows', Deltas[at[w]])
              \/ \E r \in WatchOnly' : Watched(Deltas[at[w]], r)
  <2>1. at'[w] = at[w] + 1
    BY <1>1, <1>4
  <2>2. ASSUME NEW k \in 1..Len(Deltas), k < at'[w] PROVE Recorded(k)'
    <3>1. k < at[w] \/ k = at[w]
      BY <1>1, <2>1, <2>2
    <3>2. k < at[w] => Recorded(k)
      BY <1>4 DEF UnlinkInv, DrainRecords
    <3>3. k = at[w] => Recorded(k)'
      BY <1>4 DEF Recorded
    <3> QED
      BY <1>2, <3>1, <3>2, <3>3
  <2> QED
    BY <1>2, <1>4, <2>2 DEF UnlinkInv, DrainRecords, Recorded
<1>5. CASE ReadExisting(w)
  <2>1. at'[w] = 1 /\ stashed' = stashed
    BY <1>1, <1>5 DEF ReadExisting
  <2>2. \A k \in 1..Len(Deltas) : ~(k < 1)
    BY <1>1
  <2> QED
    BY <1>2, <2>1, <2>2 DEF DrainRecords, UnlinkInv
<1>6. CASE SkipRecorded(w)
  <2>1. AlreadyRecorded(rows, Deltas[at[w]])
    <3>1. saw[w] \subseteq rows
      BY <1>1 DEF RowsTypes
    <3> QED
      BY <1>1, <1>6, <3>1 DEF SkipRecorded, AlreadyRecorded, Current
  <2>2. rows' = rows
    BY <1>6 DEF SkipRecorded
  <2> QED
    BY <1>1, <1>4, <1>6, <2>1, <2>2 DEF SkipRecorded, NextDelta
<1>7. ASSUME NEW n, Inserts(rows, WatchRow(Deltas[at[w]], n)),
             rows' = InsertFileChange(rows, WatchRow(Deltas[at[w]], n))
      PROVE  \E r \in WatchOnly' : Watched(Deltas[at[w]], r)
  BY <1>7, InsertAdds, WatchRowFields DEF WatchOnly
<1>8. CASE InsertFirst(w)
  <2> DEFINE row == WatchRow(Deltas[at[w]], seq[w])
  <2>1. /\ pc[w] = "insert" /\ at[w] <= Len(Deltas) /\ stashed' = stashed
        /\ rows' = InsertFileChange(rows, row)
    BY <1>1, <1>8 DEF InsertFirst, Current
  <2>2. CASE Inserts(rows, row)
    <3>1. at' = [at EXCEPT ![w] = @ + 1]
      BY <1>1, <1>8, <2>2 DEF InsertFirst, Current, NextDelta
    <3>2. \E r \in WatchOnly' : Watched(Deltas[at[w]], r)
      BY <1>7, <2>1, <2>2
    <3> QED
      BY <1>4, <2>1, <3>1, <3>2
  <2>3. CASE ~Inserts(rows, row)
    BY <1>1, <1>3, <1>8, <2>1, <2>3 DEF InsertFirst, Current
  <2> QED
    BY <2>2, <2>3
<1>9. CASE InsertAgain(w)
  <2> DEFINE row == WatchRow(Deltas[at[w]], retry[w])
  <2>1. /\ pc[w] = "again" /\ stashed' = stashed
        /\ rows' = InsertFileChange(rows, row)
    BY <1>1, <1>9 DEF InsertAgain, Current
  <2>2. CASE Inserts(rows, row) /\ at[w] <= Len(Deltas)
    <3>1. at' = [at EXCEPT ![w] = @ + 1]
      BY <1>1, <1>9, <2>2 DEF InsertAgain, Current, NextDelta
    <3>2. \E r \in WatchOnly' : Watched(Deltas[at[w]], r)
      BY <1>7, <2>1, <2>2
    <3> QED
      BY <1>4, <2>1, <2>2, <3>1, <3>2
  <2>3. CASE ~Inserts(rows, row)
    BY <1>1, <1>3, <1>9, <2>1, <2>3 DEF InsertAgain, Current, Move
  <2>4. CASE ~(at[w] <= Len(Deltas))
    <3>1. \A k \in 1..Len(Deltas) : Recorded(k)
      BY <1>1, <2>1, <2>4 DEF UnlinkInv, DrainRecords
    <3> QED
      BY <1>2, <3>1 DEF DrainRecords, Recorded
  <2> QED
    BY <2>2, <2>3, <2>4
<1>10. CASE Reread(w) \/ Kill(w) \/ DrainAgain(w)
  BY <1>1, <1>3, <1>10 DEF Reread, Kill, DrainAgain, Move
<1>11. CASE Finish(w)
  <2>1. \A k \in 1..Len(Deltas) : Recorded(k)
    BY <1>1, <1>11 DEF Finish, UnlinkInv, DrainRecords
  <2> QED
    BY <1>2, <2>1 DEF DrainRecords, Recorded
<1> QED
  BY <1>5, <1>6, <1>8, <1>9, <1>10, <1>11 DEF WriterStep

(* Every other writer leaves a drain where it is, and takes nothing away.   *)
LEMMA UnlinkInvKept == RowsTypes /\ UnlinkInv /\ [RowsNext]_watchVars => UnlinkInv'
<1> SUFFICES ASSUME RowsTypes, UnlinkInv, [RowsNext]_watchVars PROVE UnlinkInv'
  OBVIOUS
<1>1. rows \subseteq rows'
  BY RowsGrow
<1>2. \A k \in 1..Len(Deltas) : Recorded(k) => Recorded(k)'
  BY <1>1, RecordedStays
<1>3. ASSUME NEW w \in Writers, WriterStep(w) \/ Kill(w) PROVE UnlinkInv'
  <2>1. \A v \in Writers : v # w => pc'[v] = pc[v] /\ at'[v] = at[v]
    BY <1>3 DEF WriterStep, ReadExisting, SkipRecorded, InsertFirst, Reread, InsertAgain, Finish,
                DrainAgain, Kill, Move, NextDelta, RowsTypes
  <2>2. \A v \in Drains : v # w => DrainRecords(v)'
    BY <1>2, <2>1 DEF UnlinkInv, DrainRecords, Writers
  <2>3. CASE w \in Drains
    BY <1>1, <1>3, <2>2, <2>3, DrainStepRecords DEF UnlinkInv
  <2>4. CASE w \notin Drains
    <3>1. stashed' = stashed
      BY <1>3, <2>4 DEF WriterStep, ReadExisting, SkipRecorded, InsertFirst, Reread, InsertAgain,
                        Finish, DrainAgain, Kill, RowsTypes
    <3> QED
      BY <1>2, <2>2, <2>4, <3>1 DEF UnlinkInv
  <2> QED
    BY <2>3, <2>4
<1>4. CASE IngestToolRow \/ UNCHANGED watchVars
  <2>1. UNCHANGED <<stashed, pc, at>>
    BY <1>4 DEF IngestToolRow, local, watchVars, rowVars
  <2> QED
    BY <1>2, <2>1 DEF UnlinkInv, DrainRecords
<1> QED
  BY <1>3, <1>4 DEF RowsNext

(***************************************************************************)
(* A stash record is unlinked only with each of its deltas on the step,    *)
(* for any record, any number of drains and sentinels at once, any ingest  *)
(* and any kills: drainStash (hook_capture.ts) loses no change.            *)
(***************************************************************************)
THEOREM UnlinkedIsRecorded == RowsSpec => []UnlinkedMeansRecorded
<1>1. RowsInit => UnlinkInv
  BY DEF RowsInit, UnlinkInv, DrainRecords, Writers
<1>2. UnlinkInv => UnlinkedMeansRecorded
  BY DEF UnlinkInv, UnlinkedMeansRecorded, Recorded, Watched
<1> QED
  BY <1>1, <1>2, InitRowsTypes, RowsTypesKept, UnlinkInvKept, PTL DEF RowsSpec

(***************************************************************************)
(* Nothing is recorded twice.                                              *)
(*                                                                         *)
(* capturePost (hook_capture.ts) makes one delta per path.  It may stash a  *)
(* stub with the ref of its one captured side, for a file that grew past    *)
(* the size cap; insertDeltas records the stub without refs, compares the   *)
(* refs when it meets the record again, and so does not know its own row:   *)
(* StubWithRefUnrecognised.  A record of such stubs is out of the theorem.  *)
(***************************************************************************)
OneDeltaPerPath ==
  \A i, j \in 1..Len(Deltas) : Deltas[i].path = Deltas[j].path => i = j

StubsHaveNoRef ==
  \A i \in 1..Len(Deltas) :
    Deltas[i].partial => Deltas[i].before = NoRef /\ Deltas[i].after = NoRef

(* The dedup never takes the row of a stub with a ref for the stub's.       *)
LEMMA StubWithRefUnrecognised ==
  ASSUME NEW d, NEW n, d.partial, ~(d.before = NoRef /\ d.after = NoRef)
  PROVE  ~Supersedes(WatchRow(d, n), d)
BY DEF Supersedes, WatchRow

(* The writer at work is alone.  What is on the step and it did not read    *)
(* are its own rows, of the deltas it is past; and it retries an insert     *)
(* only for a delta it did not find among what it read.                     *)
Own(w, r) == \E k \in 1..Len(Batch(w)) : k < at[w] /\ r.path = Batch(w)[k].path

ReadOrOwn(w) == \A r \in WatchOnly : r \in saw[w] \/ Own(w, r)

RetriesUnrecorded(w) ==
  pc[w] \in {"reread", "again"} =>
    at[w] <= Len(Batch(w)) /\ ~AlreadyRecorded(saw[w], Current(w))

Alone(w) == \A v \in AtWork : v = w

ObservedOnce ==
  /\ OneRowPerChange
  /\ \A w \in AtWork : Alone(w) /\ ReadOrOwn(w) /\ RetriesUnrecorded(w)

ObsInv == overlapped \/ ObservedOnce

LEMMA BatchFacts ==
  ASSUME OneDeltaPerPath, StubsHaveNoRef, NEW w \in Writers
  PROVE  /\ Len(Batch(w)) \in Nat
         /\ \A i, j \in 1..Len(Batch(w)) : Batch(w)[i].path = Batch(w)[j].path => i = j
         /\ \A i \in 1..Len(Batch(w)) :
              Batch(w)[i].partial => Batch(w)[i].before = NoRef /\ Batch(w)[i].after = NoRef
<1>1. CASE w \in Drains
  BY <1>1, WatchConstants DEF Batch, OneDeltaPerPath, StubsHaveNoRef
<1>2. CASE w \notin Drains
  <2>1. w \in Sentinels /\ Batch(w) = <<Observed[w]>>
    BY <1>2 DEF Writers, Batch
  <2>2. Len(Batch(w)) = 1 /\ Batch(w)[1] = Observed[w]
    BY <2>1
  <2>3. Observed[w].partial => Observed[w].before = NoRef /\ Observed[w].after = NoRef
    BY <2>1, WatchConstants
  <2> QED
    BY <2>2, <2>3
<1> QED
  BY <1>1, <1>2

(* The row of a delta that was not read, and is past none of its path, is   *)
(* the only one of its change.                                              *)
LEMMA InsertOfNew ==
  ASSUME OneDeltaPerPath, StubsHaveNoRef, NEW w \in Writers, NEW n,
         at[w] \in Nat, at[w] <= Len(Batch(w)), 0 < at[w],
         OneRowPerChange, ReadOrOwn(w), ~AlreadyRecorded(saw[w], Current(w)),
         rows' = InsertFileChange(rows, WatchRow(Current(w), n))
  PROVE  OneRowPerChange'
<1> DEFINE d == Current(w)
           new == WatchRow(d, n)
<1>1. d.partial => d.before = NoRef /\ d.after = NoRef
  BY BatchFacts DEF Current
<1>2. new.path = d.path /\ new.op = d.op /\ new.before = d.before /\ new.after = d.after
  BY <1>1 DEF WatchRow
<1>3. ASSUME NEW r \in WatchOnly,
             r.path = d.path, r.op = d.op, r.before = d.before, r.after = d.after
      PROVE  FALSE
  <2>1. CASE r \in saw[w]
    BY <1>3, <2>1 DEF AlreadyRecorded, Supersedes, WatchOnly
  <2>2. CASE Own(w, r)
    <3>1. PICK k \in 1..Len(Batch(w)) : k < at[w] /\ r.path = Batch(w)[k].path
      BY <2>2 DEF Own
    <3>2. at[w] \in 1..Len(Batch(w)) /\ Batch(w)[k].path = Batch(w)[at[w]].path
      BY <1>3, <3>1, BatchFacts DEF Current
    <3> QED
      BY <3>1, <3>2, BatchFacts
  <2> QED
    BY <2>1, <2>2 DEF ReadOrOwn
<1>4. WatchOnly' \subseteq WatchOnly \union {new}
  BY InsertAdds DEF WatchOnly
<1> HIDE DEF new, d
<1> QED
  BY <1>2, <1>3, <1>4 DEF OneRowPerChange

(* A writer's own step, alone at work.                                      *)
LEMMA OwnStepOnce ==
  ASSUME OneDeltaPerPath, StubsHaveNoRef, RowsTypes, ObservedOnce,
         NEW w \in Writers, WriterStep(w) \/ Kill(w)
  PROVE  /\ OneRowPerChange'
         /\ w \in AtWork' => ReadOrOwn(w)' /\ RetriesUnrecorded(w)'
         /\ w \in AtWork \/ rows' = rows
<1>1. /\ at \in [Writers -> Nat \ {0}] /\ pc \in [Writers -> Phases]
      /\ saw \in [Writers -> SUBSET rows]
      /\ at[w] \in Nat /\ 0 < at[w] /\ Len(Batch(w)) \in Nat
  BY BatchFacts DEF RowsTypes
<1>2. OneRowPerChange /\ (w \in AtWork => ReadOrOwn(w) /\ RetriesUnrecorded(w))
  BY DEF ObservedOnce
<1>3. CASE ReadExisting(w)
  <2>1. rows' = rows /\ saw'[w] = rows /\ pc'[w] = "insert"
    BY <1>1, <1>3 DEF ReadExisting, ListFileChanges, RowsTypes, Move
  <2> QED
    BY <1>2, <2>1 DEF OneRowPerChange, WatchOnly, ReadOrOwn, RetriesUnrecorded
<1>4. CASE SkipRecorded(w)
  <2>1. /\ rows' = rows /\ saw' = saw /\ pc' = pc /\ pc[w] = "insert" /\ w \in AtWork
        /\ at'[w] = at[w] + 1
    BY <1>1, <1>4 DEF SkipRecorded, NextDelta, AtWork
  <2>2. ASSUME NEW r, Own(w, r) PROVE Own(w, r)'
    BY <1>1, <2>1, <2>2 DEF Own, Batch
  <2> QED
    BY <1>2, <2>1, <2>2 DEF OneRowPerChange, WatchOnly, ReadOrOwn, RetriesUnrecorded
<1>5. ASSUME NEW n, pc[w] \in {"insert", "again"}, saw' = saw,
             at[w] <= Len(Batch(w)), ~AlreadyRecorded(saw[w], Current(w)),
             rows' = InsertFileChange(rows, WatchRow(Current(w), n)),
             IF Inserts(rows, WatchRow(Current(w), n))
             THEN at' = [at EXCEPT ![w] = @ + 1] /\ pc'[w] = "insert"
             ELSE at' = at /\ pc'[w] \in {"reread", "failed"}
      PROVE  OneRowPerChange' /\ w \in AtWork /\ ReadOrOwn(w)' /\ RetriesUnrecorded(w)'
  <2> DEFINE new == WatchRow(Current(w), n)
  <2>1. w \in AtWork
    BY <1>5 DEF AtWork
  <2>2. OneRowPerChange'
    BY <1>1, <1>2, <1>5, <2>1, InsertOfNew
  <2>3. CASE Inserts(rows, new)
    <3>1. at'[w] = at[w] + 1 /\ pc'[w] = "insert"
      BY <1>1, <1>5, <2>3
    <3>2. ASSUME NEW r, Own(w, r) PROVE Own(w, r)'
      BY <1>1, <3>1, <3>2 DEF Own, Batch
    <3>3. at[w] \in 1..Len(Batch(w)) /\ new.path = Batch(w)[at[w]].path
      BY <1>1, <1>5 DEF Current, WatchRow
    <3>4. \E k \in 1..Len(Batch(w)) : k < at'[w] /\ new.path = Batch(w)[k].path
      BY <1>1, <3>1, <3>3
    <3>5. \A r \in WatchOnly' : r \in WatchOnly \/ r = new
      BY <1>5, InsertAdds DEF WatchOnly
    <3> HIDE DEF new
    <3>6. ReadOrOwn(w)'
      BY <1>2, <1>5, <2>1, <3>2, <3>4, <3>5 DEF ReadOrOwn, Own, Batch
    <3> QED
      BY <2>1, <2>2, <3>1, <3>6 DEF RetriesUnrecorded
  <2>4. CASE ~Inserts(rows, new)
    <3>1. rows' = rows /\ at' = at
      BY <1>5, <2>4, InsertAdds
    <3>2. ReadOrOwn(w)' /\ RetriesUnrecorded(w)'
      BY <1>2, <1>5, <2>1, <3>1
         DEF ReadOrOwn, WatchOnly, Own, Batch, RetriesUnrecorded, Current, AlreadyRecorded
    <3> QED
      BY <2>1, <2>2, <3>2
  <2> QED
    BY <2>3, <2>4
<1>6. CASE InsertFirst(w)
  <2>1. /\ pc[w] = "insert" /\ saw' = saw /\ at[w] <= Len(Batch(w))
        /\ ~AlreadyRecorded(saw[w], Current(w))
        /\ rows' = InsertFileChange(rows, WatchRow(Current(w), seq[w]))
    BY <1>6 DEF InsertFirst
  <2>2. IF Inserts(rows, WatchRow(Current(w), seq[w]))
        THEN at' = [at EXCEPT ![w] = @ + 1] /\ pc'[w] = "insert"
        ELSE at' = at /\ pc'[w] \in {"reread", "failed"}
    BY <1>1, <1>6, <2>1 DEF InsertFirst, NextDelta, Move
  <2> QED
    BY <1>5, <2>1, <2>2
<1>7. CASE InsertAgain(w)
  <2>1. /\ pc[w] = "again" /\ saw' = saw
        /\ rows' = InsertFileChange(rows, WatchRow(Current(w), retry[w]))
    BY <1>7 DEF InsertAgain
  <2>2. at[w] <= Len(Batch(w)) /\ ~AlreadyRecorded(saw[w], Current(w))
    BY <1>2, <2>1 DEF AtWork, RetriesUnrecorded
  <2>3. IF Inserts(rows, WatchRow(Current(w), retry[w]))
        THEN at' = [at EXCEPT ![w] = @ + 1] /\ pc'[w] = "insert"
        ELSE at' = at /\ pc'[w] \in {"reread", "failed"}
    BY <1>1, <1>7 DEF InsertAgain, NextDelta, Move
  <2> QED
    BY <1>5, <2>1, <2>2, <2>3
<1>8. CASE Reread(w)
  <2>1. /\ rows' = rows /\ saw' = saw /\ at' = at /\ pc[w] = "reread" /\ w \in AtWork
    BY <1>8 DEF Reread, AtWork
  <2> QED
    BY <1>2, <2>1 DEF OneRowPerChange, ReadOrOwn, WatchOnly, Own, Batch, RetriesUnrecorded, Current,
                      AlreadyRecorded
<1>9. CASE Kill(w) \/ Finish(w) \/ DrainAgain(w)
  <2>1. rows' = rows /\ pc'[w] \notin {"insert", "reread", "again"}
    BY <1>1, <1>9 DEF Kill, Finish, DrainAgain, Move
  <2> QED
    BY <1>2, <2>1 DEF OneRowPerChange, WatchOnly, AtWork
<1> QED
  BY <1>3, <1>4, <1>6, <1>7, <1>8, <1>9 DEF WriterStep

LEMMA ObsInvKept ==
  ASSUME OneDeltaPerPath, StubsHaveNoRef, RowsTypes, ObsInv, [RowsNext]_watchVars
  PROVE  ObsInv'
<1>1. CASE UNCHANGED watchVars
  BY <1>1 DEF watchVars, rowVars, local, ObsInv, ObservedOnce, OneRowPerChange, WatchOnly, AtWork,
              Alone, ReadOrOwn, Own, Batch, RetriesUnrecorded, Current, AlreadyRecorded
<1>2. CASE RowsNext /\ ~overlapped'
  <2>1. ObservedOnce
    BY <1>2 DEF RowsNext, ObsInv
  <2>2. \A w \in AtWork' : AtWork' = {w}
    BY <1>2 DEF RowsNext
  <2>3. \A w \in AtWork' : Alone(w)'
    BY <2>2 DEF Alone
  <2>4. ASSUME NEW w \in Writers, WriterStep(w) \/ Kill(w) PROVE ObservedOnce'
    <3>1. /\ OneRowPerChange'
          /\ w \in AtWork' => ReadOrOwn(w)' /\ RetriesUnrecorded(w)'
          /\ w \in AtWork \/ rows' = rows
      BY <2>1, <2>4, OwnStepOnce
    <3>2. ASSUME NEW v \in Writers, v # w
          PROVE  pc'[v] = pc[v] /\ at'[v] = at[v] /\ saw'[v] = saw[v]
      BY <2>4, <3>2 DEF WriterStep, ReadExisting, SkipRecorded, InsertFirst, Reread, InsertAgain,
                        Finish, DrainAgain, Kill, Move, NextDelta, RowsTypes
    <3>3. ASSUME NEW v \in AtWork', v # w PROVE ReadOrOwn(v)' /\ RetriesUnrecorded(v)'
      <4>1. v \in AtWork
        BY <3>2, <3>3 DEF AtWork
      <4>2. rows' = rows
        BY <2>1, <3>1, <3>3, <4>1 DEF ObservedOnce, Alone
      <4>3. ReadOrOwn(v) /\ RetriesUnrecorded(v)
        BY <2>1, <4>1 DEF ObservedOnce
      <4> QED
        BY <3>2, <3>3, <4>1, <4>2, <4>3
           DEF AtWork, ReadOrOwn, WatchOnly, Own, Batch, RetriesUnrecorded, Current, AlreadyRecorded
    <3> QED
      BY <2>3, <3>1, <3>3 DEF ObservedOnce
  <2>5. CASE IngestToolRow
    <3>1. UNCHANGED <<pc, at, saw>>
      BY <2>5 DEF IngestToolRow, local
    <3>2. WatchOnly' \subseteq WatchOnly
      BY <2>5, InsertAdds, ToolRowsFit DEF IngestToolRow, WatchOnly
    <3> QED
      BY <2>1, <3>1, <3>2 DEF ObsInv, ObservedOnce, OneRowPerChange, AtWork, Alone, ReadOrOwn, Own,
                              Batch, RetriesUnrecorded, Current, AlreadyRecorded
  <2> QED
    BY <1>2, <2>4, <2>5 DEF RowsNext, ObsInv
<1>3. CASE RowsNext /\ overlapped'
  BY <1>3 DEF ObsInv
<1> QED
  BY <1>1, <1>2, <1>3

(***************************************************************************)
(* One observation, one watch row: until two writers are at work at once,  *)
(* however often the record is drained and killed between, and whoever     *)
(* came first, no change is on the step twice, for any record of one delta *)
(* per path whose stubs carry no ref (insertDeltas, insertChange).         *)
(***************************************************************************)
THEOREM ObservationRowsOnce ==
  ASSUME OneDeltaPerPath, StubsHaveNoRef
  PROVE  RowsSpec => []OneRowPerObservation
<1>1. RowsInit => ObsInv
  BY DEF RowsInit, ObsInv, ObservedOnce, OneRowPerChange, WatchOnly, AtWork
<1>2. RowsTypes /\ ObsInv /\ [RowsNext]_watchVars => ObsInv'
  BY ObsInvKept
<1>3. ObsInv => OneRowPerObservation
  BY DEF ObsInv, ObservedOnce, OneRowPerObservation
<1> QED
  BY <1>1, <1>2, <1>3, InitRowsTypes, RowsTypesKept, PTL DEF RowsSpec

(***************************************************************************)
(* The sentinel: types and the timer of its queue                          *)
(***************************************************************************)

Content == Sizes \union {"absent"}
SnapshotOf == Sizes \union {"oversize", "absent"}
Queued == SentinelPaths \union {Dir}

SentinelTypes ==
  /\ fsHistory \in [SentinelPaths -> Seq(Content) \ {<<>>}]
  /\ fsSnapshot \in [SentinelPaths -> SnapshotOf]
  /\ fsToPrime \in SUBSET SentinelPaths
  /\ fsDelivery \in SUBSET Queued /\ fsPending \in SUBSET Queued
  /\ fsFlush \in [todo : SUBSET Queued, path : SentinelPaths \union {"none"},
                  gone : SUBSET SentinelPaths]
  /\ fsMissed \in SUBSET SentinelPaths

(* The queue waits with a timer, and the two do not add up to more than the  *)
(* quiet period that the oldest event still allowed.                       *)
TimerInv ==
  /\ fsSince \in Nat
  /\ fsPending = {} => fsSince = 0
  /\ fsPending # {} => fsTimer \in 0..Debounce /\ fsSince + fsTimer < 5 * Debounce

LEMMA InitTimer == SentinelInit => TimerInv
BY DEF SentinelInit, TimerInv

LEMMA StepTimer == TimerInv /\ [SentinelNext]_fsVars => TimerInv'
<1> SUFFICES ASSUME TimerInv, [SentinelNext]_fsVars PROVE TimerInv'
  OBVIOUS
<1> USE SentinelConstants
<1>0. ASSUME UNCHANGED <<fsPending, fsSince, fsTimer>> PROVE TimerInv'
  BY <1>0 DEF TimerInv
<1>1. CASE DirMoves \/ StepArrives \/ EventDropped
  BY <1>0, <1>1 DEF DirMoves, StepArrives, EventDropped
<1>2. CASE Enqueue
  <2>1. /\ fsPending' # {} /\ fsSince' = (IF fsPending = {} THEN 0 ELSE fsSince)
        /\ fsTimer' = IF fsSince' >= 4 * Debounce THEN 0 ELSE Debounce
    BY <1>2 DEF Enqueue, QuietPeriod
  <2>2. fsSince' \in Nat /\ fsSince' < 5 * Debounce
    BY <2>1 DEF TimerInv
  <2> QED
    BY <2>1, <2>2 DEF TimerInv
<1>3. CASE SentinelTick
  BY <1>3 DEF SentinelTick, TimerInv, NoTimer
<1>4. CASE FlushStart
  BY <1>4 DEF FlushStart, TimerInv
<1>5. CASE StatDir
  BY <1>0, <1>5 DEF StatDir, EndPath, AfterBatch
<1>6. ASSUME NEW p \in SentinelPaths,
             FileChanges(p) \/ FileTouched(p) \/ Prime(p) \/ StatFile(p)
      PROVE  TimerInv'
  BY <1>0, <1>6 DEF FileChanges, FileTouched, Prime, StatFile
<1>7. ASSUME NEW p \in SentinelPaths,
             StatOversize(p) \/ StatGone(p) \/ HandleDelete(p) \/ ReadPath(p)
      PROVE  TimerInv'
  BY <1>0, <1>7 DEF StatOversize, StatGone, HandleDelete, ReadPath, EndPath, AfterBatch
<1>8. CASE UNCHANGED fsVars
  BY <1>0, <1>8 DEF fsVars
<1> QED
  BY <1>1, <1>2, <1>3, <1>4, <1>5, <1>6, <1>7, <1>8 DEF SentinelNext

(***************************************************************************)
(* FlushIsBounded: an event waits for less than five quiet periods however   *)
(* many follow it, and what is queued always has a timer (enqueue,          *)
(* flushBatch).                                                            *)
(***************************************************************************)
THEOREM FlushIsBounded == SentinelSpec => []SentinelFlushBound
<1>1. TimerInv => SentinelFlushBound
  BY SentinelConstants DEF TimerInv, SentinelFlushBound, NoTimer
<1> QED
  BY <1>1, InitTimer, StepTimer, PTL DEF SentinelSpec

(***************************************************************************)
(* Every change is on its way                                              *)
(*                                                                         *)
(* A file whose change no event was lost of is as in the snapshot, or       *)
(* something that leads to it is queued: an event of its own, a read of     *)
(* what is there, a delete of what is not, or an event of its directory.    *)
(***************************************************************************)
Waiting == fsDelivery \union fsPending \union fsFlush.todo

AsSeen(p) == fsSnapshot[p] = Now(p) \/ (Now(p) = "big" /\ fsSnapshot[p] = "oversize")

OnItsWay(p) ==
  \/ AsSeen(p)
  \/ p \in Waiting
  \/ OnDisk(p) /\ fsFlush.path = p
  \/ ~OnDisk(p) /\ (p \in fsFlush.gone \/ Dir \in Waiting)

(* A file that is there again has an event that the deletes of this flush     *)
(* cannot take away, and nothing is flushed before the priming ends.         *)
GoneIsGone(p) == p \in fsFlush.gone /\ OnDisk(p) => p \in Waiting

PrimedFirst ==
  fsToPrime # {} => fsDelivery = {} /\ fsPending = {} /\ fsFlush = FlushIdle

WayInv ==
  /\ PrimedFirst
  /\ \A p \in SentinelPaths \ (fsToPrime \union fsMissed) : OnItsWay(p) /\ GoneIsGone(p)

(* What a file holds now, and after a write.                                *)
LEMMA NowTypes == ASSUME SentinelTypes, NEW p \in SentinelPaths PROVE Now(p) \in Content
BY DEF SentinelTypes, Now, Last

LEMMA WriteTypes ==
  ASSUME NEW h \in Seq(Content) \ {<<>>}, NEW c \in Content
  PROVE  Append(h, c) \in Seq(Content) \ {<<>>} /\ Last(Append(h, c)) = c
BY AppendProperties DEF Last

LEMMA InitWay == SentinelInit => SentinelTypes /\ WayInv
<1> SUFFICES ASSUME SentinelInit PROVE SentinelTypes /\ WayInv
  OBVIOUS
<1>1. fsHistory \in [SentinelPaths -> Seq(Content) \ {<<>>}]
  <2>1. <<"a">> \in Seq(Content) \ {<<>>}
    BY DEF Content, Sizes
  <2> QED
    BY <2>1 DEF SentinelInit
<1>2. fsFlush \in [todo : SUBSET Queued, path : SentinelPaths \union {"none"},
                   gone : SUBSET SentinelPaths]
  BY DEF SentinelInit, FlushIdle
<1>3. SentinelTypes
  BY <1>1, <1>2 DEF SentinelInit, SentinelTypes, SnapshotOf
<1>4. WayInv
  BY DEF SentinelInit, WayInv, PrimedFirst
<1> QED
  BY <1>3, <1>4

(* A step that writes no file, and what it leaves of a file's way.          *)
LEMMA SameFile ==
  ASSUME fsHistory' = fsHistory, NEW p \in SentinelPaths
  PROVE  Now(p)' = Now(p) /\ OnDisk(p)' = OnDisk(p)
BY DEF Now, OnDisk

(* Where no event was lost, a step that leaves snapshot and flush alone and  *)
(* takes no path out of the queues leaves every file on its way.           *)
LEMMA QueueWay ==
  ASSUME WayInv, UNCHANGED <<fsHistory, fsSnapshot, fsToPrime>>,
         fsToPrime # {} => fsDelivery' = {} /\ fsPending' = {} /\ fsFlush' = FlushIdle,
         fsFlush'.path = fsFlush.path, fsFlush'.gone = fsFlush.gone,
         fsMissed \subseteq fsMissed',
         Waiting \subseteq Waiting' \union fsMissed',
         Dir \in Waiting => Dir \in Waiting' \/ SentinelPaths \subseteq fsMissed'
  PROVE  WayInv'
<1>1. PrimedFirst'
  BY DEF PrimedFirst
<1>2. ASSUME NEW p \in SentinelPaths \ (fsToPrime \union fsMissed')
      PROVE  OnItsWay(p)' /\ GoneIsGone(p)'
  <2>1. Now(p)' = Now(p) /\ OnDisk(p)' = OnDisk(p)
    BY SameFile
  <2>2. OnItsWay(p) /\ GoneIsGone(p)
    BY DEF WayInv
  <2>3. AsSeen(p)' <=> AsSeen(p)
    BY <2>1 DEF AsSeen
  <2>4. p \in Waiting => p \in Waiting'
    OBVIOUS
  <2>5. Dir \in Waiting => Dir \in Waiting'
    OBVIOUS
  <2>6. OnItsWay(p)'
    BY <2>1, <2>2, <2>3, <2>4, <2>5 DEF OnItsWay
  <2>7. GoneIsGone(p)'
    BY <2>1, <2>2, <2>4 DEF GoneIsGone
  <2> QED
    BY <2>6, <2>7
<1> QED
  BY <1>1, <1>2 DEF WayInv

(* The flush works on one path, q.                                         *)
FlushRest == UNCHANGED <<fsHistory, fsToPrime, fsDelivery, fsPending>>

LEMMA FlushWay ==
  ASSUME SentinelTypes, WayInv, FlushRest, fsMissed \subseteq fsMissed',
         fsFlush # FlushIdle, NEW q,
         \A p \in SentinelPaths \ {q} : fsSnapshot'[p] = fsSnapshot[p],
         \A p \in Queued \ {q} : p \in fsFlush.todo => p \in fsFlush'.todo,
         \A p \in SentinelPaths \ {q} : fsFlush.path = p => fsFlush'.path = p,
         \A p \in SentinelPaths \ {q} : p \in fsFlush.gone => p \in fsFlush'.gone,
         \A p \in SentinelPaths \ {q} : p \in fsFlush'.gone => p \in fsFlush.gone \/ ~OnDisk(p),
         q \in SentinelPaths \ fsMissed' => OnItsWay(q)' /\ GoneIsGone(q)',
         q = Dir => \A p \in SentinelPaths \ fsMissed' :
                      ~OnDisk(p) => AsSeen(p) \/ p \in fsFlush'.gone
  PROVE  WayInv'
<1>0. fsToPrime = {} /\ PrimedFirst'
  BY DEF WayInv, PrimedFirst, FlushRest
<1> SUFFICES ASSUME NEW p \in SentinelPaths \ fsMissed', p # q
             PROVE  OnItsWay(p)' /\ GoneIsGone(p)'
  BY <1>0 DEF WayInv, FlushRest
<1>1. Now(p)' = Now(p) /\ OnDisk(p)' = OnDisk(p)
  BY SameFile DEF FlushRest
<1>2. OnItsWay(p) /\ GoneIsGone(p)
  BY <1>0 DEF WayInv
<1>3. AsSeen(p) => AsSeen(p)'
  BY <1>1 DEF AsSeen
<1>4. \A x \in Queued \ {q} : x \in Waiting => x \in Waiting'
  BY DEF Waiting, FlushRest
<1>5. OnItsWay(p)'
  <2>1. CASE q = Dir /\ ~OnDisk(p)
    BY <1>1, <1>3, <2>1 DEF OnItsWay
  <2>2. CASE ~(q = Dir /\ ~OnDisk(p))
    BY <1>1, <1>2, <1>3, <1>4, <2>2 DEF OnItsWay, Queued
  <2> QED
    BY <2>1, <2>2
<1>6. GoneIsGone(p)'
  BY <1>1, <1>2, <1>4 DEF GoneIsGone, Queued
<1> QED
  BY <1>5, <1>6

(***************************************************************************)
(* One step                                                                *)
(***************************************************************************)
FlushTypes == [todo : SUBSET Queued, path : SentinelPaths \union {"none"},
               gone : SUBSET SentinelPaths]

LEMMA StepTypes == SentinelTypes /\ [SentinelNext]_fsVars => SentinelTypes'
<1> SUFFICES ASSUME SentinelTypes, [SentinelNext]_fsVars PROVE SentinelTypes'
  OBVIOUS
<1>1. fsHistory' \in [SentinelPaths -> Seq(Content) \ {<<>>}]
  <2>0. CASE UNCHANGED fsHistory
    BY <2>0 DEF SentinelTypes
  <2>1. ASSUME NEW p \in SentinelPaths, FileChanges(p)
        PROVE  fsHistory' \in [SentinelPaths -> Seq(Content) \ {<<>>}]
    <3>1. PICK c \in (Sizes \union {"absent"}) \ {Now(p)} :
            fsHistory' = [fsHistory EXCEPT ![p] = Append(fsHistory[p], c)]
      BY <2>1 DEF FileChanges
    <3>2. Append(fsHistory[p], c) \in Seq(Content) \ {<<>>}
      BY WriteTypes DEF SentinelTypes, Content
    <3> QED
      BY <3>1, <3>2 DEF SentinelTypes
  <2>2. CASE DirMoves
    <3>1. \A p \in SentinelPaths : Append(fsHistory[p], "absent") \in Seq(Content) \ {<<>>}
      BY WriteTypes DEF SentinelTypes, Content
    <3> QED
      BY <2>2, <3>1 DEF DirMoves
  <2>3. CASE UNCHANGED fsVars
    BY <2>0, <2>3 DEF fsVars
  <2> QED
    BY <2>0, <2>1, <2>2, <2>3
    DEF SentinelNext, StepArrives, EventDropped, Enqueue, SentinelTick, FlushStart, StatDir,
        FileTouched, Prime, StatFile, StatOversize, StatGone, HandleDelete, ReadPath
<1>2. fsSnapshot' \in [SentinelPaths -> SnapshotOf]
  <2>0. CASE UNCHANGED fsSnapshot
    BY <2>0 DEF SentinelTypes
  <2>1. ASSUME NEW p \in SentinelPaths, NEW ref \in SnapshotOf,
               fsSnapshot' = [fsSnapshot EXCEPT ![p] = ref]
        PROVE  fsSnapshot' \in [SentinelPaths -> SnapshotOf]
    BY <2>1 DEF SentinelTypes
  <2>2. ASSUME NEW p \in SentinelPaths,
               Prime(p) \/ StatOversize(p) \/ HandleDelete(p) \/ ReadPath(p)
        PROVE  fsSnapshot' \in [SentinelPaths -> SnapshotOf]
    <3>1. Now(p) \in SnapshotOf /\ SnapshotRef(Now(p)) \in SnapshotOf
      BY NowTypes DEF SnapshotRef, SnapshotOf, Content
    <3>2. "oversize" \in SnapshotOf /\ "absent" \in SnapshotOf
      BY DEF SnapshotOf
    <3> QED
      BY <2>0, <2>1, <2>2, <3>1, <3>2
      DEF Prime, StatOversize, HandleDelete, ReadPath, Forgotten
  <2>3. CASE UNCHANGED fsVars
    BY <2>0, <2>3 DEF fsVars
  <2> QED
    BY <2>0, <2>2, <2>3
    DEF SentinelNext, StepArrives, EventDropped, Enqueue, SentinelTick, FlushStart, StatDir,
        DirMoves, FileChanges, FileTouched, StatFile, StatGone
<1>3. fsToPrime' \in SUBSET SentinelPaths
  BY DEF SentinelTypes, SentinelNext, fsVars, StepArrives, EventDropped, Enqueue,
     SentinelTick, FlushStart, StatDir, DirMoves, FileChanges, FileTouched, StatFile, StatGone,
     Prime, StatOversize, HandleDelete, ReadPath
<1>4. fsDelivery' \in SUBSET Queued
  BY DEF SentinelTypes, SentinelNext, fsVars, StepArrives, EventDropped, Enqueue, Queued,
     SentinelTick, FlushStart, StatDir, DirMoves, FileChanges, FileTouched, StatFile, StatGone,
     Prime, StatOversize, HandleDelete, ReadPath
<1>5. fsPending' \in SUBSET Queued
  BY DEF SentinelTypes, SentinelNext, fsVars, StepArrives, EventDropped, Enqueue,
     SentinelTick, FlushStart, StatDir, DirMoves, FileChanges, FileTouched, StatFile, StatGone,
     Prime, StatOversize, HandleDelete, ReadPath, EndPath, AfterBatch
<1>6. fsFlush' \in FlushTypes
  <2>0. CASE UNCHANGED fsFlush
    BY <2>0 DEF SentinelTypes, FlushTypes
  <2>1. CASE FlushStart
    BY <2>1 DEF FlushStart, FlushIdle, SentinelTypes, FlushTypes
  <2>2. CASE StatDir
    <3>1. {p \in SentinelPaths : Known(p)} \in SUBSET SentinelPaths
      OBVIOUS
    <3> QED
      BY <2>2, <3>1 DEF StatDir, EndPath, Done, SentinelTypes, FlushTypes
  <2>3. ASSUME NEW p \in SentinelPaths,
               StatFile(p) \/ StatOversize(p) \/ StatGone(p) \/ HandleDelete(p) \/ ReadPath(p)
        PROVE  fsFlush' \in FlushTypes
    <3>1. /\ Done(p) \in FlushTypes
          /\ [Done(p) EXCEPT !.path = p] \in FlushTypes
          /\ [Done(p) EXCEPT !.gone = {p}] \in FlushTypes
      BY DEF Done, SentinelTypes, FlushTypes
    <3>2. [fsFlush EXCEPT !.path = "none"] \in FlushTypes
      BY DEF SentinelTypes, FlushTypes
    <3>3. [fsFlush EXCEPT !.gone = fsFlush.gone \ {p}] \in FlushTypes
      BY DEF SentinelTypes, FlushTypes
    <3> QED
      BY <2>3, <3>1, <3>2, <3>3
      DEF StatFile, StatOversize, StatGone, HandleDelete, ReadPath, EndPath
  <2>4. CASE UNCHANGED fsVars
    BY <2>0, <2>4 DEF fsVars
  <2> QED
    BY <2>0, <2>1, <2>2, <2>3, <2>4
    DEF SentinelNext, StepArrives, EventDropped, Enqueue, SentinelTick, DirMoves, FileChanges,
        FileTouched, Prime
<1>7. fsMissed' \in SUBSET SentinelPaths
  BY DEF SentinelTypes, SentinelNext, fsVars, StepArrives, EventDropped, Enqueue, Queued,
     SentinelTick, FlushStart, StatDir, DirMoves, FileChanges, FileTouched, StatFile, StatGone,
     Prime, StatOversize, HandleDelete, ReadPath
<1> QED
  BY <1>1, <1>2, <1>3, <1>4, <1>5, <1>6, <1>7 DEF SentinelTypes, FlushTypes

LEMMA StepWay == SentinelTypes /\ WayInv /\ [SentinelNext]_fsVars => WayInv'
<1> SUFFICES ASSUME SentinelTypes, WayInv, [SentinelNext]_fsVars PROVE WayInv'
  OBVIOUS
<1> USE SentinelConstants
<1>1. ASSUME NEW p \in SentinelPaths, FileChanges(p) PROVE WayInv'
  <2>1. fsHistory[p] \in Seq(Content) \ {<<>>}
    BY DEF SentinelTypes
  <2>2. PrimedFirst'
    BY <1>1 DEF FileChanges, WayInv, PrimedFirst
  <2>3. ASSUME NEW x \in SentinelPaths \ (fsToPrime \union fsMissed')
        PROVE  OnItsWay(x)' /\ GoneIsGone(x)'
    <3>1. CASE x = p
      <4>1. x \in Waiting'
        BY <1>1, <2>3, <3>1 DEF FileChanges, Waiting
      <4> QED
        BY <4>1 DEF OnItsWay, GoneIsGone
    <3>2. CASE x # p
      <4>1. Now(x)' = Now(x) /\ OnDisk(x)' = OnDisk(x)
        BY <1>1, <3>2 DEF FileChanges, Now, OnDisk, SentinelTypes
      <4>2. Waiting \subseteq Waiting' /\ UNCHANGED <<fsSnapshot, fsFlush>>
        BY <1>1 DEF FileChanges, Waiting
      <4>3. OnItsWay(x) /\ GoneIsGone(x)
        BY <1>1 DEF WayInv, FileChanges
      <4>4. AsSeen(x)' <=> AsSeen(x)
        BY <4>1, <4>2 DEF AsSeen
      <4>5. OnItsWay(x)'
        BY <4>1, <4>2, <4>3, <4>4 DEF OnItsWay
      <4> QED
        BY <4>1, <4>2, <4>3, <4>5 DEF GoneIsGone
    <3> QED
      BY <3>1, <3>2
  <2>4. fsToPrime' = fsToPrime
    BY <1>1 DEF FileChanges
  <2> QED
    BY <2>2, <2>3, <2>4 DEF WayInv
<1>2. CASE DirMoves
  <2>1. fsToPrime' = {} /\ Dir \in Waiting'
    BY <1>2 DEF DirMoves, Waiting
  <2>2. \A p \in SentinelPaths : ~OnDisk(p)'
    <3> TAKE p \in SentinelPaths
    <3>1. fsHistory'[p] = Append(fsHistory[p], "absent")
      BY <1>2 DEF DirMoves
    <3>2. Last(fsHistory'[p]) = "absent"
      BY <3>1, WriteTypes DEF SentinelTypes, Content
    <3> QED
      BY <3>2 DEF OnDisk, Now
  <2> QED
    BY <2>1, <2>2 DEF WayInv, PrimedFirst, OnItsWay, GoneIsGone
<1>3. ASSUME NEW p \in SentinelPaths, Prime(p) PROVE WayInv'
  <2>1. /\ fsToPrime' = fsToPrime \ {p}
        /\ UNCHANGED <<fsHistory, fsDelivery, fsPending, fsFlush, fsMissed>>
    BY <1>3 DEF Prime
  <2>2. fsToPrime # {} /\ fsFlush = FlushIdle /\ PrimedFirst'
    BY <1>3, <2>1 DEF Prime, WayInv, PrimedFirst
  <2>3. ASSUME NEW x \in SentinelPaths \ (fsToPrime' \union fsMissed')
        PROVE  OnItsWay(x)' /\ GoneIsGone(x)'
    <3>1. Now(x)' = Now(x) /\ OnDisk(x)' = OnDisk(x)
      BY <2>1, SameFile
    <3>2. GoneIsGone(x)'
      BY <2>1, <2>2 DEF GoneIsGone, FlushIdle
    <3>3. CASE x = p
      <4>1. fsSnapshot'[p] = SnapshotRef(Now(p))
        BY <1>3 DEF Prime, SentinelTypes
      <4>2. AsSeen(x)'
        BY <3>1, <3>3, <4>1 DEF SnapshotRef, AsSeen
      <4> QED
        BY <3>2, <4>2 DEF OnItsWay
    <3>4. CASE x # p
      <4>1. fsSnapshot'[x] = fsSnapshot[x]
        BY <1>3, <3>4 DEF Prime, SentinelTypes
      <4>2. OnItsWay(x)
        BY <2>1, <3>4 DEF WayInv
      <4>3. AsSeen(x)' <=> AsSeen(x)
        BY <3>1, <4>1 DEF AsSeen
      <4>4. Waiting' = Waiting
        BY <2>1 DEF Waiting
      <4>5. OnItsWay(x)'
        BY <2>1, <3>1, <4>2, <4>3, <4>4 DEF OnItsWay
      <4> QED
        BY <3>2, <4>5
    <3> QED
      BY <3>3, <3>4
  <2> QED
    BY <2>2, <2>3 DEF WayInv

<1>4. CASE StepArrives \/ SentinelTick \/ UNCHANGED fsVars
  <2>1. UNCHANGED <<fsHistory, fsSnapshot, fsToPrime, fsDelivery, fsPending, fsFlush, fsMissed>>
    BY <1>4 DEF StepArrives, SentinelTick, fsVars
  <2>2. Waiting' = Waiting
    BY <2>1 DEF Waiting
  <2>3. fsToPrime # {} => fsDelivery' = {} /\ fsPending' = {} /\ fsFlush' = FlushIdle
    BY <2>1 DEF WayInv, PrimedFirst
  <2> QED
    BY <2>1, <2>2, <2>3, QueueWay
<1>5. CASE EventDropped
  <2>1. PICK e \in fsDelivery :
          /\ fsDelivery' = fsDelivery \ {e}
          /\ fsMissed' = fsMissed \union (IF e = Dir THEN SentinelPaths ELSE {e})
    BY <1>5 DEF EventDropped
  <2>2. UNCHANGED <<fsHistory, fsSnapshot, fsToPrime, fsPending, fsFlush>>
    BY <1>5 DEF EventDropped
  <2>3. fsToPrime = {}
    BY <2>1 DEF WayInv, PrimedFirst
  <2>4. Waiting \ {e} \subseteq Waiting'
    BY <2>1, <2>2 DEF Waiting
  <2>5. e = Dir \/ e \in SentinelPaths
    BY <2>1 DEF SentinelTypes, Queued
  <2>6. Dir \in Waiting => Dir \in Waiting' \/ SentinelPaths \subseteq fsMissed'
    BY <2>1, <2>4
  <2>7. \A p \in SentinelPaths : p \in Waiting => p \in Waiting' \union fsMissed'
    BY <2>1, <2>4
  <2>8. PrimedFirst'
    BY <2>2, <2>3 DEF PrimedFirst
  <2>9. ASSUME NEW p \in SentinelPaths \ (fsToPrime \union fsMissed')
        PROVE  OnItsWay(p)' /\ GoneIsGone(p)'
    <3>1. Now(p)' = Now(p) /\ OnDisk(p)' = OnDisk(p)
      BY <2>2, SameFile
    <3>2. OnItsWay(p) /\ GoneIsGone(p)
      BY <2>1 DEF WayInv
    <3>3. AsSeen(p)' <=> AsSeen(p)
      BY <2>2, <3>1 DEF AsSeen
    <3>4. OnItsWay(p)'
      BY <2>2, <2>6, <2>7, <3>1, <3>2, <3>3 DEF OnItsWay
    <3> QED
      BY <2>2, <2>7, <3>1, <3>2, <3>4 DEF GoneIsGone
  <2> QED
    BY <2>2, <2>8, <2>9 DEF WayInv
<1>6. CASE Enqueue
  <2>1. PICK e \in fsDelivery : fsDelivery' = fsDelivery \ {e} /\ fsPending' = fsPending \union {e}
    BY <1>6 DEF Enqueue
  <2>2. UNCHANGED <<fsHistory, fsSnapshot, fsToPrime, fsFlush, fsMissed>>
    BY <1>6 DEF Enqueue
  <2>3. fsToPrime = {}
    BY <2>1 DEF WayInv, PrimedFirst
  <2>4. Waiting \subseteq Waiting'
    BY <2>1, <2>2 DEF Waiting
  <2> QED
    BY <2>2, <2>3, <2>4, QueueWay
<1>7. CASE FlushStart
  <2>1. /\ fsFlush = FlushIdle /\ fsFlush' = [FlushIdle EXCEPT !.todo = fsPending]
        /\ UNCHANGED <<fsHistory, fsSnapshot, fsToPrime, fsDelivery, fsMissed>>
        /\ fsPending' = {}
    BY <1>7 DEF FlushStart
  <2>2. fsFlush'.todo = fsPending /\ fsFlush'.path = fsFlush.path /\ fsFlush'.gone = fsFlush.gone
    BY <2>1 DEF FlushIdle
  <2>3. Waiting' = Waiting
    BY <2>1, <2>2 DEF Waiting, FlushIdle
  <2>4. fsToPrime # {} => fsDelivery' = {} /\ fsPending' = {} /\ fsFlush' = FlushIdle
    BY <2>1 DEF WayInv, PrimedFirst, FlushIdle
  <2> QED
    BY <2>1, <2>2, <2>3, <2>4, QueueWay
<1>8. ASSUME NEW p \in SentinelPaths, FileTouched(p) PROVE WayInv'
  <2>1. /\ UNCHANGED <<fsHistory, fsSnapshot, fsToPrime, fsPending, fsFlush, fsMissed>>
        /\ fsToPrime = {}
        /\ fsDelivery' = fsDelivery \union {p}
    BY <1>8 DEF FileTouched
  <2>2. Waiting \subseteq Waiting'
    BY <2>1 DEF Waiting
  <2> QED
    BY <2>1, <2>2, QueueWay

<1>9. CASE StatDir
  <2>1. /\ fsFlush.path = "none" /\ fsFlush.gone = {} /\ Dir \in fsFlush.todo /\ FlushRest
        /\ fsSnapshot' = fsSnapshot
    BY <1>9 DEF StatDir, FlushFree, FlushRest, EndPath, AfterBatch
  <2>0. Dir \notin SentinelPaths
    BY DEF Dir
  <2>2. fsFlush # FlushIdle
    BY <2>1 DEF FlushIdle
  <2>3. Done(Dir).todo = fsFlush.todo \ {Dir} /\ Done(Dir).path = "none" /\ Done(Dir).gone = {}
    BY <2>1 DEF Done, SentinelTypes
  <2>4. CASE \E p \in SentinelPaths : OnDisk(p)
    <3>1. /\ fsFlush' = Done(Dir)
          /\ fsMissed' = fsMissed \union {p \in SentinelPaths : Known(p) /\ ~OnDisk(p)}
      BY <1>9, <2>4 DEF StatDir, EndPath
    <3>2. \A p \in SentinelPaths \ fsMissed' : ~OnDisk(p) => AsSeen(p)
      BY <3>1 DEF AsSeen, Known, OnDisk
    <3> QED
      BY <2>0, <2>1, <2>2, <2>3, <3>1, <3>2, FlushWay
  <2>5. CASE \A p \in SentinelPaths : ~OnDisk(p)
    <3>1. /\ fsFlush' = [Done(Dir) EXCEPT !.gone = {p \in SentinelPaths : Known(p)}]
          /\ fsMissed' = fsMissed
      BY <1>9, <2>5 DEF StatDir, EndPath
    <3>2. /\ fsFlush'.todo = fsFlush.todo \ {Dir} /\ fsFlush'.path = "none"
          /\ fsFlush'.gone = {p \in SentinelPaths : Known(p)}
      BY <2>3, <3>1 DEF Done, SentinelTypes
    <3>3. \A p \in SentinelPaths : AsSeen(p) \/ p \in fsFlush'.gone
      BY <2>5, <3>2 DEF AsSeen, Known, OnDisk
    <3> QED
      BY <2>0, <2>1, <2>2, <2>5, <3>1, <3>2, <3>3, FlushWay
  <2> QED
    BY <2>4, <2>5
<1>10. ASSUME NEW p \in SentinelPaths, StatFile(p) \/ StatOversize(p) \/ StatGone(p) PROVE WayInv'
  <2>1. /\ fsFlush.path = "none" /\ fsFlush.gone = {} /\ p \in fsFlush.todo /\ FlushRest
        /\ fsMissed' = fsMissed
    BY <1>10 DEF StatFile, StatOversize, StatGone, FlushFree, FlushRest, EndPath, AfterBatch
  <2>2. fsFlush # FlushIdle /\ p # Dir
    BY <2>1 DEF FlushIdle, Dir
  <2>3. /\ Done(p).todo = fsFlush.todo \ {p} /\ Done(p).path = "none" /\ Done(p).gone = {}
        /\ [Done(p) EXCEPT !.path = p].todo = fsFlush.todo \ {p}
        /\ [Done(p) EXCEPT !.path = p].path = p
        /\ [Done(p) EXCEPT !.path = p].gone = {}
        /\ [Done(p) EXCEPT !.gone = {p}].todo = fsFlush.todo \ {p}
        /\ [Done(p) EXCEPT !.gone = {p}].path = "none"
        /\ [Done(p) EXCEPT !.gone = {p}].gone = {p}
    BY <2>1 DEF Done, SentinelTypes
  <2>4. Now(p)' = Now(p) /\ OnDisk(p)' = OnDisk(p)
    BY <2>1, SameFile DEF FlushRest
  <2>5. CASE StatFile(p)
    <3>1. fsFlush' = [Done(p) EXCEPT !.path = p] /\ fsSnapshot' = fsSnapshot /\ OnDisk(p)
      BY <2>5 DEF StatFile, OnDisk
    <3>2. OnItsWay(p)' /\ GoneIsGone(p)'
      BY <2>3, <2>4, <3>1 DEF OnItsWay, GoneIsGone
    <3> QED
      BY <2>1, <2>2, <2>3, <3>1, <3>2, FlushWay
  <2>6. CASE StatOversize(p)
    <3>1. /\ fsFlush' = Done(p) /\ fsSnapshot' = [fsSnapshot EXCEPT ![p] = "oversize"]
          /\ Now(p) = "big"
      BY <2>6 DEF StatOversize, EndPath
    <3>2. \A x \in SentinelPaths \ {p} : fsSnapshot'[x] = fsSnapshot[x]
      BY <3>1 DEF SentinelTypes
    <3>3. AsSeen(p)'
      BY <2>4, <3>1 DEF AsSeen, SentinelTypes
    <3>4. OnItsWay(p)' /\ GoneIsGone(p)'
      BY <2>3, <3>1, <3>3 DEF OnItsWay, GoneIsGone
    <3> QED
      BY <2>1, <2>2, <2>3, <3>1, <3>2, <3>4, FlushWay
  <2>7. CASE StatGone(p)
    <3>1. /\ fsSnapshot' = fsSnapshot /\ ~OnDisk(p)
          /\ fsFlush' = IF Known(p) THEN [Done(p) EXCEPT !.gone = {p}] ELSE Done(p)
      BY <2>7 DEF StatGone, EndPath, OnDisk
    <3>2. AsSeen(p)' \/ p \in fsFlush'.gone
      BY <2>3, <2>4, <3>1 DEF AsSeen, Known, OnDisk
    <3>3. OnItsWay(p)' /\ GoneIsGone(p)'
      BY <2>4, <3>1, <3>2 DEF OnItsWay, GoneIsGone
    <3>4. /\ fsFlush'.todo = fsFlush.todo \ {p} /\ fsFlush'.path = "none"
          /\ fsFlush'.gone \subseteq {p}
      BY <2>3, <3>1
    <3> QED
      BY <2>1, <2>2, <3>1, <3>3, <3>4, FlushWay
  <2> QED
    BY <1>10, <2>5, <2>6, <2>7
<1>11. ASSUME NEW p \in SentinelPaths, HandleDelete(p) PROVE WayInv'
  <2>1. /\ p \in fsFlush.gone /\ FlushRest /\ fsMissed' = fsMissed
        /\ fsFlush' = [fsFlush EXCEPT !.gone = fsFlush.gone \ {p}]
        /\ fsSnapshot' = [fsSnapshot EXCEPT ![p] = "absent"]
    BY <1>11 DEF HandleDelete, FlushRest, EndPath, AfterBatch, Forgotten
  <2>2. fsFlush # FlushIdle /\ p # Dir
    BY <2>1 DEF FlushIdle, Dir
  <2>3. fsFlush'.todo = fsFlush.todo /\ fsFlush'.path = fsFlush.path
        /\ fsFlush'.gone = fsFlush.gone \ {p}
    BY <2>1 DEF SentinelTypes
  <2>4. \A x \in SentinelPaths \ {p} : fsSnapshot'[x] = fsSnapshot[x]
    BY <2>1 DEF SentinelTypes
  <2>5. Now(p)' = Now(p) /\ OnDisk(p)' = OnDisk(p)
    BY <2>1, SameFile DEF FlushRest
  <2>6. p \in SentinelPaths \ fsMissed => OnItsWay(p)' /\ GoneIsGone(p)'
    <3> SUFFICES ASSUME p \in SentinelPaths \ fsMissed PROVE OnItsWay(p)' /\ GoneIsGone(p)'
      OBVIOUS
    <3>1. GoneIsGone(p)'
      BY <2>3 DEF GoneIsGone
    <3>2. CASE OnDisk(p)
      <4>1. p \in Waiting
        BY <2>1, <2>2, <3>2 DEF WayInv, PrimedFirst, GoneIsGone
      <4>2. p \in Waiting'
        BY <2>1, <2>3, <4>1 DEF Waiting, FlushRest
      <4> QED
        BY <3>1, <4>2 DEF OnItsWay
    <3>3. CASE ~OnDisk(p)
      <4>1. AsSeen(p)'
        BY <2>1, <2>5, <3>3 DEF AsSeen, OnDisk, SentinelTypes
      <4> QED
        BY <3>1, <4>1 DEF OnItsWay
    <3> QED
      BY <3>2, <3>3
  <2> QED
    BY <2>1, <2>2, <2>3, <2>4, <2>6, FlushWay
<1>12. ASSUME NEW p \in SentinelPaths, ReadPath(p) PROVE WayInv'
  <2>1. /\ fsFlush.path = p /\ FlushRest /\ fsMissed' = fsMissed
        /\ fsFlush' = [fsFlush EXCEPT !.path = "none"]
        /\ fsSnapshot' = IF OnDisk(p) /\ fsSnapshot[p] # Now(p)
                         THEN [fsSnapshot EXCEPT ![p] = Now(p)] ELSE fsSnapshot
    BY <1>12 DEF ReadPath, FlushRest, EndPath, AfterBatch
  <2>2. fsFlush # FlushIdle /\ p # Dir
    BY <2>1 DEF FlushIdle, Dir
  <2>3. fsFlush'.todo = fsFlush.todo /\ fsFlush'.gone = fsFlush.gone
    BY <2>1 DEF SentinelTypes
  <2>4. \A x \in SentinelPaths \ {p} : fsSnapshot'[x] = fsSnapshot[x]
    BY <2>1 DEF SentinelTypes
  <2>5. Now(p)' = Now(p) /\ OnDisk(p)' = OnDisk(p) /\ Waiting' = Waiting
    BY <2>1, <2>3, SameFile DEF FlushRest, Waiting
  <2>6. p \in SentinelPaths \ fsMissed => OnItsWay(p)' /\ GoneIsGone(p)'
    <3> SUFFICES ASSUME p \in SentinelPaths \ fsMissed PROVE OnItsWay(p)' /\ GoneIsGone(p)'
      OBVIOUS
    <3>1. OnItsWay(p) /\ GoneIsGone(p)
      BY <2>2 DEF WayInv, PrimedFirst
    <3>2. GoneIsGone(p)'
      BY <2>3, <2>5, <3>1 DEF GoneIsGone
    <3>3. CASE OnDisk(p)
      <4>1. AsSeen(p)'
        BY <2>1, <2>5, <3>3 DEF AsSeen, SentinelTypes
      <4> QED
        BY <3>2, <4>1 DEF OnItsWay
    <3>4. CASE ~OnDisk(p)
      <4>1. AsSeen(p)' <=> AsSeen(p)
        BY <2>1, <2>5, <3>4 DEF AsSeen
      <4>2. OnItsWay(p)'
        BY <2>3, <2>5, <3>1, <3>4, <4>1 DEF OnItsWay
      <4> QED
        BY <3>2, <4>2
    <3> QED
      BY <3>3, <3>4
  <2>7. \A x \in SentinelPaths \ {p} : fsFlush.path # x
    BY <2>1
  <2> QED
    BY <2>1, <2>2, <2>3, <2>4, <2>6, <2>7, FlushWay
<1> QED
  BY <1>1, <1>2, <1>3, <1>4, <1>5, <1>6, <1>7, <1>8, <1>9, <1>10, <1>11, <1>12
  DEF SentinelNext

(***************************************************************************)
(* EveryChangeIsSeen: once the events are processed, the snapshot is the     *)
(* tree but for the files the platform said nothing of (handlePath,         *)
(* handleDelete, handleModify, prime).                                     *)
(***************************************************************************)
THEOREM EveryChangeIsSeen == SentinelSpec => []SentinelCaughtUp
<1>1. SentinelTypes /\ WayInv => SentinelCaughtUp
  <2> SUFFICES ASSUME SentinelTypes, WayInv,
                      fsToPrime = {}, fsDelivery = {}, fsPending = {}, fsFlush = FlushIdle,
                      NEW p \in SentinelPaths \ fsMissed
               PROVE  AsSeen(p)
    BY DEF SentinelCaughtUp, AsSeen
  <2>1. Waiting = {}
    BY DEF Waiting, FlushIdle
  <2>2. fsFlush.path # p /\ p \notin fsFlush.gone
    BY SentinelConstants DEF FlushIdle
  <2> QED
    BY <2>1, <2>2 DEF WayInv, OnItsWay
<1> QED
  BY <1>1, InitWay, StepTypes, StepWay, PTL DEF SentinelSpec

(***************************************************************************)
(* Rows are true                                                           *)
(*                                                                         *)
(* The full rows of a path fit its history up to some point, and what the   *)
(* snapshot has of it was there at that point or later: so the next row,     *)
(* from the snapshot to what is read now, fits too.                         *)
(***************************************************************************)
LEMMA LeastNumber ==
  ASSUME NEW S, S \subseteq Nat, S # {}
  PROVE  \E least \in S : \A m \in S : least <= m
<1> DEFINE R == {ss \in Nat \X Nat : ss[1] < ss[2]}
<1>1. IsWellFoundedOn(R, Nat)
  BY NatLessThanWellFounded DEF OpToRel
<1> HIDE DEF R
<1>2. PICK least \in S : \A m \in S : <<m, least>> \notin R
  BY <1>1, WFMin
<1>3. ASSUME NEW m \in S PROVE least <= m
  <2>1. <<m, least>> \in Nat \X Nat /\ <<m, least>> \notin R
    BY <1>2
  <2>2. ~ (m < least)
    BY <2>1 DEF R
  <2> QED
    BY <2>2
<1> QED
  BY <1>3

LEMMA LeastChosen ==
  ASSUME NEW S, S \subseteq Nat, NEW least \in S, \A m \in S : least <= m
  PROVE  (CHOOSE e \in S : \A m \in S : e <= m) = least
<1> DEFINE chosen == CHOOSE e \in S : \A m \in S : e <= m
<1>1. chosen \in S /\ \A m \in S : chosen <= m
  OBVIOUS
<1> HIDE DEF chosen
<1>2. chosen <= least /\ least <= chosen /\ chosen \in Nat /\ least \in Nat
  BY <1>1
<1>3. chosen = least
  BY <1>2
<1> QED
  BY <1>3 DEF chosen

(* The first k rows fit by fit[k].                                          *)
IsFit(fit, told, p, h) ==
  fit = [k \in 0..Len(told) |-> IF k = 0 THEN 1 ELSE FitNext(told[k], p, h, fit[k - 1])]

FitsBy(told, p, h, upTo) ==
  \E fit : /\ IsFit(fit, told, p, h) /\ fit[Len(told)] = upTo
           /\ \A k \in 0..Len(told) : fit[k] \in DOMAIN h

(* Rows that fit at all are what Fit says: the recursion has one solution.     *)
LEMMA FitsByIsFit ==
  ASSUME NEW told, Len(told) \in Nat, NEW p, NEW h \in Seq(Content), NEW upTo, FitsBy(told, p, h, upTo)
  PROVE  Fit(told, p, h) # 0
<1>1. PICK fit : /\ IsFit(fit, told, p, h)
                 /\ \A k \in 0..Len(told) : fit[k] \in DOMAIN h
  BY DEF FitsBy
<1> DEFINE other == CHOOSE f : IsFit(f, told, p, h)
<1>2. IsFit(other, told, p, h)
  BY <1>1
<1>3. Fit(told, p, h) = other[Len(told)]
  BY DEF Fit, IsFit
<1> HIDE DEF other
<1>4. ASSUME NEW k \in 0..Len(told), fit[k] # other[k] PROVE FALSE
  <2> DEFINE S == {n \in 0..Len(told) : fit[n] # other[n]}
  <2>0. k \in S /\ S \subseteq Nat
    BY <1>4
  <2>1. PICK n \in S : \A m \in S : n <= m
    BY <2>0, LeastNumber
  <2>2. CASE n = 0
    BY <1>1, <1>2, <2>1, <2>2 DEF IsFit
  <2>3. CASE n # 0
    <3>1. n \in 0..Len(told) /\ n - 1 \in 0..Len(told) /\ n - 1 \notin S
      BY <2>1, <2>3
    <3>2. fit[n] = FitNext(told[n], p, h, fit[n - 1])
      BY <1>1, <2>3, <3>1 DEF IsFit
    <3>3. other[n] = FitNext(told[n], p, h, other[n - 1])
      BY <1>2, <2>3, <3>1 DEF IsFit
    <3> QED
      BY <2>1, <3>1, <3>2, <3>3
  <2> QED
    BY <2>2, <2>3
<1>5. Len(told) \in 0..Len(told)
  OBVIOUS
<1>6. fit[Len(told)] = other[Len(told)] /\ fit[Len(told)] \in DOMAIN h
  BY <1>1, <1>4, <1>5
<1> QED
  BY <1>3, <1>6

LEMMA NoRowsFit ==
  ASSUME NEW p, NEW h \in Seq(Content) \ {<<>>} PROVE FitsBy(<<>>, p, h, 1)
<1> DEFINE fit == [k \in 0..0 |-> 1]
<1>1. IsFit(fit, <<>>, p, h)
  BY DEF IsFit
<1>2. 1 \in DOMAIN h
  OBVIOUS
<1> QED
  BY <1>1, <1>2 DEF FitsBy

(* A row is told from a point that the history had to a later one.           *)
LEMMA FitNextFits ==
  ASSUME NEW h \in Seq(Content), NEW upTo \in DOMAIN h, NEW j \in upTo..Len(h),
         NEW p, NEW row,
         row.path = p /\ row.full => h[j] = row.after /\ \E i \in upTo..(j - 1) : h[i] = row.before
  PROVE  FitNext(row, p, h, upTo) \in DOMAIN h /\ FitNext(row, p, h, upTo) <= j
<1>1. CASE row.path # p \/ ~row.full
  BY <1>1 DEF FitNext
<1>2. CASE row.path = p /\ row.full
  <2> DEFINE E == Ends(row, h, upTo)
  <2>1. j \in E /\ E \subseteq DOMAIN h /\ DOMAIN h \subseteq Nat /\ upTo # 0
    BY <1>2 DEF Ends
  <2>2. PICK e \in E : \A m \in E : e <= m
    BY <2>1, LeastNumber
  <2>3. FitNext(row, p, h, upTo) = CHOOSE e1 \in E : \A m \in E : e1 <= m
    BY <1>2, <2>1 DEF FitNext
  <2> HIDE DEF E
  <2>4. /\ FitNext(row, p, h, upTo) \in E
        /\ \A m \in E : FitNext(row, p, h, upTo) <= m
    BY <2>2, <2>3
  <2> QED
    BY <2>1, <2>4
<1> QED
  BY <1>1, <1>2

LEMMA FitsAppend ==
  ASSUME NEW S, NEW told \in Seq(S), NEW row, NEW p, NEW h \in Seq(Content), NEW upTo \in DOMAIN h,
         FitsBy(told, p, h, upTo), FitNext(row, p, h, upTo) \in DOMAIN h
  PROVE  FitsBy(Append(told, row), p, h, FitNext(row, p, h, upTo))
<1>1. PICK fit : /\ IsFit(fit, told, p, h) /\ fit[Len(told)] = upTo
                 /\ \A k \in 0..Len(told) : fit[k] \in DOMAIN h
  BY DEF FitsBy
<1> DEFINE n == Len(told)
           longer == Append(told, row)
           next == FitNext(row, p, h, upTo)
           fit2 == [k \in 0..(n + 1) |-> IF k = n + 1 THEN next ELSE fit[k]]
<1>2. /\ Len(longer) = n + 1 /\ n \in Nat
      /\ \A k \in 1..n : longer[k] = told[k]
      /\ longer[n + 1] = row
  <2>1. told \in Seq(S \union {row}) /\ row \in S \union {row}
    OBVIOUS
  <2> QED
    BY <2>1, AppendProperties
<1>3. ASSUME NEW k \in 0..(n + 1)
      PROVE  fit2[k] = IF k = 0 THEN 1 ELSE FitNext(longer[k], p, h, fit2[k - 1])
  <2>1. CASE k = 0
    BY <1>1, <1>2, <2>1 DEF IsFit
  <2>2. CASE k \in 1..n
    <3>0. k \in 0..Len(told) /\ k # 0
      BY <1>2, <2>2
    <3>1. fit[k] = FitNext(told[k], p, h, fit[k - 1])
      BY <1>1, <3>0 DEF IsFit
    <3> QED
      BY <1>2, <2>2, <3>1
  <2>3. CASE k = n + 1
    BY <1>1, <1>2, <2>3
  <2> QED
    BY <1>2, <2>1, <2>2, <2>3
<1>4. IsFit(fit2, longer, p, h)
  <2>1. Len(longer) = n + 1 /\ fit2 = [k \in 0..(n + 1) |-> fit2[k]]
    BY <1>2
  <2> HIDE DEF fit2, longer
  <2> QED
    BY <1>3, <2>1 DEF IsFit
<1>5. fit2[Len(longer)] = next /\ \A k \in 0..Len(longer) : fit2[k] \in DOMAIN h
  BY <1>1, <1>2
<1> QED
  BY <1>4, <1>5 DEF FitsBy

(* A file that is written again has the points it had.                       *)
LEMMA FitsLonger ==
  ASSUME NEW told, Len(told) \in Nat, NEW p, NEW h \in Seq(Content), NEW c \in Content, NEW upTo \in DOMAIN h,
         FitsBy(told, p, h, upTo)
  PROVE  FitsBy(told, p, Append(h, c), upTo)
<1>1. PICK fit : /\ IsFit(fit, told, p, h) /\ fit[Len(told)] = upTo
                 /\ \A k \in 0..Len(told) : fit[k] \in DOMAIN h
  BY DEF FitsBy
<1> DEFINE h2 == Append(h, c)
<1>2. /\ h2 \in Seq(Content) /\ Len(h2) = Len(h) + 1 /\ DOMAIN h = 1..Len(h) /\ DOMAIN h2 = 1..Len(h2)
      /\ \A i \in DOMAIN h : h2[i] = h[i]
  BY AppendProperties
<1> HIDE DEF h2
<1>3. ASSUME NEW from \in DOMAIN h, NEW row, FitNext(row, p, h, from) \in DOMAIN h
      PROVE  FitNext(row, p, h2, from) = FitNext(row, p, h, from)
  <2>1. CASE row.path # p \/ ~row.full
    BY <2>1 DEF FitNext
  <2>2. CASE row.path = p /\ row.full
    <3> DEFINE E == Ends(row, h, from)
               E2 == Ends(row, h2, from)
    <3>1. E # {} /\ from # 0 /\ E \subseteq Nat
      BY <1>2, <1>3, <2>2 DEF FitNext, Ends
    <3>2. PICK e \in E : \A m \in E : e <= m
      BY <3>1, LeastNumber
    <3>3. \A j \in DOMAIN h : j \in E2 <=> j \in E
      <4> SUFFICES ASSUME NEW j \in DOMAIN h PROVE j \in E2 <=> j \in E
        OBVIOUS
      <4>1. h2[j] = h[j] /\ j \in DOMAIN h2 /\ \A i \in from..(j - 1) : h2[i] = h[i]
        BY <1>2
      <4> QED
        BY <4>1 DEF Ends
    <3>4. E \subseteq DOMAIN h /\ E2 \subseteq DOMAIN h2
      BY DEF Ends
    <3>5. e \in E2 /\ \A m \in E2 : e <= m
      BY <1>2, <3>2, <3>3, <3>4
    <3>6. /\ FitNext(row, p, h, from) = CHOOSE e1 \in E : \A m \in E : e1 <= m
          /\ FitNext(row, p, h2, from) = CHOOSE e1 \in E2 : \A m \in E2 : e1 <= m
      BY <2>2, <3>1, <3>5 DEF FitNext
    <3> HIDE DEF E, E2
    <3>7. E \subseteq Nat /\ E2 \subseteq Nat
      BY <1>2, <3>4
    <3>8. (CHOOSE e1 \in E : \A m \in E : e1 <= m) = e
      BY <3>2, <3>7, LeastChosen
    <3>9. (CHOOSE e1 \in E2 : \A m \in E2 : e1 <= m) = e
      BY <3>5, <3>7, LeastChosen
    <3> QED
      BY <3>6, <3>8, <3>9
  <2> QED
    BY <2>1, <2>2
<1>4. IsFit(fit, told, p, h2)
  <2>1. ASSUME NEW k \in 0..Len(told), k # 0
        PROVE  FitNext(told[k], p, h, fit[k - 1]) = FitNext(told[k], p, h2, fit[k - 1])
    <3>1. fit[k - 1] \in DOMAIN h /\ fit[k] \in DOMAIN h
      BY <1>1, <2>1
    <3>2. fit[k] = FitNext(told[k], p, h, fit[k - 1])
      BY <1>1, <2>1 DEF IsFit
    <3> QED
      BY <1>3, <3>1, <3>2
  <2> QED
    BY <1>1, <2>1 DEF IsFit
<1>5. \A k \in 0..Len(told) : fit[k] \in DOMAIN h2
  BY <1>1, <1>2
<1> QED
  BY <1>1, <1>4, <1>5 DEF FitsBy, h2

(* What the snapshot has was there at a point of the history or later; what a    *)
(* flush found gone was gone after that.                                    *)
SeenFrom(p, upTo) ==
  \E i \in upTo..Len(fsHistory[p]) : fsSnapshot[p] \in {"oversize", fsHistory[p][i]}

GoneFrom(p, upTo) ==
  \E j \in upTo..Len(fsHistory[p]) :
    /\ fsHistory[p][j] = "absent"
    /\ fsSnapshot[p] = "oversize" \/ \E i \in upTo..(j - 1) : fsHistory[p][i] = fsSnapshot[p]

NextFits(p, upTo) ==
  /\ p \notin fsToPrime => SeenFrom(p, upTo)
  /\ p \in fsFlush.gone => GoneFrom(p, upTo)

RowsFit(p) ==
  \E upTo \in DOMAIN fsHistory[p] : FitsBy(fsRows, p, fsHistory[p], upTo) /\ NextFits(p, upTo)

TrueInv ==
  /\ \E S : fsRows \in Seq(S)
  /\ fsFlush.path # "none" => fsFlush.gone = {}
  /\ \A p \in SentinelPaths : RowsFit(p)

LEMMA HistoryIs ==
  ASSUME SentinelTypes, NEW p \in SentinelPaths
  PROVE  /\ fsHistory[p] \in Seq(Content) \ {<<>>} /\ Len(fsHistory[p]) \in Nat \ {0}
         /\ DOMAIN fsHistory[p] = 1..Len(fsHistory[p]) /\ Now(p) = fsHistory[p][Len(fsHistory[p])]
<1>1. fsHistory[p] \in Seq(Content) \ {<<>>}
  BY DEF SentinelTypes
<1> QED
  BY <1>1 DEF Now, Last

LEMMA InitTrue == SentinelInit => TrueInv
<1> SUFFICES ASSUME SentinelInit PROVE TrueInv
  OBVIOUS
<1>1. fsRows = <<>> /\ fsRows \in Seq({})
  BY DEF SentinelInit
<1>2. fsFlush.path = "none" /\ fsFlush.gone = {}
  BY DEF SentinelInit, FlushIdle
<1>3. ASSUME NEW p \in SentinelPaths PROVE RowsFit(p)
  <2>1. fsHistory[p] \in Seq(Content) \ {<<>>} /\ 1 \in DOMAIN fsHistory[p]
    BY DEF SentinelInit, Content, Sizes
  <2>2. FitsBy(fsRows, p, fsHistory[p], 1)
    BY <1>1, <2>1, NoRowsFit
  <2>3. NextFits(p, 1)
    BY <1>2 DEF SentinelInit, NextFits
  <2> QED
    BY <2>1, <2>2, <2>3 DEF RowsFit
<1> QED
  BY <1>1, <1>2, <1>3 DEF TrueInv

(* A step that leaves a path alone, or only writes its file.                  *)
LEMMA RowsFitStay ==
  ASSUME NEW p \in SentinelPaths, RowsFit(p), UNCHANGED <<fsRows, fsHistory>>,
         fsSnapshot'[p] = fsSnapshot[p],
         p \notin fsToPrime' => p \notin fsToPrime, p \in fsFlush'.gone => p \in fsFlush.gone
  PROVE  RowsFit(p)'
<1>1. PICK upTo \in DOMAIN fsHistory[p] :
        FitsBy(fsRows, p, fsHistory[p], upTo) /\ NextFits(p, upTo)
  BY DEF RowsFit
<1>2. NextFits(p, upTo)'
  BY <1>1 DEF NextFits, SeenFrom, GoneFrom
<1>3. FitsBy(fsRows, p, fsHistory[p], upTo)'
  BY <1>1
<1> QED
  BY <1>1, <1>2, <1>3 DEF RowsFit

LEMMA RowsFitLonger ==
  ASSUME SentinelTypes, TrueInv, NEW p \in SentinelPaths, NEW c \in Content,
         fsHistory'[p] = Append(fsHistory[p], c),
         UNCHANGED <<fsRows, fsSnapshot, fsToPrime, fsFlush>>
  PROVE  RowsFit(p)'
<1>1. PICK upTo \in DOMAIN fsHistory[p] :
        FitsBy(fsRows, p, fsHistory[p], upTo) /\ NextFits(p, upTo)
  BY DEF RowsFit, TrueInv
<1>2. PICK h : h = fsHistory[p]
  OBVIOUS
<1>3. h \in Seq(Content) /\ DOMAIN h = 1..Len(h) /\ Len(h) \in Nat
  BY <1>2, HistoryIs
<1>4. PICK h2 : h2 = Append(h, c)
  OBVIOUS
<1>5. /\ h2 = fsHistory'[p] /\ Len(h2) = Len(h) + 1 /\ DOMAIN h2 = 1..(Len(h) + 1)
      /\ \A i \in 1..Len(h) : h2[i] = h[i]
  BY <1>2, <1>3, <1>4, AppendProperties
<1>6. Len(fsRows) \in Nat
  BY DEF TrueInv
<1>7. FitsBy(fsRows, p, h2, upTo)
  BY <1>1, <1>2, <1>3, <1>4, <1>6, FitsLonger
<1>8. SeenFrom(p, upTo) => SeenFrom(p, upTo)'
  BY <1>1, <1>2, <1>3, <1>5 DEF SeenFrom
<1>9. GoneFrom(p, upTo) => GoneFrom(p, upTo)'
  <2> SUFFICES ASSUME GoneFrom(p, upTo) PROVE GoneFrom(p, upTo)'
    OBVIOUS
  <2>1. PICK j \in upTo..Len(h) :
          /\ h[j] = "absent"
          /\ fsSnapshot[p] = "oversize" \/ \E i \in upTo..(j - 1) : h[i] = fsSnapshot[p]
    BY <1>2 DEF GoneFrom
  <2>2. j \in upTo..Len(h2) /\ h2[j] = h[j] /\ \A i \in upTo..(j - 1) : h2[i] = h[i]
    BY <1>1, <1>2, <1>3, <1>5
  <2> QED
    BY <1>5, <2>1, <2>2 DEF GoneFrom
<1>10. upTo \in DOMAIN h2
  BY <1>1, <1>2, <1>3, <1>5
<1>11. NextFits(p, upTo)'
  BY <1>1, <1>8, <1>9 DEF NextFits
<1> QED
  BY <1>5, <1>7, <1>10, <1>11 DEF RowsFit

(* insertChange of another path's change, and of one of this path.             *)
LEMMA InsertedRows ==
  ASSUME TrueInv, NEW q, NEW op, NEW before, NEW after, InsertChange(q, op, before, after)
  PROVE  (\E S : fsRows \in Seq(S))'
<1>1. PICK S : fsRows \in Seq(S)
  BY DEF TrueInv
<1>2. PICK row : row = SentinelRow(q, op, before, after)
  OBVIOUS
<1>3. fsRows' = fsRows \/ fsRows' = Append(fsRows, row)
  BY <1>2 DEF InsertChange
<1>4. fsRows \in Seq(S \union {row}) /\ Append(fsRows, row) \in Seq(S \union {row})
  BY <1>1, AppendProperties
<1> QED
  BY <1>3, <1>4

LEMMA InsertFits ==
  ASSUME SentinelTypes, TrueInv, NEW p \in SentinelPaths,
         NEW q, NEW op, NEW before, NEW after, InsertChange(q, op, before, after),
         NEW upTo \in DOMAIN fsHistory[p], FitsBy(fsRows, p, fsHistory[p], upTo),
         NEW j \in upTo..Len(fsHistory[p]),
         q = p /\ "oversize" \notin {before, after} =>
           fsHistory[p][j] = after /\ \E i \in upTo..(j - 1) : fsHistory[p][i] = before
  PROVE  \E next \in DOMAIN fsHistory[p] :
           next <= j /\ (q # p => next = upTo) /\ FitsBy(fsRows', p, fsHistory[p], next)
<1>1. PICK row : row = SentinelRow(q, op, before, after)
  OBVIOUS
<1>2. fsRows' = fsRows \/ fsRows' = Append(fsRows, row)
  BY <1>1 DEF InsertChange
<1>3. CASE fsRows' = fsRows
  BY <1>3, HistoryIs
<1>4. CASE fsRows' = Append(fsRows, row)
  <2>1. row.path = q /\ (row.full => "oversize" \notin {before, after})
        /\ (row.full => row.before = before /\ row.after = after)
    BY <1>1 DEF SentinelRow
  <2>2. PICK next : next = FitNext(row, p, fsHistory[p], upTo)
    OBVIOUS
  <2>3. next \in DOMAIN fsHistory[p] /\ next <= j
    BY <2>1, <2>2, FitNextFits, HistoryIs
  <2>4. q # p => next = upTo
    BY <2>1, <2>2 DEF FitNext
  <2>5. PICK S : fsRows \in Seq(S)
    BY DEF TrueInv
  <2>6. FitsBy(Append(fsRows, row), p, fsHistory[p], next)
    BY <2>2, <2>3, <2>5, FitsAppend, HistoryIs
  <2> QED
    BY <1>4, <2>3, <2>4, <2>6
<1> QED
  BY <1>2, <1>3, <1>4

(* The flush at one path, q, that it may have a row for.                      *)
LEMMA OwnPath ==
  ASSUME SentinelTypes, TrueInv, NEW q \in SentinelPaths,
         fsHistory' = fsHistory, fsToPrime' = fsToPrime, fsFlush'.gone \subseteq fsFlush.gone,
         NEW op, NEW after, InsertChange(q, op, fsSnapshot[q], after),
         fsSnapshot' = [fsSnapshot EXCEPT ![q] = after], q \notin fsFlush'.gone,
         \A upTo \in DOMAIN fsHistory[q] : NextFits(q, upTo) =>
           \E j \in upTo..Len(fsHistory[q]) :
             /\ after \in {"oversize", fsHistory[q][j]}
             /\ "oversize" \notin {fsSnapshot[q], after} =>
                  \E i \in upTo..(j - 1) : fsHistory[q][i] = fsSnapshot[q]
  PROVE  (\E S : fsRows \in Seq(S))' /\ \A p \in SentinelPaths : RowsFit(p)'
<1>1. (\E S : fsRows \in Seq(S))'
  BY InsertedRows
<1>2. ASSUME NEW p \in SentinelPaths, p # q PROVE RowsFit(p)'
  <2>1. PICK upTo \in DOMAIN fsHistory[p] :
          FitsBy(fsRows, p, fsHistory[p], upTo) /\ NextFits(p, upTo)
    BY DEF RowsFit, TrueInv
  <2>2. PICK j \in upTo..Len(fsHistory[p]) : TRUE
    BY <2>1, HistoryIs
  <2>3. FitsBy(fsRows', p, fsHistory[p], upTo)
    BY <1>2, <2>1, InsertFits
  <2>4. NextFits(p, upTo)'
    <3>1. fsSnapshot'[p] = fsSnapshot[p]
      BY <1>2 DEF SentinelTypes
    <3> QED
      BY <2>1, <3>1 DEF NextFits, SeenFrom, GoneFrom
  <2> QED
    BY <2>1, <2>3, <2>4 DEF RowsFit
<1>3. RowsFit(q)'
  <2>1. PICK upTo \in DOMAIN fsHistory[q] :
          FitsBy(fsRows, q, fsHistory[q], upTo) /\ NextFits(q, upTo)
    BY DEF RowsFit, TrueInv
  <2>2. PICK j \in upTo..Len(fsHistory[q]) :
             /\ after \in {"oversize", fsHistory[q][j]}
             /\ "oversize" \notin {fsSnapshot[q], after} =>
                  \E i \in upTo..(j - 1) : fsHistory[q][i] = fsSnapshot[q]
    BY <2>1
  <2>3. PICK next \in DOMAIN fsHistory[q] : next <= j /\ FitsBy(fsRows', q, fsHistory[q], next)
    BY <2>1, <2>2, InsertFits
  <2>4. fsSnapshot'[q] = after
    BY DEF SentinelTypes
  <2>5. j \in next..Len(fsHistory[q])
    BY <2>1, <2>2, <2>3, HistoryIs
  <2>6. NextFits(q, next)'
    BY <2>2, <2>4, <2>5 DEF NextFits, SeenFrom
  <2> QED
    BY <2>3, <2>6 DEF RowsFit
<1> QED
  BY <1>1, <1>2, <1>3

(* A flush that finds a file gone.                                          *)
LEMMA FoundGone ==
  ASSUME SentinelTypes, TrueInv, NEW p \in SentinelPaths, p \notin fsToPrime,
         Known(p), ~OnDisk(p), UNCHANGED <<fsHistory, fsSnapshot, fsToPrime, fsRows>>
  PROVE  RowsFit(p)'
<1>1. PICK upTo \in DOMAIN fsHistory[p] :
        FitsBy(fsRows, p, fsHistory[p], upTo) /\ NextFits(p, upTo)
  BY DEF RowsFit, TrueInv
<1>2. PICK i \in upTo..Len(fsHistory[p]) : fsSnapshot[p] \in {"oversize", fsHistory[p][i]}
  BY <1>1 DEF NextFits, SeenFrom
<1>3. PICK j : j = Len(fsHistory[p])
  OBVIOUS
<1>4. fsHistory[p][j] = "absent" /\ j \in upTo..Len(fsHistory[p])
  BY <1>1, <1>3, HistoryIs DEF OnDisk
<1>5. fsSnapshot[p] = "oversize" \/ (i \in upTo..(j - 1) /\ fsHistory[p][i] = fsSnapshot[p])
  <2>1. CASE fsSnapshot[p] = fsHistory[p][i]
    <3>1. i # j
      BY <1>4, <2>1 DEF Known
    <3> QED
      BY <1>1, <1>2, <1>3, <2>1, <3>1, HistoryIs
  <2> QED
    BY <1>2, <2>1
<1>6. GoneFrom(p, upTo) /\ SeenFrom(p, upTo)
  BY <1>2, <1>4, <1>5 DEF GoneFrom, SeenFrom
<1>7. NextFits(p, upTo)'
  BY <1>6 DEF NextFits, GoneFrom, SeenFrom
<1> QED
  BY <1>1, <1>7 DEF RowsFit

LEMMA StepTrue == SentinelTypes /\ WayInv /\ TrueInv /\ [SentinelNext]_fsVars => TrueInv'
<1> SUFFICES ASSUME SentinelTypes, WayInv, TrueInv, [SentinelNext]_fsVars PROVE TrueInv'
  OBVIOUS
<1> USE SentinelConstants
<1>0. ASSUME UNCHANGED <<fsHistory, fsSnapshot, fsRows>>,
             fsToPrime' = fsToPrime, fsFlush'.gone \subseteq fsFlush.gone,
             fsFlush'.path # "none" => fsFlush'.gone = {}
      PROVE  TrueInv'
  BY <1>0, RowsFitStay DEF TrueInv
<1>1. ASSUME NEW q \in SentinelPaths, FileChanges(q) PROVE TrueInv'
  <2>1. PICK c \in Content : fsHistory' = [fsHistory EXCEPT ![q] = Append(fsHistory[q], c)]
    BY <1>1 DEF FileChanges, Content
  <2>2. UNCHANGED <<fsRows, fsSnapshot, fsToPrime, fsFlush>>
    BY <1>1 DEF FileChanges
  <2>3. ASSUME NEW p \in SentinelPaths PROVE RowsFit(p)'
    <3>1. CASE p = q
      <4>1. fsHistory'[p] = Append(fsHistory[p], c)
        BY <2>1, <3>1 DEF SentinelTypes
      <4> QED
        BY <2>2, <4>1, RowsFitLonger
    <3>2. CASE p # q
      <4>1. PICK upTo \in DOMAIN fsHistory[p] :
              FitsBy(fsRows, p, fsHistory[p], upTo) /\ NextFits(p, upTo)
        BY DEF RowsFit, TrueInv
      <4>2. fsHistory'[p] = fsHistory[p]
        BY <2>1, <3>2 DEF SentinelTypes
      <4>3. NextFits(p, upTo)'
        BY <2>2, <4>1, <4>2 DEF NextFits, SeenFrom, GoneFrom
      <4> QED
        BY <2>2, <4>1, <4>2, <4>3 DEF RowsFit
    <3> QED
      BY <3>1, <3>2
  <2> QED
    BY <2>2, <2>3 DEF TrueInv
<1>2. CASE DirMoves
  <2>1. UNCHANGED <<fsRows, fsSnapshot, fsToPrime, fsFlush>>
    BY <1>2 DEF DirMoves
  <2>2. ASSUME NEW p \in SentinelPaths PROVE RowsFit(p)'
    <3>1. fsHistory'[p] = Append(fsHistory[p], "absent") /\ "absent" \in Content
      BY <1>2 DEF DirMoves, Content
    <3> QED
      BY <2>1, <3>1, RowsFitLonger
  <2> QED
    BY <2>1, <2>2 DEF TrueInv
<1>3. CASE StepArrives \/ EventDropped \/ Enqueue \/ SentinelTick
  BY <1>0, <1>3 DEF StepArrives, EventDropped, Enqueue, SentinelTick, TrueInv
<1>4. CASE FlushStart
  BY <1>0, <1>4 DEF FlushStart, FlushIdle
<1>5. ASSUME NEW q \in SentinelPaths, FileTouched(q) \/ StatFile(q) PROVE TrueInv'
  <2>1. UNCHANGED <<fsHistory, fsSnapshot, fsRows>> /\ fsToPrime' = fsToPrime
    BY <1>5 DEF FileTouched, StatFile
  <2>2. fsFlush'.gone = fsFlush.gone /\ (fsFlush' = fsFlush \/ fsFlush.gone = {})
    BY <1>5 DEF FileTouched, StatFile, Done, FlushFree, SentinelTypes
  <2> QED
    BY <1>0, <2>1, <2>2 DEF TrueInv
<1>6. ASSUME NEW q \in SentinelPaths, Prime(q) PROVE TrueInv'
  <2>1. /\ UNCHANGED <<fsHistory, fsRows, fsFlush>> /\ fsFlush = FlushIdle
        /\ fsToPrime' = fsToPrime \ {q} /\ q \in fsToPrime
        /\ fsSnapshot' = [fsSnapshot EXCEPT ![q] = SnapshotRef(Now(q))]
    BY <1>6 DEF Prime, WayInv, PrimedFirst
  <2>2. ASSUME NEW p \in SentinelPaths, p # q PROVE RowsFit(p)'
    <3>1. fsSnapshot'[p] = fsSnapshot[p]
      BY <2>1, <2>2 DEF SentinelTypes
    <3> QED
      BY <2>1, <2>2, <3>1, RowsFitStay DEF TrueInv
  <2>3. RowsFit(q)'
    <3>1. PICK upTo \in DOMAIN fsHistory[q] : FitsBy(fsRows, q, fsHistory[q], upTo)
      BY DEF RowsFit, TrueInv
    <3>2. fsSnapshot'[q] \in {"oversize", Now(q)}
      BY <2>1 DEF SnapshotRef, SentinelTypes
    <3>3. Len(fsHistory[q]) \in upTo..Len(fsHistory[q])
      BY <3>1, HistoryIs
    <3>4. SeenFrom(q, upTo)'
      BY <2>1, <3>2, <3>3, HistoryIs DEF SeenFrom
    <3>5. q \notin fsFlush'.gone
      BY <2>1 DEF FlushIdle
    <3>6. NextFits(q, upTo)'
      BY <3>4, <3>5 DEF NextFits
    <3> QED
      BY <2>1, <3>1, <3>6 DEF RowsFit
  <2> QED
    BY <2>1, <2>2, <2>3 DEF TrueInv
<1>7. ASSUME NEW q \in SentinelPaths, StatOversize(q) PROVE TrueInv'
  <2>1. /\ fsHistory' = fsHistory /\ fsToPrime' = fsToPrime /\ fsFlush' = Done(q)
        /\ fsSnapshot' = [fsSnapshot EXCEPT ![q] = "oversize"]
        /\ fsFlush.gone = {} /\ fsFlush.path = "none"
    BY <1>7 DEF StatOversize, EndPath, FlushFree
  <2>2. fsFlush'.gone = {} /\ fsFlush'.path = "none"
    BY <2>1 DEF Done, SentinelTypes
  <2>3. PICK op : InsertChange(q, op, fsSnapshot[q], "oversize")
    BY <1>7 DEF StatOversize
  <2>4. \A upTo \in DOMAIN fsHistory[q] : Len(fsHistory[q]) \in upTo..Len(fsHistory[q])
    BY HistoryIs
  <2>5. (\E S : fsRows \in Seq(S))' /\ \A p \in SentinelPaths : RowsFit(p)'
    BY <2>1, <2>2, <2>3, <2>4, OwnPath
  <2> QED
    BY <2>2, <2>5 DEF TrueInv
<1>8. ASSUME NEW q \in SentinelPaths, StatGone(q) PROVE TrueInv'
  <2>1. /\ UNCHANGED <<fsHistory, fsSnapshot, fsToPrime, fsRows>>
        /\ fsFlush.gone = {} /\ fsFlush.path = "none" /\ ~OnDisk(q)
        /\ fsFlush' = IF Known(q) THEN [Done(q) EXCEPT !.gone = {q}] ELSE Done(q)
    BY <1>8 DEF StatGone, EndPath, FlushFree, OnDisk
  <2>2. fsFlush'.path = "none" /\ fsFlush'.gone = IF Known(q) THEN {q} ELSE {}
    BY <2>1 DEF Done, SentinelTypes
  <2>3. fsToPrime = {}
    BY <1>8 DEF StatGone, WayInv, PrimedFirst, FlushIdle
  <2>4. ASSUME NEW p \in SentinelPaths PROVE RowsFit(p)'
    <3>1. CASE p = q /\ Known(q)
      BY <2>1, <2>3, <3>1, FoundGone
    <3>2. CASE p # q \/ ~Known(q)
      BY <2>1, <2>2, <3>2, RowsFitStay DEF TrueInv
    <3> QED
      BY <3>1, <3>2
  <2> QED
    BY <2>1, <2>2, <2>4 DEF TrueInv
<1>9. CASE StatDir
  <2>1. /\ UNCHANGED <<fsHistory, fsSnapshot, fsToPrime, fsRows>>
        /\ fsFlush.gone = {} /\ fsFlush.path = "none"
        /\ fsFlush' = IF \E p \in SentinelPaths : OnDisk(p) THEN Done(Dir)
                      ELSE [Done(Dir) EXCEPT !.gone = {p \in SentinelPaths : Known(p)}]
    BY <1>9 DEF StatDir, EndPath, FlushFree
  <2>2. /\ fsFlush'.path = "none"
        /\ \A p \in fsFlush'.gone : Known(p) /\ ~OnDisk(p)
    BY <2>1 DEF Done, SentinelTypes
  <2>3. fsToPrime = {}
    BY <1>9 DEF StatDir, WayInv, PrimedFirst, FlushIdle
  <2>4. ASSUME NEW p \in SentinelPaths PROVE RowsFit(p)'
    <3>1. CASE p \in fsFlush'.gone
      BY <2>1, <2>2, <2>3, <3>1, FoundGone
    <3>2. CASE p \notin fsFlush'.gone
      BY <2>1, <3>2, RowsFitStay DEF TrueInv
    <3> QED
      BY <3>1, <3>2
  <2> QED
    BY <2>1, <2>2, <2>4 DEF TrueInv
<1>10. ASSUME NEW q \in SentinelPaths, HandleDelete(q) PROVE TrueInv'
  <2>1. /\ fsHistory' = fsHistory /\ fsToPrime' = fsToPrime /\ q \in fsFlush.gone
        /\ fsFlush' = [fsFlush EXCEPT !.gone = fsFlush.gone \ {q}]
        /\ fsSnapshot' = [fsSnapshot EXCEPT ![q] = "absent"]
        /\ InsertChange(q, "delete", fsSnapshot[q], "absent")
    BY <1>10 DEF HandleDelete, EndPath, Forgotten
  <2>2. fsFlush'.gone = fsFlush.gone \ {q} /\ fsFlush'.path = fsFlush.path
    BY <2>1 DEF SentinelTypes
  <2>3. ASSUME NEW upTo \in DOMAIN fsHistory[q], NextFits(q, upTo)
        PROVE  \E j \in upTo..Len(fsHistory[q]) :
                 /\ "absent" \in {"oversize", fsHistory[q][j]}
                 /\ "oversize" \notin {fsSnapshot[q], "absent"} =>
                      \E i \in upTo..(j - 1) : fsHistory[q][i] = fsSnapshot[q]
    BY <2>1, <2>3 DEF NextFits, GoneFrom
  <2>4. (\E S : fsRows \in Seq(S))' /\ \A p \in SentinelPaths : RowsFit(p)'
    BY <2>1, <2>2, <2>3, OwnPath
  <2> QED
    BY <2>1, <2>2, <2>4 DEF TrueInv
<1>11. ASSUME NEW q \in SentinelPaths, ReadPath(q) PROVE TrueInv'
  <2>1. /\ fsHistory' = fsHistory /\ fsToPrime' = fsToPrime /\ fsFlush.gone = {}
        /\ fsFlush' = [fsFlush EXCEPT !.path = "none"]
    BY <1>11 DEF ReadPath, EndPath, TrueInv
  <2>2. fsFlush'.gone = {} /\ fsFlush'.path = "none"
    BY <2>1 DEF SentinelTypes
  <2>3. q \notin fsToPrime
    BY <1>11 DEF ReadPath, WayInv, PrimedFirst, FlushIdle
  <2>4. CASE ~(OnDisk(q) /\ fsSnapshot[q] # Now(q))
    <3>1. UNCHANGED <<fsSnapshot, fsRows>>
      BY <1>11, <2>4 DEF ReadPath
    <3> QED
      BY <1>0, <2>1, <2>2, <3>1
  <2>5. CASE OnDisk(q) /\ fsSnapshot[q] # Now(q)
    <3>1. PICK op : InsertChange(q, op, fsSnapshot[q], Now(q))
      BY <1>11, <2>5 DEF ReadPath
    <3>2. fsSnapshot' = [fsSnapshot EXCEPT ![q] = Now(q)]
      BY <1>11, <2>5 DEF ReadPath
    <3>3. ASSUME NEW upTo \in DOMAIN fsHistory[q], NextFits(q, upTo)
          PROVE  \E j \in upTo..Len(fsHistory[q]) :
                   /\ Now(q) \in {"oversize", fsHistory[q][j]}
                   /\ "oversize" \notin {fsSnapshot[q], Now(q)} =>
                        \E i \in upTo..(j - 1) : fsHistory[q][i] = fsSnapshot[q]
      <4>1. PICK i \in upTo..Len(fsHistory[q]) : fsSnapshot[q] \in {"oversize", fsHistory[q][i]}
        BY <2>3, <3>3 DEF NextFits, SeenFrom
      <4>2. PICK j : j = Len(fsHistory[q])
        OBVIOUS
      <4>3. j \in upTo..Len(fsHistory[q]) /\ Now(q) = fsHistory[q][j]
        BY <3>3, <4>2, HistoryIs
      <4>4. fsSnapshot[q] # "oversize" => i \in upTo..(j - 1) /\ fsHistory[q][i] = fsSnapshot[q]
        <5>1. CASE fsSnapshot[q] = fsHistory[q][i]
          <6>1. i # j
            BY <2>5, <4>3, <5>1
          <6> QED
            BY <3>3, <4>1, <4>2, <5>1, <6>1, HistoryIs
        <5> QED
          BY <4>1, <5>1
      <4> QED
        BY <4>3, <4>4
    <3>4. (\E S : fsRows \in Seq(S))' /\ \A p \in SentinelPaths : RowsFit(p)'
      BY <2>1, <2>2, <3>1, <3>2, <3>3, OwnPath
    <3> QED
      BY <2>2, <3>4 DEF TrueInv
  <2> QED
    BY <2>4, <2>5
<1>12. CASE UNCHANGED fsVars
  BY <1>0, <1>12 DEF fsVars, TrueInv
<1> QED
  BY <1>1, <1>2, <1>3, <1>4, <1>5, <1>6, <1>7, <1>8, <1>9, <1>10, <1>11, <1>12
  DEF SentinelNext

(***************************************************************************)
(* SentinelRowsAreTrue: "Missed rows, never wrong rows" -- the full rows of a *)
(* path, in order, tell changes between contents the file had, whatever was   *)
(* written while a flush was under way, deleted, or not reported              *)
(* (handleModify, handleDelete, insertChange).                              *)
(***************************************************************************)
THEOREM SentinelRowsAreTrue == SentinelSpec => []SentinelRowsTrue
<1>1. SentinelTypes /\ TrueInv => SentinelRowsTrue
  <2> SUFFICES ASSUME SentinelTypes, TrueInv, NEW p \in SentinelPaths
               PROVE  Fit(fsRows, p, fsHistory[p]) # 0
    BY DEF SentinelRowsTrue
  <2>1. PICK upTo : FitsBy(fsRows, p, fsHistory[p], upTo)
    BY DEF TrueInv, RowsFit
  <2>2. Len(fsRows) \in Nat
    BY DEF TrueInv
  <2> QED
    BY <2>1, <2>2, FitsByIsFit, HistoryIs
<1> QED
  BY <1>1, InitWay, InitTrue, StepTypes, StepWay, StepTrue, PTL DEF SentinelSpec
============================================================================
