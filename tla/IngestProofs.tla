---------------------------- MODULE IngestProofs ----------------------------
(***************************************************************************)
(* Proofs about Ingest: for any number of ingests at once, any transcript, *)
(* keys and tool uses, and any kills.                                      *)
(***************************************************************************)
EXTENDS Ingest, TLAPS, FiniteSetTheorems, WellFoundedInduction

(***************************************************************************)
(* What Min and Max return: first records, next sequences.                  *)
(***************************************************************************)

(* A set of numbers that has an element has a least one.                    *)
LEMMA MinIsLeast ==
  ASSUME NEW S, S \subseteq Nat, S # {}
  PROVE  Min(S) \in S /\ \A y \in S : Min(S) <= y
<1> DEFINE R == {ss \in Nat \X Nat : ss[1] < ss[2]}
<1>1. IsWellFoundedOn(R, Nat)
  BY NatLessThanWellFounded DEF OpToRel
<1> HIDE DEF R
<1>2. PICK x \in S : \A y \in S : <<y, x>> \notin R
  BY <1>1, WFMin
<1>3. ASSUME NEW y \in S PROVE x <= y
  <2>1. <<y, x>> \in Nat \X Nat /\ <<y, x>> \notin R
    BY <1>2
  <2>2. ~ (y < x)
    BY <2>1 DEF R
  <2> QED
    BY <2>2
<1> QED
  BY <1>3 DEF Min

(* A set of numbers that has an element and a bound has a greatest one: its *)
(* least bound.                                                             *)
LEMMA MaxIsGreatest ==
  ASSUME NEW S, S \subseteq Nat, S # {}, NEW bound \in Nat, \A y \in S : y <= bound
  PROVE  Max(S) \in S /\ \A y \in S : y <= Max(S)
<1> DEFINE Bounds == {b \in Nat : \A y \in S : y <= b}
<1>1. Bounds \subseteq Nat /\ bound \in Bounds
  OBVIOUS
<1>2. Min(Bounds) \in Bounds /\ \A b \in Bounds : Min(Bounds) <= b
  BY <1>1, MinIsLeast
<1>3. Min(Bounds) \in S
  <2> SUFFICES ASSUME Min(Bounds) \notin S PROVE FALSE
    OBVIOUS
  <2>1. PICK x \in S : TRUE
    OBVIOUS
  <2>2. \A y \in S : y < Min(Bounds)
    BY <1>2
  <2>3. Min(Bounds) - 1 \in Bounds
    BY <1>2, <2>1, <2>2
  <2> QED
    BY <1>2, <2>3
<1> HIDE DEF Bounds
<1>4. Min(Bounds) \in S /\ \A y \in S : y <= Min(Bounds)
  BY <1>2, <1>3 DEF Bounds
<1> QED
  BY <1>4 DEF Max

(***************************************************************************)
(* What a prefix of the transcript says.                                   *)
(***************************************************************************)

(* Two transcripts that agree on their first n lines.                       *)
SamePrefix(a, b, n) == \A i \in 1..n : a[i] = b[i]

(* The records of a key are line numbers.                                   *)
LEMMA RecordsAreLines ==
  ASSUME NEW a, NEW n \in Nat, NEW key
  PROVE  /\ RecordsOf(a, key, n) \in SUBSET (1..n)
         /\ ActionRecords(a, key, n) \in SUBSET RecordsOf(a, key, n)
         /\ Cardinality(RecordsOf(a, key, n)) \in Nat
<1>1. RecordsOf(a, key, n) \in SUBSET (1..n)
  BY DEF RecordsOf
<1>2. IsFiniteSet(1..n)
  BY FS_Interval
<1>3. IsFiniteSet(RecordsOf(a, key, n))
  BY <1>1, <1>2, FS_Subset
<1>4. Cardinality(RecordsOf(a, key, n)) \in Nat
  BY <1>3, FS_CardinalityType
<1> QED
  BY <1>1, <1>4 DEF ActionRecords

(* The first record of a step the first n lines have is one of its records. *)
LEMMA FirstRecordIsLeast ==
  ASSUME NEW a, NEW n \in Nat, NEW key, RecordsOf(a, key, n) # {}
  PROVE  /\ FirstRecord(a, key, n) \in RecordsOf(a, key, n)
         /\ FirstRecord(a, key, n) \in 1..n
         /\ \A i \in RecordsOf(a, key, n) : FirstRecord(a, key, n) <= i
<1>1. RecordsOf(a, key, n) \subseteq Nat /\ RecordsOf(a, key, n) \subseteq 1..n
  BY RecordsAreLines
<1> QED
  BY <1>1, MinIsLeast DEF FirstRecord

(* The steps of the first n lines are named by the lines that start a group. *)
LEMMA StartsNameSteps ==
  ASSUME NEW a, NEW n \in Nat
  PROVE  KeysAt(a, n) = {a[i].key : i \in GroupStarts(a, n)}
<1>1. ASSUME NEW key \in KeysAt(a, n)
      PROVE  \E i \in GroupStarts(a, n) : a[i].key = key
  <2> DEFINE first == FirstRecord(a, key, n)
  <2>1. RecordsOf(a, key, n) # {}
    BY DEF KeysAt, RecordsOf
  <2>2. /\ first \in RecordsOf(a, key, n)
        /\ first \in 1..n
        /\ \A i \in RecordsOf(a, key, n) : first <= i
    BY <2>1, FirstRecordIsLeast
  <2> HIDE DEF first
  <2>3. IsAssistant(a, first) /\ a[first].key = key
    BY <2>2 DEF RecordsOf
  <2>4. key \notin KeysAt(a, first - 1)
    BY <2>2 DEF KeysAt, RecordsOf
  <2>5. first \in GroupStarts(a, n)
    BY <2>2, <2>3, <2>4 DEF GroupStarts
  <2> QED
    BY <2>3, <2>5
<1>2. ASSUME NEW i \in GroupStarts(a, n) PROVE a[i].key \in KeysAt(a, n)
  BY DEF GroupStarts, KeysAt
<1> QED
  BY <1>1, <1>2

(* A longer prefix has more steps.                                          *)
LEMMA KeysGrow ==
  ASSUME NEW a, NEW m \in Nat, NEW n \in Nat, m <= n
  PROVE  KeysAt(a, m) \subseteq KeysAt(a, n)
BY DEF KeysAt

(* A prefix says what it says whatever comes after it: the operators read   *)
(* the first n lines only.                                                  *)
LEMMA PrefixSteps ==
  ASSUME NEW a, NEW b, NEW n \in Nat, SamePrefix(a, b, n)
  PROVE  /\ KeysAt(a, n) = KeysAt(b, n)
         /\ GroupStarts(a, n) = GroupStarts(b, n)
         /\ \A key : RecordsOf(a, key, n) = RecordsOf(b, key, n)
         /\ \A key : ActionRecords(a, key, n) = ActionRecords(b, key, n)
<1>1. \A m \in 0..n : KeysAt(a, m) = KeysAt(b, m)
  <2> SUFFICES ASSUME NEW m \in 0..n PROVE KeysAt(a, m) = KeysAt(b, m)
    OBVIOUS
  <2>1. \A i \in 1..m : a[i] = b[i]
    BY DEF SamePrefix
  <2>2. {j \in 1..m : IsAssistant(a, j)} = {j \in 1..m : IsAssistant(b, j)}
    BY <2>1 DEF IsAssistant
  <2> QED
    BY <2>1, <2>2 DEF KeysAt
<1>2. \A i \in 1..n : IsAssistant(a, i) <=> IsAssistant(b, i)
  BY DEF SamePrefix, IsAssistant
<1>3. \A key : RecordsOf(a, key, n) = RecordsOf(b, key, n)
  BY <1>2 DEF RecordsOf, SamePrefix
<1>4. \A key : RecordsOf(a, key, n) \in SUBSET (1..n)
  BY RecordsAreLines
<1>5. \A key : ActionRecords(a, key, n) = ActionRecords(b, key, n)
  BY <1>3, <1>4 DEF ActionRecords, SamePrefix
<1>6. GroupStarts(a, n) = GroupStarts(b, n)
  BY <1>1, <1>2 DEF GroupStarts, SamePrefix
<1>7. KeysAt(a, n) = KeysAt(b, n)
  BY <1>1
<1> QED
  BY <1>3, <1>5, <1>6, <1>7

LEMMA PrefixOutcome ==
  ASSUME NEW a, NEW b, NEW n \in Nat, SamePrefix(a, b, n), NEW key
  PROVE  OutcomeAt(a, key, n) = OutcomeAt(b, key, n)
<1> DEFINE from == FirstRecord(a, key, n) + Cardinality(RecordsOf(a, key, n))
           found(s) == ResultLines(s, ActionUse(a, key, n), from, n)
<1>1. /\ RecordsOf(a, key, n) = RecordsOf(b, key, n)
      /\ ActionRecords(a, key, n) = ActionRecords(b, key, n)
  BY PrefixSteps
<1>2. /\ FirstRecord(a, key, n) = FirstRecord(b, key, n)
      /\ ActionUse(a, key, n) = ActionUse(b, key, n)
  BY <1>1 DEF FirstRecord, ActionUse
<1>3. CASE ActionRecords(a, key, n) = {}
  BY <1>1, <1>3 DEF OutcomeAt
<1>4. CASE ActionRecords(a, key, n) # {}
  <2>1. RecordsOf(a, key, n) # {} /\ Cardinality(RecordsOf(a, key, n)) \in Nat
    BY <1>4, RecordsAreLines
  <2>2. FirstRecord(a, key, n) \in 1..n
    BY <2>1, FirstRecordIsLeast
  <2>3. from \in Nat /\ from >= 1
    BY <2>1, <2>2
  <2> HIDE DEF from
  <2>4. found(a) = found(b) /\ found(a) \in SUBSET (1..n)
    BY <2>3 DEF ResultLines, SamePrefix
  <2>5. found(a) # {} => a[Min(found(a))] = b[Min(found(b))]
    <3> SUFFICES ASSUME found(a) # {} PROVE a[Min(found(a))] = b[Min(found(b))]
      OBVIOUS
    <3>1. found(a) \subseteq Nat
      BY <2>4
    <3>2. Min(found(a)) \in found(a)
      BY <3>1, MinIsLeast
    <3> QED
      BY <2>4, <3>2 DEF SamePrefix
  <2> HIDE DEF found
  <2>6. OutcomeAt(a, key, n) = IF found(a) = {} THEN "pending"
                               ELSE IF a[Min(found(a))].err THEN "error" ELSE "ok"
    BY <1>4 DEF OutcomeAt, found, from
  <2>7. OutcomeAt(b, key, n) = IF found(b) = {} THEN "pending"
                               ELSE IF b[Min(found(b))].err THEN "error" ELSE "ok"
    BY <1>1, <1>2, <1>4 DEF OutcomeAt, found, from
  <2> QED
    BY <2>4, <2>5, <2>6, <2>7
<1> QED
  BY <1>3, <1>4

(* Every step has an outcome.                                               *)
LEMMA OutcomeTypes ==
  ASSUME NEW a, NEW key, NEW n
  PROVE  OutcomeAt(a, key, n) \in Outcomes /\ OutcomeAt(a, key, n) # Absent
BY DEF OutcomeAt, Outcomes, Absent

(***************************************************************************)
(* Types.                                                                  *)
(***************************************************************************)
Line ==
  [type : {"assistant"}, key : Keys, uses : BoundedSeq(ToolUses, MaxUses)]
    \union [type : {"result"}, use : Nat \X Int, err : BOOLEAN]
    \union [type : {"prompt"}]
    \union [type : {"snapshot"}, turn : Nat,
            paths : SUBSET (UNION {ToSet(use.paths) : use \in ToolUses})]

(* Where an ingest is, and what it has read by then: the first read ends    *)
(* inside the file, the second does not end before it.                      *)
ReadOK(p) ==
  pc[p] # "idle" =>
    /\ got[p] \in 1..Len(lines)
    /\ pc[p] = "open" => all[p] \in {0, got[p]}
    /\ pc[p] # "open" => all[p] \in got[p]..Len(lines)
    /\ pc[p] \notin {"open", "insertRun"} => run[p] \in runs

IngestTypes ==
  /\ lines \in Seq(Line)
  /\ runs \in SUBSET RunIds
  /\ steps \in [RunIds -> [Keys -> Outcomes \union {Absent}]]
  /\ status \in [RunIds -> RunStatuses \union {Absent}]
  /\ DOMAIN total = RunIds
  /\ cursor \in 0..Len(lines)
  /\ pc \in [Ingesters -> Phases]
  /\ got \in [Ingesters -> Nat]
  /\ all \in [Ingesters -> Nat]
  /\ run \in [Ingesters -> RunIds \union {NoRun}]
  /\ todo \in [Ingesters -> Nat]
  /\ crashes \in 0..MaxCrashes
  /\ \A p \in Ingesters : ReadOK(p)

(* What the agent writes is a line after the others.                        *)
LEMMA AgentAppends ==
  ASSUME IngestTypes, Agent
  PROVE  /\ \E record \in Line : lines' = Append(lines, record)
         /\ lines' \in Seq(Line)
         /\ Len(lines') = Len(lines) + 1
         /\ SamePrefix(lines', lines, Len(lines))
         /\ UNCHANGED <<store, locals, crashes>>
<1>1. /\ \E record \in Line : lines' = Append(lines, record)
      /\ UNCHANGED <<store, locals, crashes>>
  <2>1. CASE AgentReplies
    BY <2>1 DEF AgentReplies, Append1, Line
  <2>2. CASE AgentGetsResult
    <3>1. PICK i \in 1..Len(lines), err \in BOOLEAN, j \in Int :
            Append1([type |-> "result", use |-> <<i, j>>, err |-> err])
      BY <2>2 DEF AgentGetsResult
    <3>2. <<i, j>> \in Nat \X Int
      OBVIOUS
    <3>3. [type |-> "result", use |-> <<i, j>>, err |-> err] \in Line
      BY <3>2 DEF Line
    <3> QED
      BY <3>1, <3>3 DEF Append1
  <2>3. CASE UserPrompts
    BY <2>3 DEF UserPrompts, Append1, Line
  <2>4. CASE AgentSnapshots
    <3>1. PICK turn \in 1..(Len(lines) + 2),
               paths \in SUBSET (UNION {ToSet(use.paths) : use \in ToolUses}) :
            Append1([type |-> "snapshot", turn |-> turn, paths |-> paths])
      BY <2>4 DEF AgentSnapshots
    <3>2. [type |-> "snapshot", turn |-> turn, paths |-> paths] \in Line
      BY DEF Line, IngestTypes
    <3> QED
      BY <3>1, <3>2 DEF Append1
  <2> QED
    BY <2>1, <2>2, <2>3, <2>4 DEF Agent
<1>2. PICK record \in Line : lines' = Append(lines, record)
  BY <1>1
<1>3. lines \in Seq(Line)
  BY DEF IngestTypes
<1>4. /\ lines' \in Seq(Line)
      /\ Len(lines') = Len(lines) + 1
      /\ \A i \in 1..Len(lines) : lines'[i] = lines[i]
  BY <1>2, <1>3
<1> QED
  BY <1>1, <1>4 DEF SamePrefix

(* The next step to store is one of the file's, in its turn.                *)
LEMMA NextStepTypes ==
  ASSUME IngestTypes, NEW p \in Ingesters, pc[p] = "steps", StepsLeft(p) # {}
  PROVE  /\ Min(StepsLeft(p)) \in StepsLeft(p)
         /\ \A i \in StepsLeft(p) : Min(StepsLeft(p)) <= i
         /\ Min(StepsLeft(p)) \in 1..all[p]
         /\ lines[Min(StepsLeft(p))].key \in Keys
         /\ lines[Min(StepsLeft(p))].key \in KeysAt(lines, all[p])
<1>1. all[p] \in Nat /\ all[p] <= Len(lines) /\ lines \in Seq(Line)
  <2>1. ReadOK(p) /\ got \in [Ingesters -> Nat] /\ lines \in Seq(Line)
    BY DEF IngestTypes
  <2> QED
    BY <2>1 DEF ReadOK
<1>2. StepsLeft(p) \in SUBSET (1..all[p]) /\ StepsLeft(p) \subseteq Nat
  BY <1>1 DEF StepsLeft, GroupStarts
<1>3. /\ Min(StepsLeft(p)) \in StepsLeft(p)
      /\ \A i \in StepsLeft(p) : Min(StepsLeft(p)) <= i
  BY <1>2, MinIsLeast
<1> DEFINE next == Min(StepsLeft(p))
<1>4. next \in 1..all[p] /\ IsAssistant(lines, next)
  BY <1>2, <1>3 DEF StepsLeft, GroupStarts
<1> HIDE DEF next
<1>5. lines[next] \in Line
  BY <1>1, <1>4
<1>6. lines[next].key \in Keys
  BY <1>4, <1>5 DEF Line, IsAssistant
<1>7. lines[next].key \in KeysAt(lines, all[p])
  BY <1>4 DEF KeysAt
<1> QED
  BY <1>3, <1>4, <1>6, <1>7 DEF next

(* The types hold at first.                                                 *)
LEMMA InitIngestTypes == Init => IngestTypes
<1> SUFFICES ASSUME Init PROVE IngestTypes
  OBVIOUS
<1>1. Absent \in Outcomes \union {Absent} /\ Absent \in RunStatuses \union {Absent}
  OBVIOUS
<1>2. lines \in Seq(Line) /\ Len(lines) = 0 /\ cursor = 0 /\ crashes = 0
  BY DEF Init
<1>3. \A p \in Ingesters : pc[p] = "idle"
  BY DEF Init
<1> QED
  BY <1>1, <1>2, <1>3, IngestConstants DEF Init, IngestTypes, Phases, ReadOK

(* An ingest that goes on replaces its own locals and no other's.           *)
LEMMA OthersRead ==
  ASSUME IngestTypes, NEW p \in Ingesters, runs \subseteq runs', UNCHANGED lines,
         \A q \in Ingesters \ {p} :
           /\ pc'[q] = pc[q] /\ got'[q] = got[q] /\ all'[q] = all[q] /\ run'[q] = run[q],
         ReadOK(p)'
  PROVE  \A q \in Ingesters : ReadOK(q)'
<1>1. \A q \in Ingesters \ {p} : ReadOK(q)
  BY DEF IngestTypes
<1>2. \A q \in Ingesters \ {p} : ReadOK(q)'
  BY <1>1 DEF ReadOK
<1> QED
  BY <1>2

(* The agent's lines leave what was read inside the file.                   *)
LEMMA AgentTypes == ASSUME IngestTypes, Agent PROVE IngestTypes'
<1>1. /\ lines' \in Seq(Line)
      /\ Len(lines') = Len(lines) + 1
      /\ UNCHANGED <<store, locals, crashes>>
  BY AgentAppends
<1>2. Len(lines) \in Nat
  BY DEF IngestTypes
<1>3. \A p \in Ingesters : ReadOK(p) /\ got[p] \in Nat /\ all[p] \in Nat
  BY DEF IngestTypes
<1>4. \A p \in Ingesters : ReadOK(p)'
  BY <1>1, <1>2, <1>3 DEF ReadOK, store, locals
<1> QED
  BY <1>1, <1>2, <1>4 DEF IngestTypes, store, locals

(* Opening and reading the file keep the types.                             *)
LEMMA OpenTypes == ASSUME IngestTypes, NEW p \in Ingesters, Open(p) PROVE IngestTypes'
<1>1. Len(lines) \in Nat /\ cursor \in 0..Len(lines) /\ Len(lines) > cursor
  BY DEF IngestTypes, Open
<1>2. /\ pc' \in [Ingesters -> Phases]
      /\ got' \in [Ingesters -> Nat]
      /\ all' \in [Ingesters -> Nat]
  BY <1>1 DEF IngestTypes, Open, Phases
<1>3. ReadOK(p)'
  BY <1>1 DEF IngestTypes, Open, ReadOK
<1>4. \A q \in Ingesters : ReadOK(q)'
  BY <1>3, OthersRead DEF Open, store, IngestTypes
<1> QED
  BY <1>2, <1>4 DEF IngestTypes, Open, store

LEMMA FindRunTypes == ASSUME IngestTypes, NEW p \in Ingesters, FindRun(p) PROVE IngestTypes'
<1>1. PICK n \in got[p]..Len(lines) : all' = [all EXCEPT ![p] = IF @ = 0 THEN n ELSE @]
  BY DEF FindRun
<1>2. /\ Len(lines) \in Nat /\ got[p] \in 1..Len(lines) /\ all[p] \in {0, got[p]}
      /\ n \in Nat /\ lines' = lines /\ got' = got /\ runs' = runs
  <2>1. ReadOK(p) /\ lines \in Seq(Line) /\ got \in [Ingesters -> Nat]
    BY DEF IngestTypes
  <2> QED
    BY <2>1 DEF FindRun, ReadOK, store
<1>3. all'[p] \in got[p]..Len(lines) /\ all' \in [Ingesters -> Nat]
  BY <1>1, <1>2 DEF IngestTypes
<1>4. /\ pc' \in [Ingesters -> Phases]
      /\ pc'[p] \in {"insertRun", "steps"}
      /\ run' \in [Ingesters -> RunIds \union {NoRun}]
      /\ pc'[p] = "steps" => run'[p] \in runs
      /\ todo' \in [Ingesters -> Nat]
  BY DEF IngestTypes, FindRun, Phases
<1>5. ReadOK(p)'
  BY <1>2, <1>3, <1>4 DEF ReadOK
<1>6. \A q \in Ingesters \ {p} :
        /\ pc'[q] = pc[q] /\ got'[q] = got[q] /\ all'[q] = all[q] /\ run'[q] = run[q]
  BY DEF FindRun, IngestTypes
<1>7. \A q \in Ingesters : ReadOK(q)'
  BY <1>2, <1>5, <1>6, OthersRead
<1> QED
  BY <1>2, <1>3, <1>4, <1>7 DEF IngestTypes, FindRun, store

LEMMA InsertRunTypes == ASSUME IngestTypes, NEW p \in Ingesters, InsertRun(p) PROVE IngestTypes'
<1>1. PICK r \in RunIds \ runs :
        /\ runs' = runs \union {r}
        /\ status' = [status EXCEPT ![r] = "in_progress"]
        /\ run' = [run EXCEPT ![p] = r]
  BY DEF InsertRun
<1>2. /\ pc' \in [Ingesters -> Phases]
      /\ runs' \in SUBSET RunIds
      /\ status' \in [RunIds -> RunStatuses \union {Absent}]
      /\ run' \in [Ingesters -> RunIds \union {NoRun}]
  BY <1>1 DEF IngestTypes, InsertRun, Phases, RunStatuses
<1>3. ReadOK(p)'
  BY <1>1 DEF IngestTypes, InsertRun, ReadOK
<1>4. \A q \in Ingesters : ReadOK(q)'
  BY <1>1, <1>3, OthersRead DEF InsertRun, IngestTypes
<1> QED
  BY <1>2, <1>4 DEF IngestTypes, InsertRun

LEMMA PutStepTypes == ASSUME IngestTypes, NEW p \in Ingesters, PutStep(p) PROVE IngestTypes'
<1>1. /\ pc[p] = "steps" /\ pc'[p] \in {"steps", "rows"}
      /\ pc' \in [Ingesters -> Phases]
      /\ UNCHANGED <<lines, runs, status, total, cursor, got, all, run, crashes>>
  BY DEF IngestTypes, PutStep, Phases
<1>2. /\ steps' \in [RunIds -> [Keys -> Outcomes \union {Absent}]]
      /\ todo' \in [Ingesters -> Nat]
  <2>1. CASE StepsLeft(p) # {}
    <3> DEFINE next == Min(StepsLeft(p))
    <3>1. lines[next].key \in Keys /\ next \in 1..all[p] /\ all[p] \in Nat
      BY <1>1, <2>1, NextStepTypes DEF IngestTypes
    <3> HIDE DEF next
    <3>2. /\ steps' = [steps EXCEPT ![run[p]][lines[next].key]
                                      = OutcomeAt(lines, lines[next].key, all[p])]
          /\ todo' = [todo EXCEPT ![p] = next + 1]
      BY <2>1 DEF PutStep, UpsertStep, next
    <3>3. OutcomeAt(lines, lines[next].key, all[p]) \in Outcomes \union {Absent}
      BY OutcomeTypes
    <3>4. /\ steps \in [RunIds -> [Keys -> Outcomes \union {Absent}]]
          /\ todo \in [Ingesters -> Nat]
      BY DEF IngestTypes
    <3>5. steps' \in [RunIds -> [Keys -> Outcomes \union {Absent}]]
      BY <3>2, <3>3, <3>4
    <3>6. todo' \in [Ingesters -> Nat]
      BY <3>1, <3>2, <3>4
    <3> QED
      BY <3>5, <3>6
  <2>2. CASE StepsLeft(p) = {}
    <3>1. steps' = steps /\ todo' = [todo EXCEPT ![p] = 1]
      BY <2>2 DEF PutStep
    <3> QED
      BY <3>1 DEF IngestTypes
  <2> QED
    BY <2>1, <2>2
<1>3. \A q \in Ingesters \ {p} : pc'[q] = pc[q]
  BY DEF PutStep, IngestTypes
<1>4. ReadOK(p)'
  <2>1. ReadOK(p)
    BY DEF IngestTypes
  <2> QED
    BY <1>1, <2>1 DEF ReadOK
<1>5. \A q \in Ingesters : ReadOK(q)'
  BY <1>1, <1>3, <1>4, OthersRead
<1> QED
  BY <1>1, <1>2, <1>5 DEF IngestTypes

LEMMA PutRowTypes == ASSUME IngestTypes, NEW p \in Ingesters, PutRow(p) PROVE IngestTypes'
<1>1. /\ pc[p] = "rows" /\ pc'[p] \in {"rows", "status"}
      /\ pc' \in [Ingesters -> Phases]
      /\ todo' \in [Ingesters -> Nat]
      /\ UNCHANGED <<lines, runs, steps, status, total, cursor, got, all, run, crashes>>
      /\ \A q \in Ingesters \ {p} : pc'[q] = pc[q]
  <2>1. /\ pc[p] = "rows"
        /\ \/ pc' = pc /\ todo' = [todo EXCEPT ![p] = @ + 1]
           \/ pc' = [pc EXCEPT ![p] = "status"] /\ todo' = todo
        /\ UNCHANGED <<lines, runs, steps, status, total, cursor, got, all, run, crashes>>
    BY DEF PutRow
  <2>2. pc \in [Ingesters -> Phases] /\ todo \in [Ingesters -> Nat]
    BY DEF IngestTypes
  <2>3. /\ pc'[p] \in {"rows", "status"}
        /\ pc' \in [Ingesters -> Phases]
        /\ \A q \in Ingesters \ {p} : pc'[q] = pc[q]
    BY <2>1, <2>2 DEF Phases
  <2>4. todo' \in [Ingesters -> Nat]
    BY <2>1, <2>2
  <2> QED
    BY <2>1, <2>3, <2>4
<1>2. ReadOK(p)'
  <2>1. ReadOK(p)
    BY DEF IngestTypes
  <2> QED
    BY <1>1, <2>1 DEF ReadOK
<1>3. \A q \in Ingesters : ReadOK(q)'
  BY <1>1, <1>2, OthersRead
<1> QED
  BY <1>1, <1>3 DEF IngestTypes

LEMMA SetStatusTypes == ASSUME IngestTypes, NEW p \in Ingesters, SetStatus(p) PROVE IngestTypes'
<1>1. /\ pc[p] = "status" /\ pc'[p] = "totals"
      /\ pc' \in [Ingesters -> Phases]
      /\ UNCHANGED <<lines, runs, steps, total, rows, cursor, got, all, run, todo, crashes>>
      /\ \A q \in Ingesters \ {p} : pc'[q] = pc[q]
  BY DEF IngestTypes, SetStatus, Phases
<1>2. RunStatusAt(lines, all[p]) \in RunStatuses
  BY DEF RunStatusAt, RunStatuses
<1>3. status' \in [RunIds -> RunStatuses \union {Absent}]
  BY <1>2 DEF IngestTypes, SetStatus
<1>4. ReadOK(p)'
  <2>1. ReadOK(p)
    BY DEF IngestTypes
  <2> QED
    BY <1>1, <2>1 DEF ReadOK
<1>5. \A q \in Ingesters : ReadOK(q)'
  BY <1>1, <1>4, OthersRead
<1> QED
  BY <1>1, <1>3, <1>5 DEF IngestTypes

LEMMA UpdateTotalsTypes ==
  ASSUME IngestTypes, NEW p \in Ingesters, UpdateTotals(p) PROVE IngestTypes'
<1>1. /\ pc[p] = "totals" /\ pc'[p] = "offset"
      /\ pc' \in [Ingesters -> Phases]
      /\ DOMAIN total' = RunIds
      /\ UNCHANGED <<lines, runs, steps, status, rows, cursor, got, all, run, todo, crashes>>
      /\ \A q \in Ingesters \ {p} : pc'[q] = pc[q]
  BY DEF IngestTypes, UpdateTotals, Phases
<1>2. ReadOK(p)'
  <2>1. ReadOK(p)
    BY DEF IngestTypes
  <2> QED
    BY <1>1, <2>1 DEF ReadOK
<1>3. \A q \in Ingesters : ReadOK(q)'
  BY <1>1, <1>2, OthersRead
<1> QED
  BY <1>1, <1>3 DEF IngestTypes

(* An ingest that ends or is killed has no locals left.                     *)
LEMMA ForgetTypes ==
  ASSUME IngestTypes, NEW p \in Ingesters, Forget(p), UNCHANGED <<lines, runs>>
  PROVE  /\ pc' \in [Ingesters -> Phases]
         /\ got' \in [Ingesters -> Nat]
         /\ all' \in [Ingesters -> Nat]
         /\ run' \in [Ingesters -> RunIds \union {NoRun}]
         /\ todo' \in [Ingesters -> Nat]
         /\ pc'[p] = "idle"
         /\ \A q \in Ingesters \ {p} :
              /\ pc'[q] = pc[q] /\ got'[q] = got[q] /\ all'[q] = all[q] /\ run'[q] = run[q]
         /\ \A q \in Ingesters : ReadOK(q)'
<1>1. /\ pc' \in [Ingesters -> Phases]
      /\ got' \in [Ingesters -> Nat]
      /\ all' \in [Ingesters -> Nat]
      /\ run' \in [Ingesters -> RunIds \union {NoRun}]
      /\ todo' \in [Ingesters -> Nat]
      /\ pc'[p] = "idle"
  BY DEF IngestTypes, Forget, Phases
<1>2. \A q \in Ingesters \ {p} :
        /\ pc'[q] = pc[q] /\ got'[q] = got[q] /\ all'[q] = all[q] /\ run'[q] = run[q]
  BY DEF IngestTypes, Forget
<1>3. ReadOK(p)'
  BY <1>1 DEF ReadOK
<1> QED
  BY <1>1, <1>2, <1>3, OthersRead

LEMMA SetOffsetTypes == ASSUME IngestTypes, NEW p \in Ingesters, SetOffset(p) PROVE IngestTypes'
<1>1. Len(lines) \in Nat /\ got[p] \in 1..Len(lines)
  <2>1. ReadOK(p) /\ lines \in Seq(Line)
    BY DEF IngestTypes
  <2> QED
    BY <2>1 DEF ReadOK, SetOffset
<1>2. cursor' \in 0..Len(lines') /\ UNCHANGED <<lines, runs, steps, status, total, crashes>>
  BY <1>1 DEF SetOffset
<1> QED
  BY <1>2, ForgetTypes DEF IngestTypes, SetOffset

LEMMA CrashTypes == ASSUME IngestTypes, NEW p \in Ingesters, Crash(p) PROVE IngestTypes'
<1>1. crashes' \in 0..MaxCrashes /\ UNCHANGED <<lines, runs, steps, status, total, cursor>>
  BY IngestConstants DEF IngestTypes, Crash, store
<1> QED
  BY <1>1, ForgetTypes DEF IngestTypes, Crash

(* Every step keeps the types.                                              *)
LEMMA IngestTypesKept == IngestTypes /\ [Next]_vars => IngestTypes'
<1> SUFFICES ASSUME IngestTypes, [Next]_vars PROVE IngestTypes'
  OBVIOUS
<1>1. CASE Agent
  BY <1>1, AgentTypes
<1>2. CASE WatchInsert
  <2>1. UNCHANGED <<lines, runs, steps, status, total, cursor, locals, crashes>>
    BY <1>2 DEF WatchInsert
  <2> QED
    BY <2>1 DEF IngestTypes, locals, ReadOK
<1>3. CASE \E p \in Ingesters : IngestStep(p) \/ Crash(p)
  BY <1>3, OpenTypes, FindRunTypes, InsertRunTypes, PutStepTypes, PutRowTypes,
     SetStatusTypes, UpdateTotalsTypes, SetOffsetTypes, CrashTypes DEF IngestStep
<1>4. CASE UNCHANGED vars
  BY <1>4 DEF vars, store, locals, IngestTypes, ReadOK
<1> QED
  BY <1>1, <1>2, <1>3, <1>4 DEF Next

(***************************************************************************)
(* The types of the session file, its rows in the store and the ingests in *)
(* flight.  What later proofs use most of it: whatever interleaving of     *)
(* ingests, a saved offset and every count read lie inside the file        *)
(* (ingestSession never saves an offset past what it has read).            *)
(***************************************************************************)
THEOREM IngestTypeCorrect == Spec => []IngestTypes
BY InitIngestTypes, IngestTypesKept, PTL DEF Spec

(***************************************************************************)
(* Stored outcomes.                                                        *)
(***************************************************************************)

(* What a step of the ingest may do to the stored steps: nothing, or give   *)
(* one step of one run the outcome a prefix of the file says.               *)
LEMMA StepsChange ==
  ASSUME IngestTypes, [Next]_vars
  PROVE  \/ steps' = steps
         \/ \E p \in Ingesters :
              /\ PutStep(p)
              /\ pc[p] = "steps" /\ StepsLeft(p) # {} /\ pc'[p] = "steps"
              /\ LET key == lines[Min(StepsLeft(p))].key
                 IN  steps' = [steps EXCEPT ![run[p]][key] = OutcomeAt(lines, key, all[p])]
<1>1. CASE Agent
  BY <1>1, AgentAppends DEF store
<1>2. CASE WatchInsert
  BY <1>2 DEF WatchInsert
<1>3. ASSUME NEW p \in Ingesters, PutStep(p), steps' # steps
      PROVE  /\ pc[p] = "steps" /\ StepsLeft(p) # {} /\ pc'[p] = "steps"
             /\ LET key == lines[Min(StepsLeft(p))].key
                IN  steps' = [steps EXCEPT ![run[p]][key] = OutcomeAt(lines, key, all[p])]
  <2>1. pc[p] = "steps" /\ StepsLeft(p) # {}
    BY <1>3 DEF PutStep
  <2>2. /\ pc' = pc
        /\ LET key == lines[Min(StepsLeft(p))].key
           IN  steps' = [steps EXCEPT ![run[p]][key] = OutcomeAt(lines, key, all[p])]
    BY <1>3, <2>1 DEF PutStep, UpsertStep
  <2> QED
    BY <2>1, <2>2
<1>4. ASSUME NEW p \in Ingesters,
             \/ Open(p) \/ FindRun(p) \/ InsertRun(p) \/ PutRow(p) \/ SetStatus(p)
             \/ UpdateTotals(p) \/ SetOffset(p) \/ Crash(p)
      PROVE  steps' = steps
  BY <1>4 DEF Open, FindRun, InsertRun, PutRow, SetStatus, UpdateTotals, SetOffset, Crash, store
<1>5. CASE UNCHANGED vars
  BY <1>5 DEF vars, store
<1> QED
  BY <1>1, <1>2, <1>3, <1>4, <1>5 DEF Next, IngestStep

(* The file only grows.                                                     *)
LEMMA LinesGrow ==
  ASSUME IngestTypes, [Next]_vars
  PROVE  /\ Len(lines) \in Nat /\ Len(lines') \in Nat /\ Len(lines) <= Len(lines')
         /\ SamePrefix(lines', lines, Len(lines))
<1>1. Len(lines) \in Nat
  BY DEF IngestTypes
<1>2. CASE Agent
  BY <1>1, <1>2, AgentAppends
<1>3. CASE ~Agent
  <2>1. lines' = lines
    BY <1>3 DEF Next, WatchInsert, IngestStep, Open, FindRun, InsertRun, PutStep, PutRow,
                SetStatus, UpdateTotals, SetOffset, Crash, vars
  <2> QED
    BY <1>1, <2>1 DEF SamePrefix
<1> QED
  BY <1>2, <1>3

LEMMA NothingInventedKept ==
  IngestTypes /\ NothingInvented /\ [Next]_vars => NothingInvented'
<1> DEFINE Said(a, key, m, outcome) ==
             key \in KeysAt(a, m) /\ outcome = OutcomeAt(a, key, m)
<1> SUFFICES ASSUME IngestTypes, NothingInvented, [Next]_vars,
                    NEW r \in RunIds, NEW key \in Keys, steps'[r][key] # Absent
             PROVE  \E m \in 1..Len(lines') : Said(lines', key, m, steps'[r][key])
  BY DEF NothingInvented, StepsOf
<1>1. /\ Len(lines) \in Nat /\ Len(lines') \in Nat /\ Len(lines) <= Len(lines')
      /\ SamePrefix(lines', lines, Len(lines))
  BY LinesGrow
<1>2. ASSUME NEW m \in 1..Len(lines), Said(lines, key, m, steps'[r][key])
      PROVE  \E n \in 1..Len(lines') : Said(lines', key, n, steps'[r][key])
  <2>1. SamePrefix(lines', lines, m) /\ m \in Nat /\ m \in 1..Len(lines')
    BY <1>1 DEF SamePrefix
  <2>2. /\ OutcomeAt(lines', key, m) = OutcomeAt(lines, key, m)
        /\ KeysAt(lines', m) = KeysAt(lines, m)
    BY <2>1, PrefixOutcome, PrefixSteps
  <2> QED
    BY <1>2, <2>1, <2>2
<1>3. CASE steps'[r][key] = steps[r][key]
  <2>1. \E m \in 1..Len(lines) : Said(lines, key, m, steps[r][key])
    BY <1>3 DEF NothingInvented, StepsOf
  <2> QED
    BY <1>2, <1>3, <2>1
<1>4. CASE steps'[r][key] # steps[r][key]
  <2>1. PICK p \in Ingesters :
          /\ pc[p] = "steps"
          /\ StepsLeft(p) # {}
          /\ LET k == lines[Min(StepsLeft(p))].key
             IN  steps' = [steps EXCEPT ![run[p]][k] = OutcomeAt(lines, k, all[p])]
    BY <1>4, StepsChange
  <2>2. /\ key = lines[Min(StepsLeft(p))].key
        /\ steps'[r][key] = OutcomeAt(lines, key, all[p])
    BY <1>4, <2>1 DEF IngestTypes
  <2>3. key \in KeysAt(lines, all[p])
    BY <2>1, <2>2, NextStepTypes
  <2>4. all[p] \in 1..Len(lines)
    <3>1. ReadOK(p)
      BY DEF IngestTypes
    <3> QED
      BY <1>1, <2>1, <3>1 DEF ReadOK
  <2> QED
    BY <1>2, <2>2, <2>3, <2>4
<1> QED
  BY <1>3, <1>4

(***************************************************************************)
(* A stored outcome is what some prefix of the file said, for any number of *)
(* ingests that upsert the same steps over each other (insertStep after    *)
(* buildSteps, adapters/claude-code/src/ingest.ts): two of them never make *)
(* a mixture the file never had.                                           *)
(***************************************************************************)
THEOREM NothingInventedHolds == Spec => []NothingInvented
<1>1. Init => NothingInvented
  BY DEF Init, NothingInvented, StepsOf
<1> QED
  BY <1>1, InitIngestTypes, IngestTypesKept, NothingInventedKept, PTL DEF Spec

(***************************************************************************)
(* The watch rows have no other source: an ingest, which upserts the step  *)
(* they hang off again and again, never removes one (insertStep).          *)
(***************************************************************************)
THEOREM WatchRowsStay == Spec => WatchRowsSurvive
<1>1. Init => IngestTypes
  BY InitIngestTypes
<1>2. IngestTypes /\ [Next]_vars => IngestTypes'
  BY IngestTypesKept
<1>3. IngestTypes /\ [Next]_vars
        => [\A row \in rows : row.by = "filesystem_watch" => row \in rows']_vars
  <2> SUFFICES ASSUME IngestTypes, Next, NEW row \in rows PROVE row \in rows'
    BY DEF vars
  <2>1. CASE Agent
    BY <2>1, AgentAppends DEF store
  <2>2. CASE WatchInsert
    BY <2>2 DEF WatchInsert, InsertFileChange
  <2>3. ASSUME NEW p \in Ingesters, PutRow(p) PROVE row \in rows'
    BY <2>3 DEF PutRow, InsertFileChange
  <2>4. ASSUME NEW p \in Ingesters, IngestStep(p) \/ Crash(p), ~PutRow(p) PROVE row \in rows'
    BY <2>4 DEF IngestStep, Open, FindRun, InsertRun, PutStep, UpsertStep, SetStatus,
                UpdateTotals, SetOffset, Crash, store
  <2> QED
    BY <2>1, <2>2, <2>3, <2>4 DEF Next
<1> QED
  BY <1>1, <1>2, <1>3, PTL DEF Spec, WatchRowsSurvive

(***************************************************************************)
(* Complete runs.                                                          *)
(*                                                                         *)
(* SomeRunComplete is not inductive: an ingest about to save the end of    *)
(* the file as the offset must have a complete run behind it.  It has,     *)
(* because it has stored each group before its counter, whatever others    *)
(* did to the same rows meanwhile: no step is ever removed, and none is    *)
(* stored that the file does not have.                                     *)
(***************************************************************************)
StoredSoFar(p) ==
  /\ pc[p] = "insertRun" => todo[p] = 1
  /\ pc[p] = "steps" =>
       \A i \in GroupStarts(lines, all[p]) :
         i < todo[p] => lines[i].key \in StepsOf(run[p])
  /\ pc[p] \in {"rows", "status", "totals", "offset"} =>
       KeysAt(lines, all[p]) \subseteq StepsOf(run[p])
  /\ pc[p] = "offset" /\ got[p] = Len(lines) => CompleteRun(run[p])

CompleteInv ==
  /\ \A r \in RunIds : StepsOf(r) \subseteq KeysAt(lines, Len(lines))
  /\ \A p \in Ingesters : StoredSoFar(p)
  /\ SomeRunComplete

(* The steps of a run are never removed, and are the file's.                *)
LEMMA StepsOfGrow ==
  ASSUME IngestTypes, CompleteInv, [Next]_vars, NEW r \in RunIds
  PROVE  /\ StepsOf(r) \subseteq StepsOf(r)'
         /\ StepsOf(r)' \subseteq KeysAt(lines, Len(lines))
         /\ StepsOf(r)' \subseteq KeysAt(lines', Len(lines'))
<1>1. /\ Len(lines) \in Nat /\ Len(lines') \in Nat /\ Len(lines) <= Len(lines')
      /\ SamePrefix(lines', lines, Len(lines))
  BY LinesGrow
<1>2. StepsOf(r) \subseteq KeysAt(lines, Len(lines))
  BY DEF CompleteInv
<1>3. /\ StepsOf(r) \subseteq StepsOf(r)'
      /\ StepsOf(r)' \subseteq KeysAt(lines, Len(lines))
  <2>1. CASE steps' = steps
    BY <1>2, <2>1 DEF StepsOf
  <2>2. CASE steps' # steps
    <3>1. PICK p \in Ingesters :
            /\ pc[p] = "steps"
            /\ StepsLeft(p) # {}
            /\ LET k == lines[Min(StepsLeft(p))].key
               IN  steps' = [steps EXCEPT ![run[p]][k] = OutcomeAt(lines, k, all[p])]
      BY <2>2, StepsChange
    <3> DEFINE k == lines[Min(StepsLeft(p))].key
    <3>2. k \in Keys /\ k \in KeysAt(lines, all[p])
      BY <3>1, NextStepTypes
    <3>3. all[p] \in Nat /\ all[p] <= Len(lines)
      <4>1. ReadOK(p)
        BY DEF IngestTypes
      <4> QED
        BY <1>1, <3>1, <4>1 DEF ReadOK, IngestTypes
    <3>4. k \in KeysAt(lines, Len(lines))
      BY <1>1, <3>2, <3>3, KeysGrow
    <3>5. OutcomeAt(lines, k, all[p]) # Absent
      BY OutcomeTypes
    <3>6. steps' = [steps EXCEPT ![run[p]][k] = OutcomeAt(lines, k, all[p])]
      BY <3>1
    <3> HIDE DEF k
    <3>7. \A key \in Keys : \/ steps'[r][key] = steps[r][key]
                            \/ key = k /\ steps'[r][key] # Absent
      BY <3>2, <3>5, <3>6 DEF IngestTypes
    <3> QED
      BY <1>2, <3>4, <3>7 DEF StepsOf
  <2> QED
    BY <2>1, <2>2
<1>4. KeysAt(lines, Len(lines)) = KeysAt(lines', Len(lines))
  BY <1>1, PrefixSteps
<1>5. KeysAt(lines, Len(lines)) \subseteq KeysAt(lines', Len(lines'))
  BY <1>1, <1>4, KeysGrow
<1> QED
  BY <1>3, <1>5

(* While the file stays as it is, a complete run stays complete.            *)
LEMMA CompleteStays ==
  ASSUME IngestTypes, CompleteInv, [Next]_vars, lines' = lines,
         NEW r \in RunIds, CompleteRun(r)
  PROVE  CompleteRun(r)'
<1>1. StepsOf(r) = KeysAt(lines, Len(lines)) /\ StepsOf(r)' = StepsOf(r)
  BY StepsOfGrow DEF CompleteRun
<1>2. total'[r] = total[r] \/ total'[r] = Cardinality(StepsOf(r))
  <2>1. CASE \E p \in Ingesters : UpdateTotals(p)
    BY <2>1 DEF UpdateTotals, IngestTypes
  <2>2. CASE ~ \E p \in Ingesters : UpdateTotals(p)
    <3>1. total' = total
      BY <2>2, AgentAppends
      DEF Next, WatchInsert, IngestStep, Open, FindRun, InsertRun, PutStep, PutRow,
          SetStatus, SetOffset, Crash, vars, store
    <3> QED
      BY <3>1
  <2> QED
    BY <2>1, <2>2
<1> QED
  BY <1>1, <1>2 DEF CompleteRun

(* What an ingest has stored stays stored, whatever others do and however   *)
(* the file grows.                                                          *)
LEMMA StoredStays ==
  ASSUME IngestTypes, CompleteInv, [Next]_vars, NEW p \in Ingesters,
         pc'[p] = pc[p], got'[p] = got[p], all'[p] = all[p], run'[p] = run[p],
         todo'[p] = todo[p]
  PROVE  StoredSoFar(p)'
<1>1. /\ Len(lines) \in Nat /\ Len(lines') \in Nat /\ Len(lines) <= Len(lines')
      /\ SamePrefix(lines', lines, Len(lines))
  BY LinesGrow
<1>2. StoredSoFar(p) /\ ReadOK(p)
  BY DEF CompleteInv, IngestTypes
<1>3. CASE pc[p] \in {"idle", "open", "insertRun"}
  BY <1>2, <1>3 DEF StoredSoFar
<1>4. CASE pc[p] \notin {"idle", "open", "insertRun"}
  <2>1. got[p] \in 1..Len(lines) /\ all[p] \in got[p]..Len(lines) /\ run[p] \in runs
    BY <1>2, <1>4 DEF ReadOK
  <2>2. all[p] \in Nat /\ SamePrefix(lines', lines, all[p]) /\ run[p] \in RunIds
    BY <1>1, <2>1 DEF SamePrefix, IngestTypes
  <2>3. StepsOf(run[p]) \subseteq StepsOf(run[p])'
    BY <2>2, StepsOfGrow
  <2>4. /\ GroupStarts(lines', all[p]) = GroupStarts(lines, all[p])
        /\ KeysAt(lines', all[p]) = KeysAt(lines, all[p])
    BY <2>2, PrefixSteps
  <2>5. \A i \in GroupStarts(lines, all[p]) : lines'[i].key = lines[i].key
    BY <2>2 DEF GroupStarts, SamePrefix
  <2>6. pc[p] = "steps" =>
          \A i \in GroupStarts(lines', all[p]) : i < todo[p] => lines'[i].key \in StepsOf(run[p])'
    BY <1>2, <2>3, <2>4, <2>5 DEF StoredSoFar
  <2>7. pc[p] \in {"rows", "status", "totals", "offset"} =>
          KeysAt(lines', all[p]) \subseteq StepsOf(run[p])'
    BY <1>2, <2>3, <2>4 DEF StoredSoFar
  <2>8. pc[p] = "offset" /\ got[p] = Len(lines') => CompleteRun(run[p])'
    <3> SUFFICES ASSUME pc[p] = "offset", got[p] = Len(lines') PROVE CompleteRun(run[p])'
      OBVIOUS
    <3>1. Len(lines') = Len(lines)
      BY <1>1, <2>1
    <3>2. ~Agent
      BY <1>1, <3>1, AgentAppends
    <3>3. lines' = lines
      BY <3>2 DEF Next, WatchInsert, IngestStep, Open, FindRun, InsertRun, PutStep, PutRow,
                  SetStatus, UpdateTotals, SetOffset, Crash, vars
    <3>4. CompleteRun(run[p])
      BY <1>2, <3>1 DEF StoredSoFar
    <3> QED
      BY <2>2, <3>3, <3>4, CompleteStays
  <2> QED
    BY <1>4, <2>6, <2>7, <2>8 DEF StoredSoFar, StepsOf, CompleteRun
<1> QED
  BY <1>3, <1>4

(* What an ingest has stored, after a step of its own.                      *)
LEMMA PutStepStores ==
  ASSUME IngestTypes, CompleteInv, NEW p \in Ingesters, PutStep(p)
  PROVE  StoredSoFar(p)'
<1>1. /\ pc[p] = "steps" /\ run[p] \in RunIds /\ all[p] \in Nat
      /\ UNCHANGED <<lines, all, run>>
  <2>1. ReadOK(p) /\ runs \in SUBSET RunIds /\ all \in [Ingesters -> Nat]
    BY DEF IngestTypes
  <2> QED
    BY <2>1 DEF PutStep, ReadOK
<1>2. StepsOf(run[p]) \subseteq StepsOf(run[p])'
  <2>1. [Next]_vars
    BY DEF Next, IngestStep
  <2> QED
    BY <1>1, <2>1, StepsOfGrow
<1>3. \A i \in GroupStarts(lines, all[p]) : i < todo[p] => lines[i].key \in StepsOf(run[p])
  BY <1>1 DEF CompleteInv, StoredSoFar
<1>4. CASE StepsLeft(p) # {}
  <2> DEFINE next == Min(StepsLeft(p))
             k == lines[next].key
  <2>1. /\ \A i \in StepsLeft(p) : next <= i
        /\ next \in 1..all[p] /\ k \in Keys
    BY <1>1, <1>4, NextStepTypes
  <2>2. /\ pc' = pc
        /\ steps' = [steps EXCEPT ![run[p]][k] = OutcomeAt(lines, k, all[p])]
        /\ todo' = [todo EXCEPT ![p] = next + 1]
    BY <1>4 DEF PutStep, UpsertStep
  <2>3. OutcomeAt(lines, k, all[p]) # Absent
    BY OutcomeTypes
  <2> HIDE DEF k, next
  <2>4. k \in StepsOf(run[p])'
    BY <1>1, <2>1, <2>2, <2>3 DEF StepsOf, IngestTypes
  <2>5. todo'[p] = next + 1 /\ pc'[p] = "steps" /\ todo[p] \in Nat
    BY <1>1, <2>2 DEF IngestTypes
  <2>6. ASSUME NEW i \in GroupStarts(lines, all[p]), i < next + 1
        PROVE  lines[i].key \in StepsOf(run[p])'
    <3>1. i \in Nat /\ next \in Nat
      BY <1>1, <2>1 DEF GroupStarts
    <3>2. CASE i < todo[p]
      BY <1>2, <1>3, <3>2
    <3>3. CASE ~(i < todo[p])
      <4>1. i \in StepsLeft(p)
        BY <2>5, <3>1, <3>3 DEF StepsLeft
      <4>2. i = next
        BY <2>1, <2>6, <3>1, <4>1
      <4> QED
        BY <2>4, <4>2 DEF k
    <3> QED
      BY <3>2, <3>3
  <2> QED
    BY <1>1, <2>5, <2>6 DEF StoredSoFar, StepsOf
<1>5. CASE StepsLeft(p) = {}
  <2>1. pc'[p] = "rows"
    BY <1>5 DEF PutStep, IngestTypes
  <2>2. todo[p] \in Nat
    BY DEF IngestTypes
  <2>3. \A i \in GroupStarts(lines, all[p]) : i < todo[p]
    BY <1>1, <1>5, <2>2 DEF StepsLeft, GroupStarts
  <2>4. KeysAt(lines, all[p]) \subseteq StepsOf(run[p])'
    BY <1>1, <1>2, <1>3, <2>3, StartsNameSteps
  <2> QED
    BY <1>1, <2>1, <2>4 DEF StoredSoFar, StepsOf
<1> QED
  BY <1>4, <1>5

LEMMA UpdateTotalsCompletes ==
  ASSUME IngestTypes, CompleteInv, NEW p \in Ingesters, UpdateTotals(p)
  PROVE  StoredSoFar(p)'
<1>1. /\ pc[p] = "totals" /\ pc'[p] = "offset" /\ run[p] \in RunIds
      /\ got[p] \in 1..Len(lines) /\ all[p] \in got[p]..Len(lines)
      /\ UNCHANGED <<lines, steps, got, all, run>>
  <2>1. ReadOK(p) /\ runs \in SUBSET RunIds /\ pc \in [Ingesters -> Phases]
    BY DEF IngestTypes
  <2> QED
    BY <2>1 DEF UpdateTotals, ReadOK
<1>2. KeysAt(lines, all[p]) \subseteq StepsOf(run[p])
  BY <1>1 DEF CompleteInv, StoredSoFar
<1>3. total'[run[p]] = Cardinality(StepsOf(run[p])) /\ StepsOf(run[p])' = StepsOf(run[p])
  BY <1>1 DEF UpdateTotals, IngestTypes, StepsOf
<1>4. got[p] = Len(lines) => CompleteRun(run[p])'
  <2> SUFFICES ASSUME got[p] = Len(lines) PROVE CompleteRun(run[p])'
    OBVIOUS
  <2>1. Len(lines) \in Nat
    BY DEF IngestTypes
  <2>2. all[p] = Len(lines)
    BY <1>1, <2>1
  <2>3. StepsOf(run[p]) = KeysAt(lines, Len(lines))
    BY <1>1, <1>2, <2>2 DEF CompleteInv
  <2> QED
    BY <1>1, <1>3, <2>3 DEF CompleteRun
<1> QED
  BY <1>1, <1>2, <1>3, <1>4 DEF StoredSoFar, CompleteRun, StepsOf

LEMMA OwnStepStores ==
  ASSUME IngestTypes, CompleteInv, NEW p \in Ingesters, IngestStep(p) \/ Crash(p)
  PROVE  StoredSoFar(p)'
<1>1. p \in DOMAIN pc /\ p \in DOMAIN todo /\ all[p] \in Nat
  BY DEF IngestTypes
<1>2. StoredSoFar(p)
  BY DEF CompleteInv
<1>3. CASE Open(p) \/ SetOffset(p) \/ Crash(p)
  <2>1. pc'[p] \in {"idle", "open"}
    BY <1>1, <1>3 DEF Open, SetOffset, Crash, Forget
  <2> QED
    BY <2>1 DEF StoredSoFar
<1>4. CASE FindRun(p) \/ InsertRun(p)
  <2>1. todo'[p] = 1 /\ pc'[p] \in {"insertRun", "steps"}
    BY <1>1, <1>2, <1>4 DEF FindRun, InsertRun, StoredSoFar
  <2>2. all'[p] \in Nat /\ lines' = lines
    BY <1>4, IngestTypesKept DEF IngestTypes, FindRun, InsertRun, Next, IngestStep
  <2>3. \A i \in GroupStarts(lines', all'[p]) : ~(i < 1)
    BY <2>2 DEF GroupStarts
  <2> QED
    BY <2>1, <2>3 DEF StoredSoFar
<1>5. CASE PutRow(p) \/ SetStatus(p)
  <2>1. /\ pc[p] \in {"rows", "status"} /\ pc'[p] \in {"rows", "status", "totals"}
        /\ UNCHANGED <<lines, steps, all, run>>
    BY <1>1, <1>5 DEF PutRow, SetStatus
  <2> QED
    BY <1>2, <2>1 DEF StoredSoFar, StepsOf
<1> QED
  BY <1>3, <1>4, <1>5, PutStepStores, UpdateTotalsCompletes DEF IngestStep

LEMMA CompleteInvKept == IngestTypes /\ CompleteInv /\ [Next]_vars => CompleteInv'
<1> SUFFICES ASSUME IngestTypes, CompleteInv, [Next]_vars PROVE CompleteInv'
  OBVIOUS
<1>1. \A r \in RunIds : StepsOf(r)' \subseteq KeysAt(lines', Len(lines'))
  BY StepsOfGrow
<1>2. \A p \in Ingesters : StoredSoFar(p)'
  <2>1. CASE \E q \in Ingesters : IngestStep(q) \/ Crash(q)
    <3>1. PICK q \in Ingesters : IngestStep(q) \/ Crash(q)
      BY <2>1
    <3>2. StoredSoFar(q)'
      BY <3>1, OwnStepStores
    <3>3. ASSUME NEW p \in Ingesters \ {q} PROVE StoredSoFar(p)'
      <4>1. /\ pc'[p] = pc[p] /\ got'[p] = got[p] /\ all'[p] = all[p] /\ run'[p] = run[p]
            /\ todo'[p] = todo[p]
        BY <3>1 DEF IngestStep, Open, FindRun, InsertRun, PutStep, PutRow, SetStatus,
                    UpdateTotals, SetOffset, Crash, Forget, IngestTypes
      <4> QED
        BY <4>1, StoredStays
    <3> QED
      BY <3>2, <3>3
  <2>2. CASE ~ \E q \in Ingesters : IngestStep(q) \/ Crash(q)
    <3>1. UNCHANGED locals
      BY <2>2, AgentAppends DEF Next, WatchInsert, vars
    <3> QED
      BY <3>1, StoredStays DEF locals
  <2> QED
    BY <2>1, <2>2
<1>3. SomeRunComplete'
  <2>1. Len(lines) \in Nat /\ cursor \in 0..Len(lines) /\ runs \in SUBSET RunIds
    BY DEF IngestTypes
  <2>2. CASE Agent
    <3>1. Len(lines') = Len(lines) + 1 /\ cursor' = cursor
      BY <2>2, AgentAppends DEF store
    <3> QED
      BY <2>1, <3>1 DEF SomeRunComplete
  <2>3. CASE ~Agent
    <3>1. lines' = lines
      BY <2>3 DEF Next, WatchInsert, IngestStep, Open, FindRun, InsertRun, PutStep, PutRow,
                  SetStatus, UpdateTotals, SetOffset, Crash, vars
    <3>2. runs \subseteq runs'
      BY <2>3 DEF Next, WatchInsert, IngestStep, Open, FindRun, InsertRun, PutStep, PutRow,
                  SetStatus, UpdateTotals, SetOffset, Crash, vars, store
    <3>3. \A r \in runs : CompleteRun(r) => CompleteRun(r)'
      BY <2>1, <3>1, CompleteStays
    <3>4. CASE \E p \in Ingesters : SetOffset(p)
      <4>1. PICK p \in Ingesters : SetOffset(p)
        BY <3>4
      <4>2. pc[p] = "offset" /\ cursor' = got[p]
        BY <4>1 DEF SetOffset
      <4>3. run[p] \in runs /\ (got[p] = Len(lines) => CompleteRun(run[p]))
        BY <4>2 DEF IngestTypes, ReadOK, CompleteInv, StoredSoFar
      <4> QED
        BY <3>1, <3>2, <3>3, <4>2, <4>3 DEF SomeRunComplete
    <3>5. CASE ~ \E p \in Ingesters : SetOffset(p)
      <4>1. cursor' = cursor
        BY <2>3, <3>5 DEF Next, WatchInsert, IngestStep, Open, FindRun, InsertRun, PutStep,
                          PutRow, SetStatus, UpdateTotals, Crash, vars, store
      <4>2. cursor = Len(lines) /\ cursor > 0 => \E r \in runs : CompleteRun(r)
        BY DEF CompleteInv, SomeRunComplete
      <4> QED
        BY <3>1, <3>2, <3>3, <4>1, <4>2 DEF SomeRunComplete
    <3> QED
      BY <3>4, <3>5
  <2> QED
    BY <2>2, <2>3
<1> QED
  BY <1>1, <1>2, <1>3 DEF CompleteInv

(***************************************************************************)
(* A file read to its end has a complete run, whatever the interleaving of  *)
(* ingests (ingestSession from buildSteps to setIngestOffset): even where  *)
(* two first ingests each made a run, one of them holds every step, with   *)
(* its totals counted after its last.                                      *)
(***************************************************************************)
THEOREM SomeRunIsComplete == Spec => []SomeRunComplete
<1>1. Init => CompleteInv
  BY DEF Init, CompleteInv, StepsOf, StoredSoFar, SomeRunComplete
<1>2. CompleteInv => SomeRunComplete
  BY DEF CompleteInv
<1> QED
  BY <1>1, <1>2, InitIngestTypes, IngestTypesKept, CompleteInvKept, PTL DEF Spec

(***************************************************************************)
(* The mirror.                                                             *)
(*                                                                         *)
(* A sole ingest: the session has one run at most, the offset is behind    *)
(* what the ingest in flight has read, and each step it has stored has the *)
(* outcome its second read gives it.                                       *)
(***************************************************************************)
Mirrored(p) ==
  /\ pc[p] # "idle" => cursor < got[p]
  /\ pc[p] = "steps" =>
       \A i \in GroupStarts(lines, all[p]) :
         i < todo[p] =>
           steps[run[p]][lines[i].key] = OutcomeAt(lines, lines[i].key, all[p])
  /\ pc[p] \in {"rows", "status", "totals", "offset"} =>
       \A key \in KeysAt(lines, all[p]) : steps[run[p]][key] = OutcomeAt(lines, key, all[p])

MirrorInv ==
  /\ \A r, s \in runs : r = s
  /\ \A r \in RunIds \ runs, key \in Keys : steps[r][key] = Absent
  /\ \A p \in Ingesters : pc[p] = "insertRun" => runs = {} /\ todo[p] = 1
  /\ \A p \in Ingesters : Mirrored(p)

(* The view is the steps of the session's run.                              *)
LEMMA ViewOfRun ==
  ASSUME IngestTypes, MirrorInv, NEW r \in runs
  PROVE  StoreView = [key \in Keys |-> steps[r][key]]
<1>1. runs = {r}
  BY DEF MirrorInv
<1>2. (CHOOSE s \in runs : TRUE) = r
  BY <1>1
<1> QED
  BY <1>1, <1>2 DEF StoreView

LEMMA MirrorInit == Init => Mirror!Init
BY DEF Init, Mirror!Init, StoreView

(* Storing a step is learning its outcome from the second read.             *)
LEMMA PutStepLearns ==
  ASSUME IngestTypes, MirrorInv, NEW p \in Ingesters, PutStep(p),
         StepsLeft(p) # {}
  PROVE  Mirror!Learn
<1> DEFINE k == lines[Min(StepsLeft(p))].key
<1>1. /\ pc[p] = "steps" /\ cursor < got[p]
      /\ got[p] \in 1..Len(lines) /\ all[p] \in got[p]..Len(lines)
      /\ run[p] \in runs /\ run[p] \in RunIds
      /\ UNCHANGED <<lines, runs, cursor, run>>
  <2>1. ReadOK(p) /\ Mirrored(p) /\ runs \in SUBSET RunIds
    BY DEF IngestTypes, MirrorInv
  <2> QED
    BY <2>1 DEF PutStep, ReadOK, Mirrored
<1>2. all[p] \in 1..Len(lines) /\ all[p] >= cursor
  BY <1>1 DEF IngestTypes
<1>3. k \in Keys /\ k \in KeysAt(lines, all[p])
  BY <1>1, NextStepTypes
<1>4. steps' = [steps EXCEPT ![run[p]][k] = OutcomeAt(lines, k, all[p])]
  BY DEF PutStep, UpsertStep
<1> HIDE DEF k
<1>5. StoreView = [key \in Keys |-> steps[run[p]][key]]
  BY <1>1, ViewOfRun
<1>6. StoreView' = [key \in Keys |-> steps'[run[p]][key]]
  <2>1. runs' = {run[p]}
    BY <1>1 DEF MirrorInv
  <2>2. (CHOOSE s \in runs' : TRUE) = run[p]
    BY <2>1
  <2> QED
    BY <2>1, <2>2 DEF StoreView
<1>7. StoreView' = [StoreView EXCEPT ![k] = OutcomeAt(lines, k, all[p])]
  BY <1>1, <1>3, <1>4, <1>5, <1>6 DEF IngestTypes
<1> QED
  BY <1>1, <1>2, <1>3, <1>7 DEF Mirror!Learn

(* Saving the offset is advancing: every step of the first read has been    *)
(* stored from the second.                                                  *)
LEMMA SetOffsetAdvances ==
  ASSUME IngestTypes, MirrorInv, NEW p \in Ingesters, SetOffset(p)
  PROVE  Mirror!Advance
<1>1. /\ pc[p] = "offset" /\ cursor < got[p] /\ cursor \in Nat
      /\ got[p] \in 1..Len(lines) /\ all[p] \in got[p]..Len(lines)
      /\ run[p] \in runs /\ run[p] \in RunIds
      /\ Mirrored(p)
  <2>1. ReadOK(p) /\ Mirrored(p) /\ runs \in SUBSET RunIds /\ cursor \in 0..Len(lines)
    BY DEF IngestTypes, MirrorInv
  <2> QED
    BY <2>1 DEF SetOffset, ReadOK, Mirrored
<1>2. /\ cursor' = got[p] /\ lines' = lines /\ StoreView' = StoreView
  BY DEF SetOffset, StoreView
<1>3. StoreView = [key \in Keys |-> steps[run[p]][key]]
  BY <1>1, ViewOfRun
<1>4. ASSUME NEW key \in KeysAt(lines, got[p])
      PROVE  StoreView[key] = OutcomeAt(lines, key, all[p])
  <2>1. key \in KeysAt(lines, all[p])
    BY <1>1, KeysGrow DEF IngestTypes
  <2>2. steps[run[p]][key] = OutcomeAt(lines, key, all[p])
    BY <1>1, <2>1 DEF Mirrored
  <2>3. key \in Keys
    <3>1. PICK i \in 1..got[p] : IsAssistant(lines, i) /\ lines[i].key = key
      BY DEF KeysAt
    <3>2. lines[i] \in Line
      BY <1>1, <3>1 DEF IngestTypes
    <3> QED
      BY <3>1, <3>2 DEF IsAssistant, Line
  <2> QED
    BY <1>3, <2>2, <2>3
<1>5. Mirror!Known(got[p])
  BY <1>1, <1>4 DEF Mirror!Known
<1>6. got[p] \in (cursor + 1)..Len(lines)
  BY <1>1 DEF IngestTypes
<1> QED
  BY <1>2, <1>5, <1>6 DEF Mirror!Advance

(* Every step is a step of the mirror, or leaves it as it was.              *)
LEMMA StepMirrors ==
  ASSUME IngestTypes, MirrorInv, [Next]_vars
  PROVE  [Mirror!Next]_<<lines, StoreView, cursor>>
<1>1. CASE Agent
  <2>1. PICK record \in Line : lines' = Append(lines, record)
    BY <1>1, AgentAppends
  <2>2. /\ Len(lines') = Len(lines) + 1
        /\ lines' = Append(lines, lines'[Len(lines')])
    BY <2>1 DEF IngestTypes
  <2>3. StoreView' = StoreView /\ cursor' = cursor
    BY <1>1, AgentAppends DEF store, StoreView
  <2> QED
    BY <2>2, <2>3 DEF Mirror!Next, Mirror!Grow
<1>2. ASSUME NEW p \in Ingesters, InsertRun(p) PROVE UNCHANGED <<lines, StoreView, cursor>>
  <2>1. PICK r \in RunIds \ runs : runs' = runs \union {r}
    BY <1>2 DEF InsertRun
  <2>2. runs = {} /\ runs' = {r} /\ UNCHANGED <<lines, steps, cursor>>
    BY <1>2, <2>1 DEF MirrorInv, InsertRun
  <2>3. (CHOOSE s \in runs' : TRUE) = r
    BY <2>2
  <2>4. \A key \in Keys : steps[r][key] = Absent
    BY <2>1 DEF MirrorInv
  <2>5. StoreView = [key \in Keys |-> Absent] /\ StoreView' = [key \in Keys |-> Absent]
    BY <2>2, <2>3, <2>4 DEF StoreView
  <2> QED
    BY <2>2, <2>5
<1>3. ASSUME NEW p \in Ingesters, PutStep(p), StepsLeft(p) = {}
      PROVE  UNCHANGED <<lines, StoreView, cursor>>
  BY <1>3 DEF PutStep, StoreView
<1>4. ASSUME \/ WatchInsert
             \/ \E p \in Ingesters : \/ Open(p) \/ FindRun(p) \/ PutRow(p) \/ SetStatus(p)
                                     \/ UpdateTotals(p) \/ Crash(p)
             \/ UNCHANGED vars
      PROVE  UNCHANGED <<lines, StoreView, cursor>>
  <2>1. UNCHANGED <<lines, runs, steps, cursor>>
    BY <1>4 DEF WatchInsert, Open, FindRun, PutRow, SetStatus, UpdateTotals, Crash, vars, store
  <2> QED
    BY <2>1 DEF StoreView
<1>5. ASSUME NEW p \in Ingesters, PutStep(p), StepsLeft(p) # {} PROVE Mirror!Next
  BY <1>5, PutStepLearns DEF Mirror!Next
<1>6. ASSUME NEW p \in Ingesters, SetOffset(p) PROVE Mirror!Next
  BY <1>6, SetOffsetAdvances DEF Mirror!Next
<1> QED
  BY <1>1, <1>2, <1>3, <1>4, <1>5, <1>6 DEF Next, IngestStep

(* A sole ingest keeps the mirror.                                          *)
LEMMA MirrorInvKept ==
  ASSUME NEW p, Ingesters = {p}
  PROVE  IngestTypes /\ MirrorInv /\ [Next]_vars => MirrorInv'
<1> SUFFICES ASSUME IngestTypes, MirrorInv, [Next]_vars PROVE MirrorInv'
  OBVIOUS
<1>1. /\ Len(lines) \in Nat /\ Len(lines') \in Nat /\ Len(lines) <= Len(lines')
      /\ SamePrefix(lines', lines, Len(lines))
  BY LinesGrow
<1>2. /\ p \in Ingesters /\ ReadOK(p) /\ Mirrored(p)
      /\ pc[p] = "insertRun" => runs = {} /\ todo[p] = 1
      /\ pc \in [Ingesters -> Phases] /\ all[p] \in Nat /\ got[p] \in Nat /\ todo[p] \in Nat
      /\ runs \in SUBSET RunIds
      /\ steps \in [RunIds -> [Keys -> Outcomes \union {Absent}]]
  BY DEF IngestTypes, MirrorInv
\* Only the file, perhaps, or the watch rows change.
<1>3. CASE UNCHANGED <<runs, steps, cursor, locals>>
  <2>1. CASE pc[p] \in {"idle", "open", "insertRun"}
    BY <1>2, <1>3, <2>1 DEF MirrorInv, Mirrored, locals
  <2>2. CASE pc[p] \notin {"idle", "open", "insertRun"}
    <3>1. all[p] \in Nat /\ all[p] <= Len(lines)
      BY <1>1, <1>2, <2>2 DEF ReadOK
    <3>2. SamePrefix(lines', lines, all[p])
      BY <1>1, <3>1 DEF SamePrefix
    <3>3. /\ GroupStarts(lines', all[p]) = GroupStarts(lines, all[p])
          /\ KeysAt(lines', all[p]) = KeysAt(lines, all[p])
          /\ \A key : OutcomeAt(lines', key, all[p]) = OutcomeAt(lines, key, all[p])
      BY <3>1, <3>2, PrefixSteps, PrefixOutcome
    <3>4. \A i \in GroupStarts(lines, all[p]) : lines'[i].key = lines[i].key
      BY <3>1, <3>2 DEF GroupStarts, SamePrefix
    <3>5. Mirrored(p)'
      BY <1>2, <1>3, <2>2, <3>3, <3>4 DEF Mirrored, locals
    <3> QED
      BY <1>2, <1>3, <2>2, <3>5 DEF MirrorInv, locals
  <2> QED
    BY <2>1, <2>2
<1>4. CASE Open(p)
  BY <1>2, <1>4 DEF MirrorInv, Mirrored, Open, store, IngestTypes
<1>5. CASE FindRun(p)
  <2>1. /\ UNCHANGED <<lines, runs, steps, cursor, got>>
        /\ todo'[p] = 1
        /\ pc'[p] = IF runs = {} THEN "insertRun" ELSE "steps"
        /\ pc[p] = "open"
    BY <1>2, <1>5 DEF FindRun, store, IngestTypes
  <2>2. all'[p] \in Nat
    BY <1>2, <1>5, FindRunTypes DEF IngestTypes
  <2>3. \A i \in GroupStarts(lines, all'[p]) : ~(i < 1)
    BY <2>2 DEF GroupStarts
  <2>4. Mirrored(p)'
    BY <1>2, <2>1, <2>3 DEF Mirrored
  <2> QED
    BY <1>2, <2>1, <2>4 DEF MirrorInv
<1>6. CASE InsertRun(p)
  <2>1. PICK r \in RunIds \ runs : runs' = runs \union {r}
    BY <1>6 DEF InsertRun
  <2>2. /\ UNCHANGED <<lines, steps, cursor, got, all, todo>>
        /\ pc[p] = "insertRun" /\ pc'[p] = "steps" /\ runs' = {r} /\ todo[p] = 1
    BY <1>2, <1>6, <2>1 DEF InsertRun
  <2>3. \A i \in GroupStarts(lines, all[p]) : ~(i < 1)
    BY <1>2 DEF GroupStarts
  <2>4. Mirrored(p)'
    BY <1>2, <2>2, <2>3 DEF Mirrored
  <2> QED
    BY <1>2, <2>1, <2>2, <2>4 DEF MirrorInv
<1>7. CASE PutStep(p) /\ StepsLeft(p) # {}
  <2> DEFINE next == Min(StepsLeft(p))
             k == lines[next].key
             outcome == OutcomeAt(lines, k, all[p])
  <2>1. /\ UNCHANGED <<lines, runs, cursor, got, all, run, pc>>
        /\ pc[p] = "steps" /\ run[p] \in runs /\ run[p] \in RunIds
        /\ steps' = [steps EXCEPT ![run[p]][k] = outcome]
        /\ todo'[p] = next + 1
    BY <1>2, <1>7 DEF PutStep, UpsertStep, ReadOK, IngestTypes
  <2>2. /\ \A i \in StepsLeft(p) : next <= i
        /\ next \in 1..all[p] /\ k \in Keys
    BY <1>2, <1>7, <2>1, NextStepTypes
  <2> HIDE DEF k, next
  <2>3. ASSUME NEW i \in GroupStarts(lines, all[p]), i < next + 1
        PROVE  steps'[run[p]][lines[i].key] = OutcomeAt(lines, lines[i].key, all[p])
    <3>1. i \in Nat /\ next \in Nat
      BY <1>2, <2>2 DEF GroupStarts
    <3>2. CASE i < todo[p]
      <4>1. steps[run[p]][lines[i].key] = OutcomeAt(lines, lines[i].key, all[p])
        BY <1>2, <2>1, <3>2 DEF Mirrored
      <4> QED
        BY <1>2, <2>1, <2>2, <4>1
    <3>3. CASE ~(i < todo[p])
      <4>1. i \in StepsLeft(p)
        BY <1>2, <3>1, <3>3 DEF StepsLeft
      <4>2. i = next
        BY <2>2, <2>3, <3>1, <4>1
      <4> QED
        BY <1>2, <2>1, <2>2, <4>2 DEF k
    <3> QED
      BY <3>2, <3>3
  <2>4. Mirrored(p)'
    BY <1>2, <2>1, <2>3 DEF Mirrored
  <2>5. \A r \in RunIds \ runs, key \in Keys : steps'[r][key] = Absent
    BY <1>2, <2>1 DEF MirrorInv
  <2> QED
    BY <1>2, <2>1, <2>4, <2>5 DEF MirrorInv
<1>8. CASE PutStep(p) /\ StepsLeft(p) = {}
  <2>1. /\ UNCHANGED <<lines, runs, steps, cursor, got, all, run>>
        /\ pc[p] = "steps" /\ pc'[p] = "rows"
    BY <1>2, <1>8 DEF PutStep
  <2>2. \A i \in GroupStarts(lines, all[p]) : i < todo[p]
    BY <1>2, <1>8 DEF StepsLeft, GroupStarts
  <2>3. \A key \in KeysAt(lines, all[p]) : steps[run[p]][key] = OutcomeAt(lines, key, all[p])
    BY <1>2, <2>1, <2>2, StartsNameSteps DEF Mirrored
  <2>4. Mirrored(p)'
    BY <1>2, <2>1, <2>3 DEF Mirrored
  <2> QED
    BY <1>2, <2>1, <2>4 DEF MirrorInv
<1>9. CASE PutRow(p) \/ SetStatus(p) \/ UpdateTotals(p)
  <2>1. /\ UNCHANGED <<lines, runs, steps, cursor, got, all, run>>
        /\ pc[p] \in {"rows", "status", "totals"}
        /\ pc'[p] \in {"rows", "status", "totals", "offset"}
    BY <1>2, <1>9 DEF PutRow, SetStatus, UpdateTotals
  <2>2. Mirrored(p)'
    BY <1>2, <2>1 DEF Mirrored
  <2> QED
    BY <1>2, <2>1, <2>2 DEF MirrorInv
<1>10. CASE SetOffset(p) \/ Crash(p)
  <2>1. UNCHANGED <<lines, runs, steps>> /\ pc'[p] = "idle"
    BY <1>2, <1>10 DEF SetOffset, Crash, Forget, store
  <2> QED
    BY <1>2, <2>1 DEF MirrorInv, Mirrored
<1> QED
  <2>1. CASE Agent
    BY <1>3, <2>1, AgentAppends DEF store
  <2>2. CASE WatchInsert \/ UNCHANGED vars
    BY <1>3, <2>2 DEF WatchInsert, vars, store
  <2>3. CASE IngestStep(p) \/ Crash(p)
    BY <1>4, <1>5, <1>6, <1>7, <1>8, <1>9, <1>10, <2>3 DEF IngestStep
  <2> QED
    BY <2>1, <2>2, <2>3 DEF Next

(***************************************************************************)
(* A single ingest at a time, killed wherever it may be, implements the     *)
(* mirror: the offset never runs ahead of what was stored, and no stored    *)
(* outcome ever goes back to before the offset (ingestSession: the steps    *)
(* come from the second read, the offset from the end of the first).        *)
(***************************************************************************)
THEOREM SoleIngestMirrors ==
  ASSUME NEW p, Ingesters = {p}
  PROVE  Spec => MirrorsTranscript
<1>1. Init => IngestTypes /\ MirrorInv /\ Mirror!Init
  <2> SUFFICES ASSUME Init PROVE MirrorInv
    BY InitIngestTypes, MirrorInit
  <2> QED
    BY DEF Init, MirrorInv, Mirrored
<1>2. IngestTypes /\ MirrorInv /\ [Next]_vars => (IngestTypes /\ MirrorInv)'
  BY IngestTypesKept, MirrorInvKept
<1>3. IngestTypes /\ MirrorInv /\ [Next]_vars => [Mirror!Next]_<<lines, StoreView, cursor>>
  BY StepMirrors
<1> QED
  BY <1>1, <1>2, <1>3, PTL DEF Spec, MirrorsTranscript, Mirror!Spec
=============================================================================
