---------------------------- MODULE CodexIngest ----------------------------
(***************************************************************************)
(* Ingest of a Codex CLI rollout (adapters/codex-cli/src/ingest.ts and     *)
(* parser.ts).  The CLI appends records to one file.  An ingest looks up   *)
(* the offset, reads the file once, and rebuilds the run from the WHOLE    *)
(* file unless the tail holds nothing material; the steps have ids from    *)
(* their record's offset, so a rebuild updates them in place.  What it     *)
(* writes it writes after the last await, in one go for this process.      *)
(*                                                                         *)
(* The inspector does not wait for a tick to end before it starts the      *)
(* next, so several ingests may be under way.                              *)
(***************************************************************************)
EXTENDS StepTable

CONSTANTS
  CodexRecords,    \* the records the CLI may append
  MaxCodexFile,    \* bound on the length of the file
  CodexIngests     \* the ingests that may be under way at once

VARIABLES
  cxFile,          \* the records of the rollout, in order
  cxTorn,          \* the last one is only half written
  cxStore,         \* the run, its steps and file changes, and the offset
  cxIngest,        \* [CodexIngests -> what the ingest has read]
  cxOverlap        \* two ingests have been under way at once

cxVars == <<cxFile, cxTorn, cxStore, cxIngest, cxOverlap>>

CodexRun == "codex"
CodexIdle == [pc |-> "idle", offset |-> 0, upTo |-> 0, known |-> FALSE]

Latest(S) == IF S = {} THEN 0 ELSE Max(S)

-----------------------------------------------------------------------------
(* parser.ts: a torn last line does not parse and is left for later.       *)
CodexParsed == IF cxTorn THEN Front(cxFile) ELSE cxFile

IsStepRecord(f, i) == f[i].kind \in {"message", "call"}

\* Mutant of IsMaterialRecord: tool outputs do not count.
IsMaterialStep(f, i) == f[i].kind \notin {"chatter", "output"}

\* A record that can change a step, a cost, the status or a file change.
IsMaterialRecord(f, i) == f[i].kind # "chatter"

\* token_count, task_complete and orphan patches go to the step they follow.
AnchorStep(f, i) == Latest({j \in 1..(i - 1) : IsStepRecord(f, j)})

\* Usage is a delta per request: those that follow one step add up.
UsageOf(f, i) ==
  Cardinality({j \in DOMAIN f : f[j].kind = "usage" /\ AnchorStep(f, j) = i})

\* The last output of the call id, wherever in the file.
OutputOf(f, i) == Latest({j \in DOMAIN f : f[j].kind = "output" /\ f[j].call = f[i].call})

CodexOutcome(f, i) ==
  IF f[i].kind = "message" THEN "ok"
  ELSE IF OutputOf(f, i) = 0 THEN "pending"
  ELSE f[OutputOf(f, i)].outcome

\* turn_context names the model of what follows.
ModelAt(f, i) ==
  LET turn == Latest({j \in 1..(i - 1) : f[j].kind = "turn"})
  IN  IF turn = 0 THEN "codex-unknown" ELSE f[turn].model

CodexStep(f, i) ==
  [id |-> i, run |-> CodexRun,
   seq |-> Cardinality({j \in 1..(i - 1) : IsStepRecord(f, j)}),
   body |-> [outcome |-> CodexOutcome(f, i), usage |-> UsageOf(f, i), model |-> ModelAt(f, i)]]

CodexSteps(f) ==
  LET positions == {i \in DOMAIN f : IsStepRecord(f, i)}
  IN  [n \in 1..Cardinality(positions) |->
         CodexStep(f, CHOOSE i \in positions : Cardinality({j \in positions : j <= i}) = n)]

\* patch_apply_end: on its call's step if that came before, else on the nearest
\* step before; numbered per step across events.
PatchStep(f, i) ==
  LET call == Latest({j \in 1..(i - 1) : f[j].kind = "call" /\ f[j].call = f[i].call})
  IN  IF call # 0 THEN call ELSE AnchorStep(f, i)

PatchRow(f, i) ==
  [step |-> PatchStep(f, i), path |-> f[i].path, full |-> f[i].op = "add",
   op |-> CASE f[i].op = "add" -> "create" [] f[i].op = "delete" -> "delete"
            [] f[i].op = "move" -> "rename" [] OTHER -> "modify",
   seq |-> Cardinality({j \in 1..(i - 1) :
             f[j].kind = "patch" /\ PatchStep(f, j) = PatchStep(f, i)})]

CodexChanges(f) ==
  {PatchRow(f, i) : i \in {j \in DOMAIN f : f[j].kind = "patch" /\ PatchStep(f, j) # 0}}

CodexHasUsage(f) == \E i \in DOMAIN f : IsStepRecord(f, i) /\ UsageOf(f, i) > 0

FinalStatus(f) == IF \E i \in DOMAIN f : f[i].kind = "done" THEN "ok" ELSE "in_progress"

-----------------------------------------------------------------------------
CodexInit ==
  /\ cxFile = <<>>
  /\ cxTorn = FALSE
  /\ cxStore = [run |-> FALSE, approx |-> FALSE, status |-> "none",
                steps |-> {}, changes |-> {}, total |-> 0, offset |-> 0]
  /\ cxIngest = [i \in CodexIngests |-> CodexIdle]
  /\ cxOverlap = FALSE

\* The CLI appends a record, half a line first.
CodexWrite ==
  /\ ~cxTorn
  /\ Len(cxFile) < MaxCodexFile
  /\ \E r \in CodexRecords : cxFile' = Append(cxFile, r)
  /\ cxTorn' = TRUE
  /\ UNCHANGED <<cxStore, cxIngest, cxOverlap>>

CodexWriteRest ==
  /\ cxTorn
  /\ cxTorn' = FALSE
  /\ UNCHANGED <<cxFile, cxStore, cxIngest, cxOverlap>>

\* The offset is looked up before the file is read.
CodexLookup(i) ==
  /\ cxIngest[i].pc = "idle"
  /\ cxStore.offset < Len(cxFile)
  /\ cxIngest' = [cxIngest EXCEPT ![i].pc = "offset", ![i].offset = cxStore.offset]
  /\ cxOverlap' = (cxOverlap \/ \E j \in CodexIngests \ {i} : cxIngest[j].pc # "idle")
  /\ UNCHANGED <<cxFile, cxTorn, cxStore>>

\* An empty tail ends the ingest; one without material moves the offset only.
CodexNothingNew(i) ==
  /\ cxIngest[i].pc = "offset"
  /\ LET from == cxIngest[i].offset
         to == Len(CodexParsed)
     IN  /\ \/ from >= to
            \/ from > 0 /\ \A k \in (from + 1)..to : ~IsMaterialRecord(cxFile, k)
         /\ cxStore' = [cxStore EXCEPT !.offset = IF from >= to THEN cxStore.offset ELSE to]
  /\ cxIngest' = [cxIngest EXCEPT ![i] = CodexIdle]
  /\ UNCHANGED <<cxFile, cxTorn, cxOverlap>>

\* Otherwise the whole file is built into steps, which awaits blob writes.
CodexRead(i) ==
  /\ cxIngest[i].pc = "offset"
  /\ LET from == cxIngest[i].offset
         to == Len(CodexParsed)
     IN  /\ from < to
         /\ from = 0 \/ \E k \in (from + 1)..to : IsMaterialRecord(cxFile, k)
         /\ cxIngest' = [cxIngest EXCEPT ![i].pc = "build", ![i].upTo = to,
                                         ![i].known = cxStore.run]
  /\ UNCHANGED <<cxFile, cxTorn, cxStore, cxOverlap>>

CodexWritten(store, f, known) ==
  [run |-> TRUE, status |-> FinalStatus(f), offset |-> Len(f),
   approx |-> (IF known THEN store.approx ELSE TRUE) /\ ~CodexHasUsage(f),
   steps |-> InsertSteps(store.steps, CodexSteps(f)).table,
   changes |-> store.changes \union CodexChanges(f),
   total |-> RunTotal(InsertSteps(store.steps, CodexSteps(f)).table, CodexRun)]

\* insertRun throws if an ingest under way at the same time was first.
CodexCommit(i) ==
  /\ cxIngest[i].pc = "build"
  /\ LET f == SubSeq(cxFile, 1, cxIngest[i].upTo)
     IN  cxStore' = IF cxStore.run /\ ~cxIngest[i].known THEN cxStore
                    ELSE CodexWritten(cxStore, f, cxIngest[i].known)
  /\ cxIngest' = [cxIngest EXCEPT ![i] = CodexIdle]
  /\ UNCHANGED <<cxFile, cxTorn, cxOverlap>>

CodexStepOf(i) == CodexLookup(i) \/ CodexNothingNew(i) \/ CodexRead(i) \/ CodexCommit(i)

CodexNext ==
  \/ CodexWrite \/ CodexWriteRest
  \/ \E i \in CodexIngests : CodexStepOf(i)

CodexSpec == CodexInit /\ [][CodexNext]_cxVars

-----------------------------------------------------------------------------
\* The offset lets the next ingest skip what it covers, so what it covers must
\* be in the store: every step, settled as the whole file settles it, each file
\* change, the status and the totals.  Ingests that overlapped may have put an
\* older view over a newer one, but never take a step or a change away.
CodexOffsetMeansStored ==
  LET f == SubSeq(cxFile, 1, cxStore.offset)
      steps == Range(CodexSteps(f))
  IN  /\ {s.id : s \in steps} \subseteq {r.id : r \in cxStore.steps}
      /\ CodexChanges(f) \subseteq cxStore.changes
      /\ cxOverlap \/ cxStore.offset = 0 \/
           /\ cxStore.steps = steps
           /\ cxStore.changes = CodexChanges(f)
           /\ cxStore.status = FinalStatus(f)
           /\ cxStore.approx = ~CodexHasUsage(f)
           /\ cxStore.total = RunTotal(steps, CodexRun)
=============================================================================
