---------------------------- MODULE PostgresSync ----------------------------
(***************************************************************************)
(* `meter db postgres-sync` (packages/store-postgres): the runs of the     *)
(* local store are copied to Postgres, statement by statement and without a  *)
(* transaction, while agents go on.  A sync may be cut off anywhere; the    *)
(* next one does all of it again.                                          *)
(***************************************************************************)
EXTENDS Integers, Sequences, SequencesExt

CONSTANTS MaxPgWork,     \* bound: changes of the local store
          MaxPgSyncs,    \* bound: syncs
          PgLimit        \* limitRuns

ASSUME SyncConstants == MaxPgWork \in Nat /\ MaxPgSyncs \in Nat /\ PgLimit \in Nat

VARIABLES
  pgLocal,     \* the local runs in the order they started, with their steps
  pgRemote,    \* the tables of Postgres
  pgSync,      \* the sync under way
  pgWork,
  pgSyncs

pgVars == <<pgLocal, pgRemote, pgSync, pgWork, pgSyncs>>

NoSync == [at |-> "idle", left |-> <<>>, run |-> 0, row |-> "none", steps |-> <<>>,
           refs |-> {}, calm |-> FALSE]

-----------------------------------------------------------------------------
(* The local store goes on.                                                *)
PgLocally(local) ==
  /\ pgWork < MaxPgWork
  /\ pgWork' = pgWork + 1
  /\ pgLocal' = local
  /\ pgSync' = [pgSync EXCEPT !.calm = FALSE]
  /\ UNCHANGED <<pgRemote, pgSyncs>>

\* insertRun; a fork names the run it is one of.
PgRunStarts ==
  \E origin \in 0..Len(pgLocal) :
    PgLocally(Append(pgLocal, [origin |-> origin, status |-> "in_progress", steps |-> <<>>]))

PgRunEnds ==
  \E r \in DOMAIN pgLocal : PgLocally([pgLocal EXCEPT ![r].status = "ok"])

\* A step is named for what it came from: here the change that brought it.
PgStepComes ==
  \E r \in DOMAIN pgLocal :
    PgLocally([pgLocal EXCEPT ![r].steps = Append(@, [id |-> pgWork, outcome |-> "pending"])])

PgStepCompletes ==
  \E r \in DOMAIN pgLocal : \E i \in DOMAIN pgLocal[r].steps :
    PgLocally([pgLocal EXCEPT ![r].steps[i].outcome = "ok"])

\* A rebuild removes a step, and those behind it move up.
PgStepGoes ==
  \E r \in DOMAIN pgLocal : \E i \in DOMAIN pgLocal[r].steps :
    PgLocally([pgLocal EXCEPT ![r].steps = RemoveAt(@, i)])

-----------------------------------------------------------------------------
(* syncSqliteToPostgres.                                                   *)
PgAt(at) == pgSync' = [pgSync EXCEPT !.at = at]
PgRefused == PgAt("refused") /\ UNCHANGED pgRemote

\* listRuns: the latest first.
PgBegins ==
  /\ pgSync.at \in {"idle", "done", "refused"} /\ pgSyncs < MaxPgSyncs
  /\ pgSyncs' = pgSyncs + 1
  /\ LET newest == Reverse([r \in DOMAIN pgLocal |-> [run |-> r, status |-> pgLocal[r].status]])
     IN  pgSync' = [NoSync EXCEPT !.at = "next", !.calm = TRUE,
                                  !.left = [k \in DOMAIN newest \cap 1..PgLimit |-> newest[k]]]
  /\ UNCHANGED pgRemote

PgNextRun ==
  /\ pgSync.at = "next"
  /\ pgSync' = IF pgSync.left = <<>> THEN [pgSync EXCEPT !.at = "done"]
               ELSE [pgSync EXCEPT !.at = "project", !.run = Head(pgSync.left).run,
                                   !.row = Head(pgSync.left).status, !.left = Tail(@)]
  /\ UNCHANGED <<pgRemote, pgSyncs>>

\* pgUpsertProject and pgUpsertAgent; what is there stays.
PgUpsert ==
  /\ pgSync.at \in {"project", "agent"}
  /\ pgRemote' = [pgRemote EXCEPT !.known = @ \union {pgSync.at}]
  /\ PgAt(IF pgSync.at = "project" THEN "agent" ELSE "run")
  /\ UNCHANGED pgSyncs

\* pgInsertRun: fork_origin_run_id REFERENCES runs.
PgInsertRun ==
  LET id == pgSync.run  origin == pgLocal[id].origin
      there == {row.id : row \in pgRemote.runs}
  IN  /\ pgSync.at = "run"
      /\ IF id \in there \/ origin \in there \union {0}
         THEN /\ pgRemote' = [pgRemote EXCEPT !.runs =
                   {row \in @ : row.id # id}
                   \union {[id |-> id, origin |-> origin, status |-> pgSync.row]}]
              /\ PgAt("list")
         ELSE PgRefused
      /\ UNCHANGED pgSyncs

\* listSteps, when the run's row is in already.
PgListSteps ==
  /\ pgSync.at = "list"
  /\ LET steps == pgLocal[pgSync.run].steps
     IN  pgSync' = [pgSync EXCEPT !.at = "step", !.steps =
           [i \in DOMAIN steps |-> [id |-> steps[i].id, run |-> pgSync.run, seq |-> i - 1,
                                    outcome |-> steps[i].outcome]]]
  /\ UNCHANGED <<pgRemote, pgSyncs>>

\* Mutant of OnStepConflict: DO NOTHING.
OnStepConflictNothing(old, new) == old

\* ON CONFLICT (step_id) DO UPDATE: neither the run nor the sequence.
OnStepConflict(old, new) == [old EXCEPT !.outcome = new.outcome]

StepRefs(step) ==
  {<<step.id, "decision">>} \union {<<step.id, "result">> : x \in {step.outcome} \ {"pending"}}

\* pgInsertStep: UNIQUE(run_id, sequence) has no clause of its own.
PgInsertStep ==
  /\ pgSync.at = "step" /\ pgSync.steps # <<>>
  /\ LET step == Head(pgSync.steps)
         same == {row \in pgRemote.steps : row.id = step.id}
         slot == {row \in pgRemote.steps : row.run = step.run /\ row.seq = step.seq}
     IN  IF same # {} \/ slot = {}
         THEN /\ pgRemote' = [pgRemote EXCEPT !.steps =
                   (@ \ same) \union (IF same = {} THEN {step}
                                      ELSE {OnStepConflict(old, step) : old \in same})]
              /\ pgSync' = [pgSync EXCEPT !.at = "blobs", !.refs = StepRefs(step),
                                          !.steps = Tail(@)]
         ELSE PgRefused
  /\ UNCHANGED pgSyncs

\* putBlob, ON CONFLICT DO NOTHING.
PgPutBlob ==
  /\ pgSync.at = "blobs"
  /\ \E ref \in pgSync.refs :
       /\ pgRemote' = [pgRemote EXCEPT !.blobs = @ \union {ref}]
       /\ pgSync' = [pgSync EXCEPT !.refs = @ \ {ref},
                                   !.at = IF pgSync.refs = {ref} THEN "step" ELSE "blobs"]
  /\ UNCHANGED pgSyncs

PgRunDone ==
  /\ pgSync.at = "step" /\ pgSync.steps = <<>>
  /\ PgAt("next")
  /\ UNCHANGED <<pgRemote, pgSyncs>>

\* The process is killed, or the connection lost.
PgCut ==
  /\ pgSync.at \notin {"idle", "done", "refused"}
  /\ pgSync' = NoSync
  /\ UNCHANGED <<pgRemote, pgSyncs>>

-----------------------------------------------------------------------------
PgInit ==
  /\ pgLocal = <<>> /\ pgSync = NoSync /\ pgWork = 0 /\ pgSyncs = 0
  /\ pgRemote = [known |-> {}, runs |-> {}, steps |-> {}, blobs |-> {}]

PgNext ==
  \/ PgRunStarts \/ PgRunEnds \/ PgStepComes \/ PgStepCompletes \/ PgStepGoes
  \/ /\ \/ PgBegins \/ PgNextRun \/ PgUpsert \/ PgInsertRun \/ PgListSteps
        \/ PgInsertStep \/ PgPutBlob \/ PgRunDone \/ PgCut
     /\ UNCHANGED <<pgLocal, pgWork>>

PgSpec == PgInit /\ [][PgNext]_pgVars

-----------------------------------------------------------------------------
\* "Re-run postgres-sync whenever you want to push the latest local activity"
\* (docs/postgres.md): once a sync has gone through, whatever the syncs before it
\* left and if nothing changed locally meanwhile, the runs of its window are in
\* Postgres as they are, with the outcome and the blobs of each of their steps.
SyncCopied ==
  pgSync.at = "done" /\ pgSync.calm =>
    \A r \in DOMAIN pgLocal : r > Len(pgLocal) - PgLimit =>
      /\ [id |-> r, origin |-> pgLocal[r].origin, status |-> pgLocal[r].status] \in pgRemote.runs
      /\ \A step \in ToSet(pgLocal[r].steps) :
           /\ \E row \in pgRemote.steps :
                row.id = step.id /\ row.run = r /\ row.outcome = step.outcome
           /\ StepRefs(step) \subseteq pgRemote.blobs

\* "Copy a local SQLite Store's data into a Postgres deployment" (sync.ts): no
\* statement of a sync is refused.
SyncGoesThrough == pgSync.at # "refused"
=============================================================================
