----------------------------- MODULE StashDrain -----------------------------
(***************************************************************************)
(* Draining the capture stash (packages/server/src/hook_capture.ts,        *)
(* drainStash, findStep, insertDeltas): how a stash record finds the step  *)
(* whose tool call it observed.                                            *)
(*                                                                         *)
(* The transcript trails the hooks.  A call's assistant message is stamped *)
(* when the turn starts and reaches the transcript file some time later;   *)
(* the step exists in the store once an ingest has read it.  Sibling calls *)
(* of one turn share one step, which carries the first sibling's input.    *)
(* Every pre hook, post hook and `meter capture drain` ends in one drain,  *)
(* so several drains of the one stash directory may overlap, and one may   *)
(* be killed anywhere.                                                     *)
(*                                                                         *)
(* A drain's rows for one record on one step are one element of `rows`:    *)
(* that two drains of one record write them once is WatchRows' subject.    *)
(***************************************************************************)
EXTENDS Integers, FiniteSets

CONSTANTS
  Calls,        \* the Bash calls of the session
  Drainers,     \* processes that drain: hooks and `meter capture drain`
  Lead,         \* [Calls -> Calls]: the first call of the same turn
  Command,      \* [Calls -> the tool_input]
  MinAge,       \* TEMPORAL_TIER_MIN_AGE_MS, in ticks
  Ttl,          \* DEFAULT_STASH_TTL_MS and TEMPORAL_MATCH_WINDOW_MS
  Slack,        \* MATCH_FUTURE_SLACK_MS
  MaxLag,       \* a line reaches the transcript at most this long after its stamp
  NoStep,       \* no step
  MaxTime,      \* bound: ticks
  MaxKills,     \* bound: drains killed
  MaxFails      \* bound: ingests that throw

ASSUME DrainConstants ==
  /\ Lead \in [Calls -> Calls] /\ \A c \in Calls : Lead[Lead[c]] = Lead[c]
  /\ DOMAIN Command = Calls
  /\ MinAge \in Nat /\ Ttl \in Nat /\ Slack \in Nat /\ MinAge <= Ttl
  /\ MaxLag \in Nat
  /\ NoStep \notin Calls
  /\ MaxTime \in Nat /\ MaxKills \in Nat /\ MaxFails \in Nat

VARIABLES
  now,       \* the clock
  stamp,     \* [Calls -> when the turn started, or NotYet]
  visible,   \* leads whose assistant message is in the transcript file
  steps,     \* leads whose step is in the store
  at,        \* [Calls -> observed_at of the record written, or NotYet]
  stash,     \* calls whose record file exists
  drain,     \* [Drainers -> where the process is, and what it still holds]
  rows,      \* [call, step, match] a drain has inserted
  kills,
  fails      \* ingests that threw

vars == <<now, stamp, visible, steps, at, stash, drain, rows, kills, fails>>

NotYet == -1
Leads == {Lead[c] : c \in Calls}
Tiers == {"exact", "temporal"}
Idle == [phase |-> "idle", left |-> {}, call |-> NoStep, step |-> NoStep, match |-> "exact"]
Row == [call : Calls, step : Calls, match : Tiers]
Drain == [phase : {"idle", "next", "insert", "unlink", "keep"}, left : SUBSET Calls,
          call : Calls \cup {NoStep}, step : Calls \cup {NoStep}, match : Tiers]

-----------------------------------------------------------------------------
(* findStep                                                                *)

Gap(c, s) == IF at[c] >= stamp[s] THEN at[c] - stamp[s] ELSE stamp[s] - at[c]

(* A step that carries the record's own tool_input.  (The "command" tier     *)
(* tells inputs apart that differ in their other fields; Command is the      *)
(* whole input here, so exact stands for both.)                              *)
Exact(c, S) == {s \in S : Command[s] = Command[c]}

(* Mutant of Temporal: no minimum age.                                      *)
TemporalAtOnce(c, S) == {s \in S : Gap(c, s) <= Ttl}

Temporal(c, S) == {s \in S : now - at[c] >= MinAge /\ Gap(c, s) <= Ttl}

(* The tier that answers for the record, and its nearest steps in time:      *)
(* listSteps is in sequence order and a later step must be strictly nearer,  *)
(* so of two equally near ones the earlier wins.                             *)
Nearest(c, S) ==
  {s \in S : \A t \in S : Gap(c, s) < Gap(c, t) \/ (Gap(c, s) = Gap(c, t) /\ stamp[s] <= stamp[t])}

FindStep(c, S) ==
  LET candidates == {s \in S : stamp[s] - at[c] <= Slack}
      exact == Exact(c, candidates)
  IN IF exact # {}
     THEN {[step |-> s, match |-> "exact"] : s \in Nearest(c, exact)}
     ELSE {[step |-> s, match |-> "temporal"] : s \in Nearest(c, Temporal(c, candidates))}

-----------------------------------------------------------------------------
Init ==
  /\ now = 0
  /\ stamp = [c \in Calls |-> NotYet] /\ at = [c \in Calls |-> NotYet]
  /\ visible = {} /\ steps = {} /\ stash = {} /\ rows = {}
  /\ drain = [p \in Drainers |-> Idle]
  /\ kills = 0 /\ fails = 0

(* Time passes, but no assistant message stays out of the transcript longer  *)
(* than MaxLag.                                                              *)
Tick ==
  /\ now < MaxTime
  /\ \A s \in Leads : stamp[s] # NotYet /\ s \notin visible => now - stamp[s] < MaxLag
  /\ now' = now + 1
  /\ UNCHANGED <<stamp, visible, steps, at, stash, drain, rows, kills, fails>>

Turn(s) == {c \in Calls : Lead[c] = s}
TurnOpen(s) == stamp[s] # NotYet /\ \E c \in Turn(s) : at[c] = NotYet

(* The agent's next message: one turn's calls start, after the turn before   *)
(* has ended, at a later moment.                                             *)
StartTurn(s) ==
  /\ s \in Leads /\ stamp[s] = NotYet
  /\ \A t \in Leads : ~TurnOpen(t) /\ stamp[t] < now
  /\ stamp' = [c \in Calls |-> IF Lead[c] = s THEN now ELSE stamp[c]]
  /\ UNCHANGED <<now, visible, steps, at, stash, drain, rows, kills, fails>>

(* The message is flushed to the transcript, which is in order.             *)
Flush(s) ==
  /\ s \in Leads /\ stamp[s] # NotYet /\ s \notin visible
  /\ \A t \in Leads \ visible : stamp[t] = NotYet \/ stamp[s] <= stamp[t]
  /\ visible' = visible \cup {s}
  /\ UNCHANGED <<now, stamp, steps, at, stash, drain, rows, kills, fails>>

(* capturePost's writeStashRecord for the call.  The bound leaves time for   *)
(* the record to expire.                                                     *)
StashRecord(c) ==
  /\ stamp[c] # NotYet /\ at[c] = NotYet /\ now < MaxTime - Ttl
  /\ at' = [at EXCEPT ![c] = now]
  /\ stash' = stash \cup {c}
  /\ UNCHANGED <<now, stamp, visible, steps, drain, rows, kills, fails>>

(* loadStashRecords: the drain works from this list to its end.             *)
Load(p) ==
  /\ drain[p].phase = "idle" /\ stash # {}
  /\ drain' = [drain EXCEPT ![p].phase = "next", ![p].left = stash]
  /\ UNCHANGED <<now, stamp, visible, steps, at, stash, rows, kills, fails>>

(* Take one record, ingest its transcript (a failure is swallowed) and, in    *)
(* the same turn of the event loop, findStep and decide: insert the record's *)
(* rows, drop it past the TTL, or write it back.                             *)
IngestAndFind(p, c) ==
  /\ drain[p].phase = "next" /\ c \in drain[p].left
  /\ \/ steps' = visible /\ fails' = fails
     \/ steps' = steps /\ fails < MaxFails /\ fails' = fails + 1
  /\ \/ \E m \in FindStep(c, steps') :
          drain' = [drain EXCEPT ![p] = [phase |-> "insert", left |-> @.left \ {c}, call |-> c,
                                         step |-> m.step, match |-> m.match]]
     \/ /\ FindStep(c, steps') = {}
        /\ drain' = [drain EXCEPT ![p] =
             [Idle EXCEPT !.phase = IF now - at[c] > Ttl THEN "unlink" ELSE "keep",
                          !.left = drain[p].left \ {c}, !.call = c]]
  /\ UNCHANGED <<now, stamp, visible, at, stash, rows, kills>>

(* insertDeltas                                                             *)
InsertFor(p) ==
  /\ drain[p].phase = "insert"
  /\ rows' = rows \cup {[call |-> drain[p].call, step |-> drain[p].step, match |-> drain[p].match]}
  /\ drain' = [drain EXCEPT ![p].phase = "unlink"]
  /\ UNCHANGED <<now, stamp, visible, steps, at, stash, kills, fails>>

NextRecord(p) ==
  drain' = [drain EXCEPT ![p] = IF @.left = {} THEN Idle
                                ELSE [Idle EXCEPT !.phase = "next", !.left = drain[p].left]]

(* Mutants: the unlink fails unnoticed; an unmatched record is dropped.     *)
UnlinkFails(p) ==
  /\ drain[p].phase = "unlink"
  /\ NextRecord(p)
  /\ UNCHANGED <<now, stamp, visible, steps, at, stash, rows, kills, fails>>

DropUnmatched(p) ==
  /\ drain[p].phase = "keep"
  /\ stash' = stash \ {drain[p].call}
  /\ NextRecord(p)
  /\ UNCHANGED <<now, stamp, visible, steps, at, rows, kills, fails>>

UnlinkFor(p) ==
  /\ drain[p].phase = "unlink"
  /\ stash' = stash \ {drain[p].call}
  /\ NextRecord(p)
  /\ UNCHANGED <<now, stamp, visible, steps, at, rows, kills, fails>>

(* The record is rewritten with one more attempt, even if another drain has  *)
(* unlinked it meanwhile.                                                    *)
WriteBack(p) ==
  /\ drain[p].phase = "keep"
  /\ stash' = stash \cup {drain[p].call}
  /\ NextRecord(p)
  /\ UNCHANGED <<now, stamp, visible, steps, at, rows, kills, fails>>

Kill(p) ==
  /\ drain[p].phase # "idle" /\ kills < MaxKills
  /\ kills' = kills + 1
  /\ drain' = [drain EXCEPT ![p] = Idle]
  /\ UNCHANGED <<now, stamp, visible, steps, at, stash, rows, fails>>

DrainStash(p) ==
  \/ Load(p) \/ (\E c \in Calls : IngestAndFind(p, c))
  \/ InsertFor(p) \/ UnlinkFor(p) \/ WriteBack(p)

Next ==
  \/ Tick
  \/ \E c \in Calls : StartTurn(c) \/ Flush(c) \/ StashRecord(c)
  \/ \E p \in Drainers : DrainStash(p) \/ Kill(p)

Spec == Init /\ [][Next]_vars

(* Time passes, and while Claude Code is in use its hooks keep draining.    *)
FairSpec == Spec /\ WF_vars(Tick) /\ \A p \in Drainers : WF_vars(DrainStash(p))
                 /\ \A s \in Leads : WF_vars(Flush(s))

-----------------------------------------------------------------------------
(* A record leaves the stash attributed or expired: no interleaving of       *)
(* drains and no kill makes one vanish inside its TTL.                       *)
RecordAccounted ==
  \A c \in Calls : at[c] # NotYet =>
    \/ c \in stash
    \/ \E r \in rows : r.call = c
    \/ now - at[c] > Ttl

(* "the change set observed between the two is attributed to that specific   *)
(* step": when every call has its own turn and its own command and no ingest *)
(* threw, its rows are on its own step.                                      *)
RowsOnOwnStep == fails = 0 => \A r \in rows : r.step = Lead[r.call]

(* The stash does not grow for ever: every record is drained or dropped.    *)
EventuallyDrained == \A c \in Calls : (c \in stash) ~> (c \notin stash)
=============================================================================
