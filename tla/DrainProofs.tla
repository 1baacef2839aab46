----------------------------- MODULE DrainProofs -----------------------------
(***************************************************************************)
(* Proofs about StashDrain: for any calls, turns and commands, any number  *)
(* of drains at once, and any kills.                                       *)
(***************************************************************************)
EXTENDS StashDrain, TLAPS

(***************************************************************************)
(* Types                                                                   *)
(***************************************************************************)

(* A moment, or none yet.                                                   *)
Moment == Nat \union {NotYet}

(* A drain holds records that have been written, and has found a step for   *)
(* the record it inserts.                                                   *)
HoldsRecords(d) ==
  /\ \A c \in d.left : at[c] # NotYet
  /\ d.phase \in {"insert", "unlink", "keep"} => d.call \in Calls /\ at[d.call] # NotYet
  /\ d.phase = "insert" => d.step \in Calls

DrainTypes ==
  /\ now \in Nat
  /\ stamp \in [Calls -> Moment] /\ at \in [Calls -> Moment]
  /\ visible \in SUBSET Calls /\ steps \in SUBSET visible
  /\ stash \in SUBSET Calls
  /\ drain \in [Drainers -> Drain]
  /\ rows \in SUBSET Row
  /\ kills \in Nat /\ fails \in Nat
  /\ \A c \in stash : at[c] # NotYet
  /\ \A p \in Drainers : HoldsRecords(drain[p])

(* A drain that has taken a record holds it and the others.                 *)
LEMMA FindTypes ==
  ASSUME NEW c \in Calls, NEW S \in SUBSET Calls, NEW m \in FindStep(c, S)
  PROVE  m.step \in S /\ m.match \in Tiers
<1> DEFINE candidates == {s \in S : stamp[s] - at[c] <= Slack}
<1>1. /\ Nearest(c, Exact(c, candidates)) \in SUBSET S
      /\ Nearest(c, Temporal(c, candidates)) \in SUBSET S
  BY DEF Nearest, Exact, Temporal
<1>2. CASE Exact(c, candidates) # {}
  <2>1. PICK s \in Nearest(c, Exact(c, candidates)) : m = [step |-> s, match |-> "exact"]
    BY <1>2 DEF FindStep
  <2> QED
    BY <1>1, <2>1 DEF Tiers
<1>3. CASE Exact(c, candidates) = {}
  <2>1. PICK s \in Nearest(c, Temporal(c, candidates)) : m = [step |-> s, match |-> "temporal"]
    BY <1>3 DEF FindStep
  <2> QED
    BY <1>1, <2>1 DEF Tiers
<1> QED
  BY <1>2, <1>3

(* A process that goes on replaces its own state and no other's.            *)
LEMMA DrainReplaced ==
  ASSUME DrainTypes, NEW p \in Drainers, NEW d \in Drain,
         drain' = [drain EXCEPT ![p] = d], UNCHANGED at, HoldsRecords(d)
  PROVE  drain' \in [Drainers -> Drain] /\ \A q \in Drainers : HoldsRecords(drain[q])'
<1>1. \A q \in Drainers : drain'[q] = d \/ drain'[q] = drain[q]
  BY DEF DrainTypes
<1>2. \A q \in Drainers : HoldsRecords(drain'[q])
  BY <1>1 DEF DrainTypes
<1> QED
  BY <1>2 DEF DrainTypes, HoldsRecords

(* Another process's step leaves this one's state alone.                    *)
LEMMA OthersHold ==
  ASSUME DrainTypes, NEW q \in Drainers, DrainStash(q) \/ Kill(q), NEW p \in Drainers \ {q}
  PROVE  drain'[p] = drain[p]
<1>1. ASSUME NEW c \in Calls, IngestAndFind(q, c) PROVE drain'[p] = drain[p]
  BY <1>1 DEF DrainTypes, IngestAndFind
<1>2. CASE Load(q) \/ InsertFor(q) \/ Kill(q)
  BY <1>2 DEF DrainTypes, Load, InsertFor, Kill
<1>3. CASE UnlinkFor(q) \/ WriteBack(q)
  BY <1>3 DEF DrainTypes, UnlinkFor, WriteBack, NextRecord
<1> QED
  BY <1>1, <1>2, <1>3 DEF DrainStash

(* What a process holds once it has done with a record.                     *)
LEMMA NextRecordTypes ==
  ASSUME DrainTypes, NEW p \in Drainers, NextRecord(p), UNCHANGED at
  PROVE  drain' \in [Drainers -> Drain] /\ \A q \in Drainers : HoldsRecords(drain[q])'
<1> DEFINE d == IF drain[p].left = {} THEN Idle
                ELSE [Idle EXCEPT !.phase = "next", !.left = drain[p].left]
<1>1. drain' = [drain EXCEPT ![p] = d]
  BY DEF NextRecord
<1>2. drain[p] \in Drain /\ HoldsRecords(drain[p])
  BY DEF DrainTypes
<1>3. d \in Drain
  BY <1>2 DEF Drain, Idle, Tiers
<1>4. HoldsRecords(d)
  BY <1>2 DEF HoldsRecords, Idle
<1> HIDE DEF d
<1> QED
  BY <1>1, <1>3, <1>4, DrainReplaced

(* The types hold at first.                                                 *)
LEMMA InitDrainTypes == Init => DrainTypes
<1> SUFFICES ASSUME Init PROVE DrainTypes
  OBVIOUS
<1>1. Idle \in Drain /\ HoldsRecords(Idle)
  BY DEF Idle, Drain, Tiers, HoldsRecords
<1> QED
  BY <1>1 DEF Init, DrainTypes, Moment

LEMMA TakeRecordTypes ==
  ASSUME DrainTypes, NEW p \in Drainers, NEW c \in Calls, IngestAndFind(p, c)
  PROVE  DrainTypes'
<1>1. /\ steps' \in SUBSET visible /\ fails' \in Nat
      /\ UNCHANGED <<now, stamp, visible, at, stash, rows, kills>>
  BY DEF DrainTypes, IngestAndFind
<1>2. drain[p] \in Drain /\ HoldsRecords(drain[p]) /\ c \in drain[p].left
  BY DEF DrainTypes, IngestAndFind
<1>3. drain' \in [Drainers -> Drain] /\ \A q \in Drainers : HoldsRecords(drain[q])'
  <2>1. CASE FindStep(c, steps') # {}
    <3>1. PICK m \in FindStep(c, steps') :
            drain' = [drain EXCEPT ![p] = [phase |-> "insert", left |-> @.left \ {c}, call |-> c,
                                           step |-> m.step, match |-> m.match]]
      BY <2>1 DEF IngestAndFind
    <3> DEFINE d == [phase |-> "insert", left |-> drain[p].left \ {c}, call |-> c,
                     step |-> m.step, match |-> m.match]
    <3>2. m.step \in Calls /\ m.match \in Tiers
      BY <1>1, FindTypes DEF DrainTypes
    <3>3. d \in Drain
      BY <1>2, <3>2 DEF Drain
    <3>4. HoldsRecords(d)
      BY <1>2, <3>2 DEF HoldsRecords
    <3>5. drain' = [drain EXCEPT ![p] = d]
      BY <3>1
    <3> HIDE DEF d
    <3> QED
      BY <1>1, <3>3, <3>4, <3>5, DrainReplaced
  <2>2. CASE FindStep(c, steps') = {}
    <3> DEFINE d == [Idle EXCEPT !.phase = IF now - at[c] > Ttl THEN "unlink" ELSE "keep",
                                 !.left = drain[p].left \ {c}, !.call = c]
    <3>1. drain' = [drain EXCEPT ![p] = d]
      <4>1. ~ \E m \in FindStep(c, steps') : TRUE
        BY <2>2
      <4> QED
        BY <4>1 DEF IngestAndFind
    <3>2. d \in Drain
      BY <1>2 DEF Drain, Idle, Tiers
    <3>3. HoldsRecords(d)
      BY <1>2 DEF HoldsRecords, Idle, Drain
    <3> HIDE DEF d
    <3> QED
      BY <1>1, <3>1, <3>2, <3>3, DrainReplaced
  <2> QED
    BY <2>1, <2>2
<1> QED
  BY <1>1, <1>3 DEF DrainTypes

(* Every step keeps the types.                                              *)
LEMMA DrainTypesKept == DrainTypes /\ [Next]_vars => DrainTypes'
<1> SUFFICES ASSUME DrainTypes, [Next]_vars PROVE DrainTypes'
  OBVIOUS
<1>1. CASE Tick
  BY <1>1 DEF Tick, DrainTypes, HoldsRecords
<1>2. ASSUME NEW s \in Calls, StartTurn(s) PROVE DrainTypes'
  BY <1>2 DEF StartTurn, DrainTypes, Moment, HoldsRecords
<1>3. ASSUME NEW s \in Calls, Flush(s) PROVE DrainTypes'
  BY <1>3 DEF Flush, DrainTypes, HoldsRecords
<1>4. ASSUME NEW c \in Calls, StashRecord(c) PROVE DrainTypes'
  <2>1. at' \in [Calls -> Moment] /\ \A d \in Calls : at[d] # NotYet => at'[d] # NotYet
    BY <1>4 DEF StashRecord, DrainTypes, Moment, NotYet
  <2>2. stash' \in SUBSET Calls /\ at'[c] # NotYet
    BY <1>4 DEF StashRecord, DrainTypes, NotYet
  <2>3. \A d \in stash' : at'[d] # NotYet
    BY <1>4, <2>1, <2>2 DEF StashRecord, DrainTypes
  <2>4. \A p \in Drainers : HoldsRecords(drain[p])'
    <3> SUFFICES ASSUME NEW p \in Drainers PROVE HoldsRecords(drain[p])'
      OBVIOUS
    <3>1. drain[p] \in Drain /\ HoldsRecords(drain[p]) /\ drain' = drain
      BY <1>4 DEF StashRecord, DrainTypes
    <3>2. drain[p].left \in SUBSET Calls
      BY <3>1 DEF Drain
    <3> QED
      BY <2>1, <3>1, <3>2 DEF HoldsRecords
  <2> QED
    BY <1>4, <2>1, <2>2, <2>3, <2>4 DEF StashRecord, DrainTypes
<1>5. ASSUME NEW p \in Drainers, Load(p) PROVE DrainTypes'
  <2> DEFINE d == [drain[p] EXCEPT !.phase = "next", !.left = stash]
  <2>1. drain' = [drain EXCEPT ![p] = d]
    BY <1>5 DEF Load
  <2>2. d \in Drain /\ HoldsRecords(d)
    BY DEF DrainTypes, Drain, HoldsRecords
  <2> HIDE DEF d
  <2>3. drain' \in [Drainers -> Drain] /\ \A q \in Drainers : HoldsRecords(drain[q])'
    BY <1>5, <2>1, <2>2, DrainReplaced DEF Load
  <2> QED
    BY <1>5, <2>3 DEF Load, DrainTypes
<1>6. ASSUME NEW p \in Drainers, InsertFor(p) PROVE DrainTypes'
  <2> DEFINE d == [drain[p] EXCEPT !.phase = "unlink"]
  <2>1. drain' = [drain EXCEPT ![p] = d]
    BY <1>6 DEF InsertFor
  <2>2. drain[p] \in Drain /\ HoldsRecords(drain[p]) /\ drain[p].phase = "insert"
    BY <1>6 DEF DrainTypes, InsertFor
  <2>3. d \in Drain /\ HoldsRecords(d)
    BY <2>2 DEF Drain, HoldsRecords
  <2> HIDE DEF d
  <2>4. drain' \in [Drainers -> Drain] /\ \A q \in Drainers : HoldsRecords(drain[q])'
    BY <1>6, <2>1, <2>3, DrainReplaced DEF InsertFor
  <2>5. rows' \in SUBSET Row
    BY <1>6, <2>2 DEF InsertFor, DrainTypes, HoldsRecords, Row, Drain
  <2> QED
    BY <1>6, <2>4, <2>5 DEF InsertFor, DrainTypes
<1>7. ASSUME NEW p \in Drainers, UnlinkFor(p) \/ WriteBack(p) PROVE DrainTypes'
  <2>1. /\ NextRecord(p)
        /\ UNCHANGED <<now, stamp, visible, steps, at, rows, kills, fails>>
    BY <1>7 DEF UnlinkFor, WriteBack
  <2>2. drain' \in [Drainers -> Drain] /\ \A q \in Drainers : HoldsRecords(drain[q])'
    BY <2>1, NextRecordTypes
  <2>3. HoldsRecords(drain[p])
    BY DEF DrainTypes
  <2>4. stash' \in SUBSET Calls /\ \A c \in stash' : at[c] # NotYet
    BY <1>7, <2>3 DEF UnlinkFor, WriteBack, DrainTypes, HoldsRecords
  <2> QED
    BY <2>1, <2>2, <2>4 DEF DrainTypes
<1>8. ASSUME NEW p \in Drainers, Kill(p) PROVE DrainTypes'
  <2>1. Idle \in Drain /\ HoldsRecords(Idle)
    BY DEF Idle, Drain, Tiers, HoldsRecords
  <2>2. drain' \in [Drainers -> Drain] /\ \A q \in Drainers : HoldsRecords(drain[q])'
    BY <1>8, <2>1, DrainReplaced DEF Kill
  <2> QED
    BY <1>8, <2>2 DEF Kill, DrainTypes
<1>9. CASE UNCHANGED vars
  BY <1>9 DEF vars, DrainTypes, HoldsRecords
<1> QED
  BY <1>1, <1>2, <1>3, <1>4, <1>5, <1>6, <1>7, <1>8, <1>9, TakeRecordTypes DEF Next, DrainStash

(***************************************************************************)
(* The types of the clock, the stash and the drains.  What the rest rests   *)
(* on: a drain only ever holds calls whose record was written, and the     *)
(* store has no step that is not in the transcript (drainStash).           *)
(***************************************************************************)
THEOREM DrainTypeCorrect == Spec => []DrainTypes
BY InitDrainTypes, DrainTypesKept, PTL DEF Spec

(***************************************************************************)
(* Records are accounted for.                                              *)
(*                                                                         *)
(* RecordAccounted is not inductive: a drain about to unlink must have     *)
(* inserted the record's rows, or found it past its TTL.                   *)
(***************************************************************************)
Attributed(c) == (\E r \in rows : r.call = c) \/ now - at[c] > Ttl

AccountedInv ==
  /\ RecordAccounted
  /\ \A p \in Drainers : drain[p].phase = "unlink" => Attributed(drain[p].call)

(* Rows stay and the clock runs on.                                         *)
LEMMA AttributedStays ==
  ASSUME DrainTypes, NEW c \in Calls, Attributed(c), rows \subseteq rows', now' \in Nat,
         now <= now', at'[c] = at[c]
  PROVE  Attributed(c)'
BY DrainConstants DEF Attributed, DrainTypes, Moment, NotYet

LEMMA AccountedKept == DrainTypes /\ AccountedInv /\ [Next]_vars => AccountedInv'
<1> SUFFICES ASSUME DrainTypes, AccountedInv, [Next]_vars PROVE AccountedInv'
  OBVIOUS
<1>1. DrainTypes'
  BY DrainTypesKept
<1>2. rows \subseteq rows' /\ now' \in Nat /\ now <= now'
  <2>1. rows \subseteq rows'
    BY DEF Next, vars, Tick, StartTurn, Flush, StashRecord, DrainStash, Load, IngestAndFind,
           InsertFor, UnlinkFor, WriteBack, Kill
  <2>2. now' = now \/ now' = now + 1
    BY DEF Next, vars, Tick, StartTurn, Flush, StashRecord, DrainStash, Load, IngestAndFind,
           InsertFor, UnlinkFor, WriteBack, Kill
  <2> QED
    BY <2>1, <2>2 DEF DrainTypes
<1>3. \A c \in Calls : at'[c] = at[c] \/ (at[c] = NotYet /\ c \in stash')
  BY DEF DrainTypes, Next, vars, Tick, StartTurn, Flush, StashRecord, DrainStash, Load,
         IngestAndFind, InsertFor, UnlinkFor, WriteBack, Kill
<1>4. \A c \in Calls : at[c] # NotYet /\ Attributed(c) => Attributed(c)'
  BY <1>2, <1>3, AttributedStays
<1>5. ASSUME NEW p \in Drainers, drain'[p].phase = "unlink"
      PROVE  Attributed(drain[p].call)'
  <2>1. drain[p] \in Drain /\ HoldsRecords(drain[p])
    BY DEF DrainTypes
  <2>2. CASE drain'[p] = drain[p]
    BY <1>4, <1>5, <2>1, <2>2 DEF AccountedInv, HoldsRecords
  <2>3. ASSUME NEW c \in Calls, IngestAndFind(p, c), drain'[p] # drain[p]
        PROVE  Attributed(drain[p].call)'
    <3>1. CASE \E m \in FindStep(c, steps') : drain'[p].phase = "insert"
      BY <1>5, <3>1
    <3>2. CASE FindStep(c, steps') = {}
      <4> DEFINE phase == IF now - at[c] > Ttl THEN "unlink" ELSE "keep"
      <4>1. ~ \E m \in FindStep(c, steps') : TRUE
        BY <3>2
      <4>2. drain' = [drain EXCEPT ![p] = [Idle EXCEPT !.phase = phase,
                        !.left = drain[p].left \ {c}, !.call = c]]
        BY <2>3, <4>1 DEF IngestAndFind
      <4> HIDE DEF phase
      <4>3. drain'[p].call = c /\ drain'[p].phase = phase
        BY <4>2 DEF DrainTypes, Idle
      <4>4. now - at[c] > Ttl
        BY <1>5, <4>3 DEF phase
      <4>5. now' = now /\ at' = at
        BY <2>3 DEF IngestAndFind
      <4> QED
        BY <4>3, <4>4, <4>5 DEF Attributed
    <3> QED
      BY <2>3, <3>1, <3>2 DEF IngestAndFind, DrainTypes
  <2>4. CASE InsertFor(p)
    <3>1. drain'[p].call = drain[p].call
      BY <2>1, <2>4 DEF InsertFor, DrainTypes, Drain
    <3>2. [call |-> drain[p].call, step |-> drain[p].step, match |-> drain[p].match] \in rows'
      BY <2>4 DEF InsertFor
    <3> QED
      BY <3>1, <3>2 DEF Attributed
  <2>5. CASE Load(p) \/ UnlinkFor(p) \/ WriteBack(p) \/ Kill(p)
    <3>1. CASE Load(p)
      <4>1. drain'[p].phase = "next"
        BY <2>1, <3>1 DEF Load, DrainTypes, Drain
      <4> QED
        BY <1>5, <4>1
    <3>2. CASE Kill(p)
      <4>1. drain'[p] = Idle
        BY <3>2 DEF Kill, DrainTypes
      <4> QED
        BY <1>5, <4>1 DEF Idle
    <3>3. CASE UnlinkFor(p) \/ WriteBack(p)
      <4>1. NextRecord(p)
        BY <3>3 DEF UnlinkFor, WriteBack
      <4>2. drain'[p].phase \in {"next", "idle"}
        BY <4>1 DEF NextRecord, DrainTypes, Idle
      <4> QED
        BY <1>5, <4>2
    <3> QED
      BY <2>5, <3>1, <3>2, <3>3
  <2>6. CASE ~ (DrainStash(p) \/ Kill(p))
    <3>1. CASE \E q \in Drainers \ {p} : DrainStash(q) \/ Kill(q)
      BY <2>2, <3>1, OthersHold
    <3>2. CASE ~ \E q \in Drainers : DrainStash(q) \/ Kill(q)
      <4>1. drain' = drain
        BY <3>2 DEF Next, vars, Tick, StartTurn, Flush, StashRecord
      <4> QED
        BY <2>2, <4>1
    <3> QED
      BY <2>6, <3>1, <3>2
  <2> QED
    BY <2>2, <2>3, <2>4, <2>5, <2>6 DEF DrainStash
<1>6. ASSUME NEW c \in Calls, at'[c] # NotYet PROVE c \in stash' \/ Attributed(c)'
  <2>1. CASE at[c] = NotYet
    BY <1>3, <1>6, <2>1
  <2>2. CASE at[c] # NotYet /\ Attributed(c)
    BY <1>4, <2>2
  <2>3. CASE at[c] # NotYet /\ ~Attributed(c)
    <3>1. c \in stash
      BY <2>3 DEF AccountedInv, RecordAccounted, Attributed
    <3>2. ~ \E p \in Drainers : UnlinkFor(p) /\ drain[p].call = c
      BY <2>3 DEF AccountedInv, UnlinkFor
    <3>3. c \in stash'
      BY <3>1, <3>2 DEF Next, vars, Tick, StartTurn, Flush, StashRecord, DrainStash, Load,
                        IngestAndFind, InsertFor, UnlinkFor, WriteBack, Kill
    <3> QED
      BY <3>3
  <2> QED
    BY <2>1, <2>2, <2>3
<1> QED
  BY <1>5, <1>6 DEF AccountedInv, RecordAccounted, Attributed

(***************************************************************************)
(* A record leaves the stash attributed or expired (drainStash): no         *)
(* interleaving of drains and no kill makes one vanish inside its TTL.     *)
(***************************************************************************)
THEOREM RecordIsAccounted == Spec => []RecordAccounted
<1>1. Init => AccountedInv
  BY DEF Init, AccountedInv, RecordAccounted, Idle
<1>2. AccountedInv => RecordAccounted
  BY DEF AccountedInv
<1> QED
  BY <1>1, <1>2, InitDrainTypes, DrainTypesKept, AccountedKept, PTL DEF Spec

(***************************************************************************)
(* Rows on their own step.                                                 *)
(*                                                                         *)
(* When every call has its own turn and its own command, the exact tier    *)
(* finds a record's own step as soon as that is in the store.  Before, the *)
(* temporal tier must not answer for another: a record old enough for it   *)
(* (MinAge) is one whose message has reached the transcript (MaxLag).      *)
(***************************************************************************)
LoneCalls ==
  /\ \A c \in Calls : Lead[c] = c
  /\ \A c, d \in Calls : Command[c] = Command[d] => c = d

TimesInv ==
  /\ \A c \in Calls : at[c] # NotYet => stamp[c] # NotYet /\ stamp[c] <= at[c] /\ at[c] <= now
  /\ \A c \in Calls : stamp[c] # NotYet => stamp[c] <= now
  /\ \A c \in Calls : stamp[c] # NotYet /\ c \notin visible => now - stamp[c] <= MaxLag

OwnInv ==
  fails = 0 =>
    /\ \A r \in rows : r.step = r.call
    /\ \A p \in Drainers : drain[p].phase = "insert" => drain[p].step = drain[p].call

LEMMA TimesKept ==
  ASSUME LoneCalls
  PROVE  DrainTypes /\ TimesInv /\ [Next]_vars => TimesInv'
<1> SUFFICES ASSUME DrainTypes, TimesInv, [Next]_vars PROVE TimesInv'
  OBVIOUS
<1>1. Leads = Calls
  BY DEF Leads, LoneCalls
<1>2. /\ now \in Nat /\ MaxLag \in Nat
      /\ \A c \in Calls : stamp[c] \in Moment /\ at[c] \in Moment
  BY DrainConstants DEF DrainTypes
<1>3. CASE Tick
  BY <1>1, <1>2, <1>3 DEF Tick, TimesInv, Moment, NotYet
<1>4. ASSUME NEW s \in Calls, StartTurn(s) PROVE TimesInv'
  <2>1. \A c \in Calls : stamp'[c] = IF c = s THEN now ELSE stamp[c]
    BY <1>4 DEF StartTurn, LoneCalls
  <2>2. stamp[s] = NotYet /\ UNCHANGED <<now, visible, at>>
    BY <1>4 DEF StartTurn
  <2>3. \A c \in Calls : at[c] # NotYet => c # s
    BY <2>2 DEF TimesInv
  <2> QED
    BY <1>2, <2>1, <2>2, <2>3 DEF TimesInv, Moment, NotYet
<1>5. ASSUME NEW s \in Calls, Flush(s) PROVE TimesInv'
  BY <1>5 DEF Flush, TimesInv
<1>6. ASSUME NEW c \in Calls, StashRecord(c) PROVE TimesInv'
  <2>1. \A d \in Calls : at'[d] = IF d = c THEN now ELSE at[d]
    BY <1>6 DEF StashRecord, DrainTypes
  <2>2. stamp[c] # NotYet /\ UNCHANGED <<now, visible, stamp>>
    BY <1>6 DEF StashRecord
  <2> QED
    BY <1>2, <2>1, <2>2 DEF TimesInv
<1>7. CASE UNCHANGED <<now, stamp, visible, at>>
  BY <1>7 DEF TimesInv
<1>8. ASSUME NEW p \in Drainers, DrainStash(p) \/ Kill(p)
      PROVE  UNCHANGED <<now, stamp, visible, at>>
  BY <1>8 DEF DrainStash, Load, IngestAndFind, InsertFor, UnlinkFor, WriteBack, Kill
<1> QED
  BY <1>3, <1>4, <1>5, <1>6, <1>7, <1>8 DEF Next, vars

(* The step found for a record after an ingest that did not throw is its own. *)
LEMMA FindsOwn ==
  ASSUME LoneCalls, MinAge > MaxLag, DrainTypes, TimesInv, NEW c \in Calls, at[c] # NotYet,
         NEW m \in FindStep(c, visible)
  PROVE  m.step = c
<1> DEFINE candidates == {s \in visible : stamp[s] - at[c] <= Slack}
<1>1. /\ now \in Nat /\ MaxLag \in Nat /\ Slack \in Nat /\ MinAge \in Nat
      /\ at[c] \in Nat /\ stamp[c] \in Nat /\ stamp[c] <= at[c]
      /\ visible \in SUBSET Calls
  BY DrainConstants DEF DrainTypes, TimesInv, Moment, NotYet
<1>2. Exact(c, candidates) \in SUBSET {c}
  BY <1>1 DEF Exact, LoneCalls
<1>3. CASE Exact(c, candidates) # {}
  <2>1. PICK s \in Nearest(c, Exact(c, candidates)) : m = [step |-> s, match |-> "exact"]
    BY <1>3 DEF FindStep
  <2>2. s \in Exact(c, candidates)
    BY DEF Nearest
  <2> QED
    BY <1>2, <2>1, <2>2
<1>4. CASE Exact(c, candidates) = {}
  <2>1. c \notin visible
    BY <1>1, <1>4 DEF Exact
  <2>2. now - stamp[c] <= MaxLag
    BY <1>1, <2>1 DEF TimesInv, NotYet
  <2>3. ~ (now - at[c] >= MinAge)
    BY <1>1, <2>2
  <2>4. Temporal(c, candidates) = {}
    BY <2>3 DEF Temporal
  <2>5. Nearest(c, {}) = {}
    BY DEF Nearest
  <2>6. FindStep(c, visible) = {[step |-> s, match |-> "temporal"] : s \in Nearest(c, {})}
    BY <1>4, <2>4 DEF FindStep
  <2> QED
    BY <2>5, <2>6
<1> QED
  BY <1>3, <1>4

LEMMA OwnKept ==
  ASSUME LoneCalls, MinAge > MaxLag
  PROVE  DrainTypes /\ TimesInv /\ OwnInv /\ [Next]_vars => OwnInv'
<1> SUFFICES ASSUME DrainTypes, TimesInv, OwnInv, [Next]_vars, fails' = 0
             PROVE  /\ \A r \in rows' : r.step = r.call
                    /\ \A p \in Drainers : drain'[p].phase = "insert" => drain'[p].step = drain'[p].call
  BY DEF OwnInv
<1>1. fails = 0
  <2>1. fails \in Nat /\ (fails' = fails \/ fails' = fails + 1)
    BY DEF DrainTypes, Next, vars, Tick, StartTurn, Flush, StashRecord, DrainStash, Load,
           IngestAndFind, InsertFor, UnlinkFor, WriteBack, Kill
  <2> QED
    BY <2>1
<1>2. /\ \A r \in rows : r.step = r.call
      /\ \A p \in Drainers : drain[p].phase = "insert" => drain[p].step = drain[p].call
  BY <1>1 DEF OwnInv
<1>3. \A r \in rows' : r.step = r.call
  <2>1. CASE rows' = rows
    BY <1>2, <2>1
  <2>2. ASSUME NEW p \in Drainers, InsertFor(p) PROVE \A r \in rows' : r.step = r.call
    BY <1>2, <2>2 DEF InsertFor
  <2>3. rows' = rows \/ \E p \in Drainers : InsertFor(p)
    BY DEF Next, vars, Tick, StartTurn, Flush, StashRecord, DrainStash, Load, IngestAndFind,
           UnlinkFor, WriteBack, Kill
  <2> QED
    BY <2>1, <2>2, <2>3
<1>4. ASSUME NEW p \in Drainers, drain'[p].phase = "insert", drain'[p] # drain[p]
      PROVE  drain'[p].step = drain'[p].call
  <2>1. CASE \E c \in Calls : IngestAndFind(p, c)
    <3>1. PICK c \in Calls : IngestAndFind(p, c)
      BY <2>1
    <3>2. at[c] # NotYet /\ steps' = visible
      BY <1>1, <3>1 DEF IngestAndFind, DrainTypes, HoldsRecords
    <3>3. CASE FindStep(c, steps') # {}
      <4>1. PICK m \in FindStep(c, steps') :
              drain' = [drain EXCEPT ![p] = [phase |-> "insert", left |-> @.left \ {c},
                                             call |-> c, step |-> m.step, match |-> m.match]]
        BY <3>1, <3>3 DEF IngestAndFind
      <4>2. drain'[p].step = m.step /\ drain'[p].call = c
        BY <4>1 DEF DrainTypes
      <4>3. m.step = c
        BY <3>2, FindsOwn
      <4> QED
        BY <4>2, <4>3
    <3>4. CASE FindStep(c, steps') = {}
      <4>1. ~ \E m \in FindStep(c, steps') : TRUE
        BY <3>4
      <4>2. drain'[p].phase \in {"unlink", "keep"}
        BY <3>1, <4>1 DEF IngestAndFind, DrainTypes, Idle
      <4> QED
        BY <1>4, <4>2
    <3> QED
      BY <3>3, <3>4
  <2>2. CASE Load(p) \/ InsertFor(p)
    <3>1. drain'[p].phase \in {"next", "unlink"}
      BY <2>2 DEF Load, InsertFor, DrainTypes, Drain
    <3> QED
      BY <1>4, <3>1
  <2>3. CASE UnlinkFor(p) \/ WriteBack(p) \/ Kill(p)
    <3>1. NextRecord(p) \/ drain' = [drain EXCEPT ![p] = Idle]
      BY <2>3 DEF UnlinkFor, WriteBack, Kill
    <3>2. CASE NextRecord(p)
      <4>1. drain'[p].phase \in {"next", "idle"}
        BY <3>2 DEF NextRecord, DrainTypes, Idle
      <4> QED
        BY <1>4, <4>1
    <3>3. CASE drain' = [drain EXCEPT ![p] = Idle]
      BY <1>4, <3>3 DEF DrainTypes, Idle
    <3> QED
      BY <3>1, <3>2, <3>3
  <2>4. CASE ~ (DrainStash(p) \/ Kill(p))
    <3>1. CASE \E q \in Drainers \ {p} : DrainStash(q) \/ Kill(q)
      BY <1>4, <3>1, OthersHold
    <3>2. CASE ~ \E q \in Drainers : DrainStash(q) \/ Kill(q)
      BY <1>4, <3>2 DEF Next, vars, Tick, StartTurn, Flush, StashRecord
    <3> QED
      BY <2>4, <3>1, <3>2
  <2> QED
    BY <2>1, <2>2, <2>3, <2>4 DEF DrainStash
<1> QED
  BY <1>2, <1>3, <1>4

(***************************************************************************)
(* The rows of a record are on the step that made its call (findStep), when *)
(* every call has a turn and a command of its own, no ingest threw, and the *)
(* temporal tier waits longer than a message takes to reach the transcript. *)
(* DrainExact's instance satisfies the hypotheses; the code's minimum age   *)
(* is there for the last.                                                  *)
(***************************************************************************)
THEOREM RowsAreOnOwnStep ==
  ASSUME LoneCalls, MinAge > MaxLag
  PROVE  Spec => []RowsOnOwnStep
<1>1. Init => TimesInv /\ OwnInv
  BY DEF Init, TimesInv, OwnInv, Idle
<1>2. DrainTypes /\ TimesInv /\ OwnInv /\ [Next]_vars => (TimesInv /\ OwnInv)'
  BY TimesKept, OwnKept
<1>3. DrainTypes /\ OwnInv => RowsOnOwnStep
  BY DEF DrainTypes, OwnInv, RowsOnOwnStep, LoneCalls, Row
<1> QED
  BY <1>1, <1>2, <1>3, InitDrainTypes, DrainTypesKept, PTL DEF Spec
=============================================================================
